---------------------------- MODULE StorageProofs ----------------------------
(***************************************************************************)
(* The inductive invariants of what is stored: the databases that          *)
(* migrations open, the backups, the maintenance cycles and the history of *)
(* searches (MCStorage), and the sources, which the commands that read     *)
(* catalog-sources.yml write (MCCommands).  ComponentsProofs carries them  *)
(* over to MCComponents.                                                   *)
(***************************************************************************)
EXTENDS MCStorage, MCCommands, FiniteSetTheorems, SequenceTheorems, TLAPS

(***************************************************************************)
(* Sequences and finite sets                                               *)
(***************************************************************************)
LEMMA FunctionIsSequence ==
  ASSUME NEW S, NEW n \in Nat, NEW f \in [1..n -> S]
  PROVE  f \in Seq(S) /\ Len(f) = n
  <1>1. Seq(S) = UNION {[1..k -> S] : k \in Nat}
    OBVIOUS
  <1>2. f \in Seq(S)
    BY <1>1
  <1>3. DOMAIN f = 1..Len(f) /\ Len(f) \in Nat
    BY <1>2, LenProperties
  <1> QED
    BY <1>2, <1>3

(* A finite set of numbers has a least and a greatest element: a smallest  *)
(* set without them would have one element more than one that has them.    *)
LEMMA SetHasExtremes ==
  ASSUME NEW S, IsFiniteSet(S), S \subseteq Nat, S # {}
  PROVE  /\ \E x \in S : \A y \in S : x <= y
         /\ \E x \in S : \A y \in S : x >= y
  <1> DEFINE HasBoth(A) == /\ \E x \in A : \A y \in A : x <= y
                           /\ \E x \in A : \A y \in A : x >= y
             F == {A \in SUBSET S : A # {} /\ ~HasBoth(A)}
             R == StrictSubsetOrdering(S)
  <1>1. SUFFICES ASSUME F # {} PROVE FALSE
    <2>1. S \notin F => HasBoth(S)
      OBVIOUS
    <2> QED
      BY <2>1
  <1>2. PICK A \in F : \A B \in F : ~(<<B, A>> \in R)
    <2>1. IsWellFoundedOn(R, SUBSET S)
      BY FS_StrictSubsetOrderingWellFounded, FS_FiniteSubsetsOfFinite
    <2>2. F \subseteq SUBSET S
      OBVIOUS
    <2> HIDE DEF R, F
    <2> QED
      BY <1>1, <2>1, <2>2, WFMin
  <1>3. PICK x \in A : TRUE
    OBVIOUS
  <1>4. A \ {x} \notin F
    BY <1>2, <1>3 DEF StrictSubsetOrdering
  <1>5. A \subseteq Nat /\ ~HasBoth(A)
    OBVIOUS
  <1>6. CASE A \ {x} = {}
    <2>1. \A y \in A : y = x /\ x <= y /\ x >= y
      BY <1>3, <1>5, <1>6
    <2> QED
      BY <1>3, <1>5, <2>1
  <1>7. CASE HasBoth(A \ {x})
    <2>1. PICK low \in A \ {x} : \A y \in A \ {x} : low <= y
      BY <1>7
    <2>2. PICK high \in A \ {x} : \A y \in A \ {x} : high >= y
      BY <1>7
    <2>3. \E l \in A : \A y \in A : l <= y
      <3>1. CASE low <= x
        BY <1>5, <2>1, <3>1
      <3>2. CASE ~(low <= x)
        <4>1. \A y \in A : x <= y
          BY <1>3, <1>5, <2>1, <3>2
        <4> QED
          BY <1>3, <4>1
      <3> QED
        BY <3>1, <3>2
    <2>4. \E h \in A : \A y \in A : h >= y
      <3>1. CASE high >= x
        BY <1>5, <2>2, <3>1
      <3>2. CASE ~(high >= x)
        <4>1. \A y \in A : x >= y
          BY <1>3, <1>5, <2>2, <3>2
        <4> QED
          BY <1>3, <4>1
      <3> QED
        BY <3>1, <3>2
    <2> QED
      BY <1>5, <2>3, <2>4
  <1> QED
    BY <1>4, <1>6, <1>7

(***************************************************************************)
(* Backups                                                                 *)
(***************************************************************************)
BackupSteps ==
  {"idle", "copy", "verify", "sync", "link", "syncFinal", "syncDirectory", "rollback",
   "syncRollback", "cleanup", "done"}

BackupTypes ==
  /\ revision \in 0..MaxRevision
  /\ data \in [Copier -> Backups!Whole \cup {Backups!Partial, Backups!Lost}]
  /\ flushed \in SUBSET Copier
  /\ entries \in [Final -> Copier \cup {None}]
  /\ onDisk \in [Final -> Copier \cup {None}]
  /\ backupStep \in [Copier -> BackupSteps]
  /\ name \in [Copier -> Final \cup {None}]
  /\ failure \in [Copier -> Backups!Failures \cup {None}]
  /\ answers \in [Copier -> Backups!Failures \cup {"backed_up", None}]

(* The file of a process is whole, flushed and of a sound catalogue.       *)
IsSafe(b) == b \in flushed /\ data[b] \in Backups!Whole /\ catalogue = "sound"

(* No name is the one of the file of a process, now and after a power loss.*)
IsGone(b) == \A f \in Final : entries[f] # b /\ onDisk[f] # b

(* Only the name that a process has chosen is that of its file, and the    *)
(* file is safe before that.                                               *)
NamesAreSafe ==
  \A f \in Final : \A b \in Copier :
    entries[f] = b \/ onDisk[f] = b => name[b] = f /\ IsSafe(b)

(* What each step of a process may rely on.                                *)
StepIsSound(b) ==
  /\ backupStep[b] \in {"idle", "copy", "verify", "sync", "link"} =>
       IsGone(b) /\ failure[b] = None /\ answers[b] = None
  /\ backupStep[b] \in {"verify", "sync", "link"} => data[b] \in Backups!Whole
  /\ backupStep[b] \in {"sync", "link"} => catalogue = "sound"
  /\ backupStep[b] = "link" => b \in flushed
  /\ backupStep[b] \notin {"idle", "done"} => name[b] \in Final
  /\ backupStep[b] \in {"syncFinal", "syncDirectory", "rollback"} =>
       entries[name[b]] = b /\ failure[b] = None /\ answers[b] = None
  /\ backupStep[b] = "syncRollback" =>
       (\A f \in Final : entries[f] # b) /\ failure[b] = None /\ answers[b] = None
  /\ backupStep[b] = "cleanup" =>
       /\ answers[b] = None
       /\ failure[b] = None => entries[name[b]] = b /\ onDisk[name[b]] = b
       /\ failure[b] \notin {None, "ROLLBACK_FAILED"} => IsGone(b)

(* What a process has answered holds on the disk too.                      *)
AnswerIsSound(b) ==
  /\ answers[b] = "backed_up" =>
       /\ name[b] \in Final
       /\ entries[name[b]] = b /\ onDisk[name[b]] = b
  /\ answers[b] \notin {None, "backed_up", "ROLLBACK_FAILED"} => IsGone(b)

BackupInv ==
  /\ BackupTypes
  /\ NamesAreSafe
  /\ \A b \in Copier : StepIsSound(b) /\ AnswerIsSound(b)

LEMMA BackupInvInit ==
  ASSUME Backups!BackupAssumption, Backups!BackupInit
  PROVE  BackupInv
  BY DEF Backups!BackupAssumption, Backups!BackupInit, BackupInv, BackupTypes, BackupSteps,
         NamesAreSafe, StepIsSound, AnswerIsSound, IsGone, Backups!Partial

(* A step of one process leaves what holds of the files of the others.     *)
LEMMA BackupStep ==
  ASSUME Backups!BackupAssumption, BackupInv, Backups!BackupNext
  PROVE  BackupInv'
  <1> USE DEF BackupInv, BackupTypes, BackupSteps, NamesAreSafe, StepIsSound, AnswerIsSound,
         IsGone, IsSafe, Backups!Failures, Backups!BackupAssumption
  <1>1. ASSUME NEW b \in Copier, Backups!Run(b) PROVE BackupInv'
    BY <1>1 DEF Backups!Run, Backups!Answer, Backups!Refusal, Backups!IsValidName
  <1>2. ASSUME NEW b \in Copier, Backups!Copy(b) PROVE BackupInv'
    BY <1>2 DEF Backups!Copy, Backups!Goes, Backups!Fail, Backups!Whole
  <1>3. ASSUME NEW b \in Copier, Backups!VerifySnapshot(b) PROVE BackupInv'
    BY <1>3 DEF Backups!VerifySnapshot, Backups!Goes, Backups!Fail, Backups!files
  <1>4. ASSUME NEW b \in Copier, Backups!SyncFile(b) PROVE BackupInv'
    BY <1>4 DEF Backups!SyncFile, Backups!Synced, Backups!Goes, Backups!Fail, Backups!files
  <1>5. ASSUME NEW b \in Copier, Backups!Link(b) PROVE BackupInv'
    BY <1>5 DEF Backups!Link, Backups!Goes, Backups!Fail, Backups!files
  <1>6. ASSUME NEW b \in Copier, Backups!SyncFinal(b) PROVE BackupInv'
    BY <1>6 DEF Backups!SyncFinal, Backups!Synced, Backups!Goes, Backups!files
  <1>7. ASSUME NEW b \in Copier, Backups!SyncDirectory(b) PROVE BackupInv'
    BY <1>7 DEF Backups!SyncDirectory, Backups!Goes, Backups!files
  <1>8. ASSUME NEW b \in Copier, Backups!RollbackPublication(b) PROVE BackupInv'
    BY <1>8 DEF Backups!RollbackPublication, Backups!Goes, Backups!Fail, Backups!files
  <1>9. ASSUME NEW b \in Copier, Backups!SyncRollback(b) PROVE BackupInv'
    BY <1>9 DEF Backups!SyncRollback, Backups!Goes, Backups!Fail, Backups!files
  <1>10. ASSUME NEW b \in Copier, Backups!CleanupTemporaryFamily(b) PROVE BackupInv'
    BY <1>10 DEF Backups!CleanupTemporaryFamily, Backups!Answer
  <1>11. ASSUME NEW b \in Copier, Backups!Crash(b) PROVE BackupInv'
    BY <1>11 DEF Backups!Crash, Backups!files
  <1>12. CASE Backups!PowerLoss
    BY <1>12 DEF Backups!PowerLoss
  <1>13. CASE Backups!Write
    BY <1>13 DEF Backups!Write, Backups!files
  <1> HIDE DEF BackupInv, Backups!BackupAssumption
  <1> QED
    BY <1>1, <1>2, <1>3, <1>4, <1>5, <1>6, <1>7, <1>8, <1>9, <1>10, <1>11, <1>12, <1>13 DEF Backups!BackupNext

LEMMA BackupStutter ==
  ASSUME BackupInv, UNCHANGED backupVars
  PROVE  BackupInv'
  BY DEF BackupInv, BackupTypes, NamesAreSafe, StepIsSound, AnswerIsSound, IsGone, IsSafe,
         backupVars

LEMMA BackupProperty ==
  ASSUME Backups!BackupAssumption, BackupInv
  PROVE  Backups!BackupsAreWhole /\ Backups!AnswersAreKept
  BY DEF BackupInv, BackupTypes, NamesAreSafe, AnswerIsSound, IsGone, IsSafe,
         Backups!BackupAssumption, Backups!BackupsAreWhole, Backups!AnswersAreKept

(***************************************************************************)
(* Maintenance cycles                                                      *)
(***************************************************************************)
CycleSteps ==
  {"idle", "open", "count", "retain", "retained", "optimize", "optimized", "checkpoint",
   "checkpointed", "vacuum", "done", "close", "release", "over"}

Ends == Cycles!Failures \cup Cycles!Refusals \cup {"maintained", None}

(* A row is the record of its columns.                                     *)
CycleTypes ==
  /\ owner \in Cycle \cup {None}
  /\ cycleStep \in [Cycle -> CycleSteps]
  /\ cycleFailure \in [Cycle -> Cycles!Failures \cup {None}]
  /\ late \in [Cycle -> SUBSET {"retention", "optimize", "checkpoint", "vacuum"}]
  /\ told \in [Cycle -> Ends]
  /\ \A r \in runs : r = [id |-> r.id, started |-> r.started, running |-> r.running]
  /\ \A e \in events : e = [event |-> e.event, run |-> e.run]

(* Between a renewal and the work that follows it a cycle is not late; it  *)
(* may get late by that work, and then only the next renewal, which fails, *)
(* or the end of the cycle is before it.                                   *)
LatenessIsNoticed(p) ==
  /\ cycleStep[p] = "idle" => owner # p
  /\ owner = p => late[p] = {}
  /\ late[p] # {} =>
       /\ \E what \in late[p] : late[p] = {what}
       /\ cycleStep[p] \in {"retained", "optimized", "checkpointed", "done", "close",
                            "release", "over"}
       /\ cycleStep[p] \in {"close", "release"} => cycleFailure[p] # None
  /\ told[p] # None => cycleStep[p] = "over"
  /\ told[p] = "maintained" => late[p] = {}

CycleInv ==
  /\ CycleTypes
  /\ \A p \in Cycle : LatenessIsNoticed(p)
  /\ Cycles!EventsNameTheirRun

LEMMA CycleInvInit ==
  ASSUME Cycles!MaintenanceAssumption, Cycles!MaintenanceInit
  PROVE  CycleInv
  BY DEF Cycles!MaintenanceAssumption, Cycles!MaintenanceInit, CycleInv, CycleTypes, CycleSteps,
         Ends, LatenessIsNoticed, Cycles!EventsNameTheirRun

(* Where each renewal leads.                                               *)
LEMMA StepsAfterRenewals ==
  /\ DOMAIN Cycles!Steps = {"open", "retained", "optimized", "checkpointed", "done"}
  /\ Cycles!Steps["open"] = "count" /\ Cycles!Steps["retained"] = "optimize"
  /\ Cycles!Steps["optimized"] = "checkpoint" /\ Cycles!Steps["checkpointed"] = "vacuum"
  /\ Cycles!Steps["done"] = "close"
  BY DEF Cycles!Steps

(* A cycle that lost its lock does one thing at most before it notices.    *)
LEMMA CycleStep ==
  ASSUME Cycles!MaintenanceAssumption, CycleInv, Cycles!MaintenanceNext
  PROVE  CycleInv'
  <1> USE DEF CycleInv, CycleTypes, CycleSteps, Ends, LatenessIsNoticed,
         Cycles!EventsNameTheirRun, Cycles!Failures, Cycles!Refusals
  <1>a. None \notin Cycle \cup Cycles!Failures \cup Cycles!Refusals \cup {"maintained"}
    BY DEF Cycles!MaintenanceAssumption
  <1>1. ASSUME NEW p \in Cycle, Cycles!Acquire(p) PROVE CycleInv'
    BY <1>a, <1>1 DEF Cycles!Acquire, Cycles!Ends, Cycles!Goes, Cycles!rows
  <1>2. ASSUME NEW p \in Cycle, Cycles!RenewLock(p) PROVE CycleInv'
    BY <1>a, <1>2, StepsAfterRenewals DEF Cycles!RenewLock, Cycles!Goes, Cycles!Fails, Cycles!rows
  <1>3. ASSUME NEW p \in Cycle, Cycles!CountSyncRuns(p) PROVE CycleInv'
    BY <1>a, <1>3 DEF Cycles!CountSyncRuns, Cycles!Goes, Cycles!rows
  <1>4. ASSUME NEW p \in Cycle, Cycles!DeleteExpiredSyncRuns(p) PROVE CycleInv'
    BY <1>a, <1>4 DEF Cycles!DeleteExpiredSyncRuns, Cycles!Works, Cycles!Goes
  <1>5. ASSUME NEW p \in Cycle, Cycles!Optimize(p) PROVE CycleInv'
    BY <1>a, <1>5 DEF Cycles!Optimize, Cycles!Works, Cycles!Goes, Cycles!rows
  <1>6. ASSUME NEW p \in Cycle, Cycles!CheckpointWal(p) PROVE CycleInv'
    BY <1>a, <1>6 DEF Cycles!CheckpointWal, Cycles!Works, Cycles!Goes, Cycles!Fails, Cycles!rows
  <1>7. ASSUME NEW p \in Cycle, Cycles!Vacuum(p) PROVE CycleInv'
    BY <1>a, <1>7 DEF Cycles!Vacuum, Cycles!Works, Cycles!Goes, Cycles!rows
  <1>8. ASSUME NEW p \in Cycle, Cycles!StatementFails(p) PROVE CycleInv'
    BY <1>a, <1>8 DEF Cycles!StatementFails, Cycles!Goes, Cycles!Fails, Cycles!rows
  <1>9. ASSUME NEW p \in Cycle, Cycles!Close(p) PROVE CycleInv'
    BY <1>a, <1>9 DEF Cycles!Close, Cycles!Goes, Cycles!rows
  <1>10. ASSUME NEW p \in Cycle, Cycles!ReleaseLease(p) PROVE CycleInv'
    BY <1>a, <1>10 DEF Cycles!ReleaseLease, Cycles!Ends, Cycles!Goes, Cycles!Answer, Cycles!rows
  <1>11. ASSUME NEW p \in Cycle, Cycles!Die(p) PROVE CycleInv'
    BY <1>a, <1>11 DEF Cycles!Die, Cycles!Goes, Cycles!rows
  <1>12. CASE Cycles!LoseLock
    BY <1>a, <1>12 DEF Cycles!LoseLock, Cycles!rows
  <1>13. CASE Cycles!StartRun
    <2>1. PICK id : /\ runs' = runs \cup {[id |-> id, started |-> now', running |-> TRUE]}
                    /\ events' = events \cup {[event |-> now', run |-> id]}
      BY <1>13 DEF Cycles!StartRun
    <2> DEFINE row == [id |-> id, started |-> now', running |-> TRUE]
               event == [event |-> now', run |-> id]
    <2>2. /\ row = [id |-> row.id, started |-> row.started, running |-> row.running]
          /\ event = [event |-> event.event, run |-> event.run]
          /\ row.id = event.run /\ row.started = event.event
      OBVIOUS
    <2>3. runs' = runs \cup {row} /\ events' = events \cup {event}
      BY <2>1
    <2> HIDE DEF row, event
    <2>4. UNCHANGED <<owner, cycleStep, cycleFailure, late, told>>
      BY <1>13 DEF Cycles!StartRun
    <2>5. Cycles!EventsNameTheirRun'
      BY <2>2, <2>3
    <2> QED
      BY <2>2, <2>3, <2>4, <2>5
  <1>14. CASE Cycles!FinishRun
    <2>1. PICK r \in runs : runs' = (runs \ {r}) \cup {[r EXCEPT !.running = FALSE]}
      BY <1>14 DEF Cycles!FinishRun
    <2> DEFINE row == [r EXCEPT !.running = FALSE]
    <2>2. /\ row = [id |-> row.id, started |-> row.started, running |-> row.running]
          /\ row.id = r.id /\ row.started = r.started
      <3>1. r = [id |-> r.id, started |-> r.started, running |-> r.running]
        OBVIOUS
      <3>2. /\ DOMAIN r = {"id", "started", "running"}
            /\ DOMAIN row = DOMAIN r
        BY <3>1
      <3>3. row.id = r.id /\ row.started = r.started /\ row.running = FALSE
        BY <3>2
      <3>4. row = [k \in {"id", "started", "running"} |-> row[k]]
        BY <3>2
      <3> HIDE DEF row
      <3> QED
        BY <3>3, <3>4
    <2>3. runs' = (runs \ {r}) \cup {row}
      BY <2>1
    <2> HIDE DEF row
    <2>4. UNCHANGED <<owner, events, cycleStep, cycleFailure, late, told>>
      BY <1>14 DEF Cycles!FinishRun
    <2>5. Cycles!EventsNameTheirRun'
      BY <2>2, <2>3, <2>4
    <2> QED
      BY <2>2, <2>3, <2>4, <2>5
  <1> HIDE DEF CycleInv
  <1> QED
    BY <1>1, <1>2, <1>3, <1>4, <1>5, <1>6, <1>7, <1>8, <1>9, <1>10, <1>11, <1>12, <1>13, <1>14 DEF Cycles!MaintenanceNext

LEMMA CycleStutter ==
  ASSUME CycleInv, UNCHANGED cycleVars
  PROVE  CycleInv'
  BY DEF CycleInv, CycleTypes, LatenessIsNoticed, Cycles!EventsNameTheirRun, cycleVars

(* The operator of an instance is the one of the module.                   *)
LEMMA CycleCardinality == \A S : Cycles!Cardinality(S) = Cardinality(S)
  BY Zenon DEF Cycles!Cardinality, Cardinality

LEMMA CycleProperty ==
  ASSUME CycleInv
  PROVE  Cycles!MaintenanceIsExclusive
  <1>1. ASSUME NEW p \in Cycle PROVE Cardinality(late[p]) <= 1
    <2>1. CASE late[p] = {}
      BY <2>1, FS_EmptySet
    <2>2. ASSUME NEW what \in late[p], late[p] = {what}
          PROVE  Cardinality(late[p]) <= 1
      BY <2>2, FS_Singleton
    <2> QED
      BY <2>1, <2>2 DEF CycleInv, LatenessIsNoticed
  <1>2. \A p \in Cycle : told[p] = "maintained" => late[p] = {}
    BY DEF CycleInv, LatenessIsNoticed
  <1>3. Cycles!EventsNameTheirRun
    BY DEF CycleInv
  <1> HIDE DEF CycleInv
  <1> QED
    BY <1>1, <1>2, <1>3, CycleCardinality DEF Cycles!MaintenanceIsExclusive

(***************************************************************************)
(* The migrations of a database                                            *)
(***************************************************************************)
Migrating == {"ledger", "migrating"}

(* The migrations of a build come in order, and none is missing before one.*)
InOrderFromOne(build) ==
  /\ build \in Seq(UNION Files)
  /\ \A i, j \in DOMAIN build : i < j => build[i].version < build[j].version
  /\ \A i \in DOMAIN build : \A v \in 1..build[i].version : \E j \in 1..i : build[j].version = v

MigrationTypes ==
  /\ file \in Database
  /\ writer \in Opener \cup {None}
  /\ step \in [Opener -> {"closed", "waiting", "ledger", "migrating", "open", "refused"}]
  /\ next \in [Opener -> Nat \ {0}]
  /\ \A p \in Opener : InOrderFromOne(shipped[p])
  /\ shipped \in [Opener -> Seq(UNION Files)]

(* What a writer does to a database: it adds to the schema, and completes  *)
(* the rows of the ledger.                                                 *)
Continues(later, db) ==
  /\ later.unsigned = db.unsigned
  /\ DOMAIN db.schema \subseteq DOMAIN later.schema
  /\ \A i \in DOMAIN db.schema : later.schema[i] = db.schema[i]
  /\ \A v \in Version : db.ledger[v].there =>
       /\ later.ledger[v].there
       /\ db.ledger[v].name \in {None, later.ledger[v].name}
       /\ db.ledger[v].checksum \in {None, later.ledger[v].checksum}

(* A migration ran with the text it has, unless the ledger could not tell. *)
HasRun(db, f) ==
  /\ db.ledger[f.version].there
  /\ f.version \notin db.unsigned => db.schema[f.version].text = f.text

IsRefusedBy(db, f) == db.ledger[f.version].there /\ ~Matches(db.ledger[f.version], f)

(* What is left to do is as it was when the transaction began.             *)
WriterIsSound(p) ==
  /\ tx \in Database /\ TellsItsSchema(tx) /\ Continues(tx, file)
  /\ next[p] \in 1..(Len(shipped[p]) + 1)
  /\ \A i \in DOMAIN shipped[p] :
       IF i < next[p] THEN HasRun(tx, shipped[p][i])
       ELSE tx.ledger[shipped[p][i].version] = file.ledger[shipped[p][i].version]

OpenerIsSound(p) ==
  /\ writer = p <=> step[p] \in Migrating
  /\ step[p] = "ledger" \/ step[p] = "waiting" => next[p] = 1
  /\ step[p] \in Migrating => WriterIsSound(p)
  /\ step[p] = "open" => \A i \in DOMAIN shipped[p] : HasRun(file, shipped[p][i])
  /\ step[p] = "refused" => \E i \in DOMAIN shipped[p] : IsRefusedBy(file, shipped[p][i])

MigrationInv ==
  /\ MigrationTypes
  /\ TellsItsSchema(file)
  /\ \A p \in Opener : OpenerIsSound(p)

LEMMA BuildsAreInOrder ==
  ASSUME MigrationsAssumption, NEW kind \in Kinds, NEW directory \in Files
  PROVE  InOrderFromOne(LoadMigrations(kind, directory))
  <1> DEFINE migrations == {f \in directory : f.prefix = kind}
             n == Cardinality(migrations)
             Sorted(s) == \A i, j \in DOMAIN s : i < j => s[i].version < s[j].version
  <1>1. /\ IsFiniteSet(migrations) /\ n \in Nat /\ {f.version : f \in migrations} = 1..n
        /\ \A f, g \in migrations : f.version = g.version => f = g
        /\ \A f \in migrations : f.version \in 1..n
        /\ migrations \subseteq UNION Files
    <2>1. /\ IsFiniteSet(migrations) /\ {f.version : f \in migrations} = 1..n
          /\ \A f, g \in migrations : f.version = g.version => f = g
      BY DEF MigrationsAssumption
    <2>2. n \in Nat
      BY <2>1, FS_CardinalityType
    <2>3. \A f \in migrations : f.version \in {g.version : g \in migrations}
      OBVIOUS
    <2> QED
      BY <2>1, <2>2, <2>3
  <1>2. \E s \in SetToSeqs(migrations) : Sorted(s)
    <2> DEFINE s == [i \in 1..n |-> CHOOSE f \in migrations : f.version = i]
    <2>1. \A i \in 1..n : s[i] \in migrations /\ s[i].version = i
      BY <1>1
    <2>2. s \in [1..n -> migrations] /\ \A i, j \in 1..n : i # j => s[i] # s[j]
      BY <2>1
    <2> HIDE DEF s
    <2>3. s \in SetToSeqs(migrations)
      BY <2>2 DEF SetToSeqs
    <2>4. Sorted(s)
      BY <2>1, <2>2
    <2> QED
      BY <2>3, <2>4
  <1>3. PICK s : s = LoadMigrations(kind, directory)
    OBVIOUS
  <1>4. s \in SetToSeqs(migrations) /\ Sorted(s)
    BY <1>2, <1>3 DEF LoadMigrations
  <1> HIDE DEF migrations
  <1>5. s \in [1..n -> migrations] /\ \A i, j \in 1..n : i # j => s[i] # s[j]
    BY <1>4 DEF SetToSeqs
  <1>6. s \in Injection(1..n, migrations)
    BY <1>5 DEF Injection, IsInjective
  <1>7. s \in Surjection(1..n, migrations)
    BY <1>1, <1>6, FS_Injection, FS_Interval
  <1>8. \A f \in migrations : \E j \in 1..n : s[j] = f
    BY <1>7 DEF Surjection
  <1>9. s \in Seq(UNION Files) /\ DOMAIN s = 1..n
    BY <1>1, <1>5, FunctionIsSequence
  <1>10. ASSUME NEW i \in 1..n, NEW v \in 1..s[i].version
         PROVE  \E j \in 1..i : s[j].version = v
    <2>1. s[i] \in migrations /\ s[i].version \in 1..n
      BY <1>1, <1>5
    <2>2. v \in 1..n /\ v <= s[i].version
      BY <1>1, <2>1
    <2>3. PICK f \in migrations : f.version = v
      BY <1>1, <2>2
    <2>4. PICK j \in 1..n : s[j] = f
      BY <1>8
    <2>5. ~(i < j)
      BY <1>4, <1>5, <2>1, <2>2, <2>3, <2>4
    <2> QED
      BY <1>1, <2>3, <2>4, <2>5
  <1> HIDE DEF n
  <1> QED
    BY <1>3, <1>4, <1>9, <1>10 DEF InOrderFromOne

LEMMA MigrationInvInit ==
  ASSUME MigrationsAssumption, MigrationsInit
  PROVE  MigrationInv
  <1>1. file \in Database /\ TellsItsSchema(file) /\ None \notin Opener
    BY DEF MigrationsAssumption, MigrationsInit
  <1>2. InOrderFromOne(<<>>) /\ <<>> \in Seq(UNION Files)
    BY DEF InOrderFromOne
  <1>3. MigrationTypes
    BY <1>1, <1>2 DEF MigrationsInit, MigrationTypes
  <1>4. ASSUME NEW p \in Opener PROVE OpenerIsSound(p)
    BY <1>1 DEF MigrationsInit, OpenerIsSound, Migrating
  <1> QED
    BY <1>1, <1>3, <1>4 DEF MigrationInv

(* What ran, and what is refused, stays so.                                *)
LEMMA ContinuesKeeps ==
  ASSUME NEW later \in Database, NEW db \in Database, Continues(later, db),
         TellsItsSchema(db), NEW f, f.version \in Version
  PROVE  /\ HasRun(db, f) => HasRun(later, f)
         /\ IsRefusedBy(db, f) => IsRefusedBy(later, f)
  <1>1. HasRun(db, f) => HasRun(later, f)
    BY DEF HasRun, Continues, TellsItsSchema
  <1>2. IsRefusedBy(db, f) => IsRefusedBy(later, f)
    BY DEF IsRefusedBy, Continues, Matches
  <1> QED
    BY <1>1, <1>2

LEMMA ContinuesItself ==
  ASSUME NEW db \in Database
  PROVE  Continues(db, db)
  BY DEF Continues

(* The versions of the migrations of a build are versions.                 *)
LEMMA BuildVersions ==
  ASSUME MigrationsAssumption, NEW build, InOrderFromOne(build)
  PROVE  /\ DOMAIN build = 1..Len(build) /\ Len(build) \in Nat
         /\ \A i \in DOMAIN build :
              /\ build[i].version \in Version /\ build[i].version \in Nat \ {0}
              /\ build[i].name \in MigrationName /\ build[i].text \in MigrationText
  <1>1. build \in Seq(UNION Files)
    BY DEF InOrderFromOne
  <1>2. DOMAIN build = 1..Len(build) /\ Len(build) \in Nat
    BY <1>1, LenProperties
  <1>3. ASSUME NEW i \in DOMAIN build
        PROVE  /\ build[i].version \in Version /\ build[i].version \in Nat \ {0}
               /\ build[i].name \in MigrationName /\ build[i].text \in MigrationText
    <2>1. build[i] \in UNION Files
      BY <1>1, <1>2, <1>3, ElementOfSeq
    <2> QED
      BY <2>1 DEF MigrationsAssumption, Version
  <1> QED
    BY <1>2, <1>3

(* A step that leaves the database alone, and the other processes.         *)
LEMMA OnlyOpenerMoves ==
  ASSUME MigrationsAssumption, MigrationInv, NEW p \in Opener,
         UNCHANGED file, MigrationTypes',
         \A q \in Opener \ {p} : step'[q] = step[q] /\ next'[q] = next[q] /\ shipped'[q] = shipped[q],
         \/ UNCHANGED <<writer, tx>>
         \/ writer \in {None, p} /\ writer' \in {None, p},
         OpenerIsSound(p)'
  PROVE  MigrationInv'
  <1>1. ASSUME NEW q \in Opener, q # p PROVE OpenerIsSound(q)'
    <2>1. OpenerIsSound(q) /\ None \notin Opener
      BY DEF MigrationInv, MigrationsAssumption
    <2>2. step'[q] = step[q] /\ next'[q] = next[q] /\ shipped'[q] = shipped[q]
      BY <1>1
    <2>3. CASE UNCHANGED <<writer, tx>>
      BY <2>1, <2>2, <2>3 DEF OpenerIsSound, WriterIsSound
    <2>4. CASE writer \in {None, p} /\ writer' \in {None, p}
      <3>1. step[q] \notin Migrating
        BY <1>1, <2>1, <2>4 DEF OpenerIsSound
      <3> QED
        BY <1>1, <2>1, <2>2, <2>4, <3>1 DEF OpenerIsSound
    <2> QED
      BY <2>3, <2>4
  <1> QED
    BY <1>1 DEF MigrationInv

LEMMA MigrationOpen ==
  ASSUME MigrationsAssumption, MigrationInv, NEW p \in Opener, Open(p)
  PROVE  MigrationInv'
  <1>1. PICK directory \in Files :
          shipped' = [shipped EXCEPT ![p] = LoadMigrations(file.kind, directory)]
    BY DEF Open
  <1>2. file.kind \in Kinds
    BY DEF MigrationInv, MigrationTypes, Database
  <1>3. InOrderFromOne(LoadMigrations(file.kind, directory))
    BY <1>2, BuildsAreInOrder
  <1>4. LoadMigrations(file.kind, directory) \in Seq(UNION Files)
    BY <1>3 DEF InOrderFromOne
  <1>5. MigrationTypes'
    BY <1>1, <1>3, <1>4 DEF Open, MigrationInv, MigrationTypes
  <1>6. OpenerIsSound(p)'
    BY DEF Open, MigrationInv, MigrationTypes, OpenerIsSound, Migrating
  <1>7. /\ UNCHANGED <<file, writer, tx>>
        /\ \A q \in Opener \ {p} : step'[q] = step[q] /\ next'[q] = next[q] /\ shipped'[q] = shipped[q]
    BY DEF Open, MigrationInv, MigrationTypes
  <1> QED
    BY <1>5, <1>6, <1>7, OnlyOpenerMoves

LEMMA MigrationBegin ==
  ASSUME MigrationsAssumption, MigrationInv, NEW p \in Opener, Begin(p)
  PROVE  MigrationInv'
  <1>1. /\ step[p] = "waiting" /\ writer = None /\ writer' = p /\ tx' = file /\ next[p] = 1
        /\ UNCHANGED <<file, shipped, next>>
        /\ step' = [step EXCEPT ![p] = "ledger"]
    BY DEF Begin, MigrationInv, OpenerIsSound
  <1>2. MigrationTypes'
    BY <1>1 DEF MigrationInv, MigrationTypes
  <1>3. file \in Database /\ TellsItsSchema(file) /\ Continues(file, file)
    BY ContinuesItself DEF MigrationInv, MigrationTypes
  <1>4. DOMAIN shipped[p] = 1..Len(shipped[p]) /\ Len(shipped[p]) \in Nat
    BY BuildVersions DEF MigrationInv, MigrationTypes
  <1>5. WriterIsSound(p)'
    BY <1>1, <1>3, <1>4 DEF WriterIsSound
  <1>6. OpenerIsSound(p)'
    BY <1>1, <1>5 DEF OpenerIsSound, Migrating, MigrationInv, MigrationTypes
  <1>7. \A q \in Opener \ {p} : step'[q] = step[q] /\ next'[q] = next[q] /\ shipped'[q] = shipped[q]
    BY <1>1 DEF MigrationInv, MigrationTypes
  <1> QED
    BY <1>1, <1>2, <1>6, <1>7, OnlyOpenerMoves

LEMMA MigrationBusy ==
  ASSUME MigrationsAssumption, MigrationInv, NEW p \in Opener, Busy(p)
  PROVE  MigrationInv'
  <1>1. /\ step[p] = "waiting" /\ UNCHANGED <<file, writer, tx, shipped, next>>
        /\ step' = [step EXCEPT ![p] = "closed"]
    BY DEF Busy
  <1>2. MigrationTypes'
    BY <1>1 DEF MigrationInv, MigrationTypes
  <1>3. OpenerIsSound(p)'
    BY <1>1 DEF OpenerIsSound, Migrating, MigrationInv, MigrationTypes
  <1>4. \A q \in Opener \ {p} : step'[q] = step[q] /\ next'[q] = next[q] /\ shipped'[q] = shipped[q]
    BY <1>1 DEF MigrationInv, MigrationTypes
  <1> QED
    BY <1>1, <1>2, <1>3, <1>4, OnlyOpenerMoves

LEMMA MigrationPrepareLedger ==
  ASSUME MigrationsAssumption, MigrationInv, NEW p \in Opener, PrepareLedger(p)
  PROVE  MigrationInv'
  <1>1. /\ step[p] = "ledger" /\ UNCHANGED <<file, writer, shipped, next>>
        /\ step' = [step EXCEPT ![p] = "migrating"]
    BY DEF PrepareLedger
  <1>2. writer = p /\ WriterIsSound(p)
    BY <1>1 DEF MigrationInv, OpenerIsSound, Migrating
  <1>3. PICK columns : tx' = [tx EXCEPT !.columns = columns]
    BY DEF PrepareLedger
  <1>4. columns \in SUBSET {"version", "name", "checksum"}
    <2>1. tx \in Database
      BY <1>2 DEF WriterIsSound
    <2>2. tx' = [tx EXCEPT !.columns = IF tx.columns = {} THEN Columns(tx.kind)
                                       ELSE tx.columns \cup MayLack(tx.kind)]
      BY <2>1 DEF PrepareLedger, Database
    <2>3. Columns(tx.kind) \subseteq {"version", "name", "checksum"}
      BY DEF Columns
    <2>4. MayLack(tx.kind) \subseteq {"version", "name", "checksum"}
      BY <2>1 DEF MayLack, Database, Kinds
    <2>5. tx'.columns = columns
      BY <1>3, <2>1 DEF Database
    <2>6. tx'.columns \in SUBSET {"version", "name", "checksum"}
      BY <2>1, <2>2, <2>3, <2>4 DEF Database
    <2> QED
      BY <2>5, <2>6
  <1>5. /\ tx' \in Database /\ tx'.ledger = tx.ledger /\ tx'.schema = tx.schema
        /\ tx'.unsigned = tx.unsigned
    BY <1>2, <1>3, <1>4 DEF WriterIsSound, Database
  <1>6. WriterIsSound(p)'
    <2>1. TellsItsSchema(tx') /\ Continues(tx', file)
      BY <1>2, <1>5 DEF WriterIsSound, TellsItsSchema, Continues
    <2>2. \A i \in DOMAIN shipped[p] :
            IF i < next[p] THEN HasRun(tx', shipped[p][i])
            ELSE tx'.ledger[shipped[p][i].version] = file.ledger[shipped[p][i].version]
      BY <1>2, <1>5 DEF WriterIsSound, HasRun
    <2> QED
      BY <1>1, <1>2, <1>5, <2>1, <2>2 DEF WriterIsSound
  <1>7. MigrationTypes'
    BY <1>1 DEF MigrationInv, MigrationTypes
  <1>8. OpenerIsSound(p)'
    BY <1>1, <1>2, <1>6 DEF OpenerIsSound, Migrating, MigrationInv, MigrationTypes
  <1>9. \A q \in Opener \ {p} : step'[q] = step[q] /\ next'[q] = next[q] /\ shipped'[q] = shipped[q]
    BY <1>1 DEF MigrationInv, MigrationTypes
  <1> QED
    BY <1>1, <1>2, <1>7, <1>8, <1>9, OnlyOpenerMoves

(* The two ways in which a migration is applied.                           *)
LEMMA KeepIsSound ==
  ASSUME MigrationsAssumption, MigrationInv, NEW p \in Opener, WriterIsSound(p),
         next[p] <= Len(shipped[p]), KeepMigration(p), NEW f, f = shipped[p][next[p]]
  PROVE  /\ tx' \in Database /\ TellsItsSchema(tx') /\ Continues(tx', file)
         /\ Continues(tx', tx) /\ HasRun(tx', f)
         /\ \A v \in Version \ {f.version} : tx'.ledger[v] = tx.ledger[v]
  <1>1. /\ tx \in Database /\ TellsItsSchema(tx) /\ Continues(tx, file) /\ file \in Database
        /\ None \notin MigrationText
    BY DEF WriterIsSound, MigrationInv, MigrationTypes, MigrationsAssumption
  <1>2. next[p] \in DOMAIN shipped[p]
    BY BuildVersions DEF WriterIsSound, MigrationInv, MigrationTypes
  <1>3. f.version \in Version /\ f.name \in MigrationName /\ f.text \in MigrationText
    BY <1>2, BuildVersions DEF MigrationInv, MigrationTypes
  <1>4. tx.ledger[f.version] = file.ledger[f.version]
    BY <1>2 DEF WriterIsSound, MigrationInv, MigrationTypes
  <1>5. /\ tx.ledger[f.version].there
        /\ tx.ledger[f.version].name \in {None, f.name}
        /\ tx.ledger[f.version].checksum \in {None, f.text}
        /\ tx' = [tx EXCEPT !.ledger[f.version] = Recorded(f)]
    BY DEF KeepMigration, Matches, Checksum
  <1>6. /\ Recorded(f) \in [name : MigrationName \cup {None},
                            checksum : MigrationText \cup {None}, there : BOOLEAN]
        /\ Recorded(f).there /\ Recorded(f).name = f.name /\ Recorded(f).checksum = f.text
    BY <1>3 DEF Recorded, Checksum
  <1>7. /\ tx' \in Database /\ tx'.schema = tx.schema /\ tx'.unsigned = tx.unsigned
        /\ tx'.ledger = [tx.ledger EXCEPT ![f.version] = Recorded(f)]
    BY <1>1, <1>3, <1>5, <1>6 DEF Database
  <1>8. tx.ledger \in [Version -> [name : MigrationName \cup {None},
                                   checksum : MigrationText \cup {None}, there : BOOLEAN]]
    BY <1>1 DEF Database
  <1>9. \A v \in Version : tx'.ledger[v] = IF v = f.version THEN Recorded(f) ELSE tx.ledger[v]
    BY <1>7, <1>8
  <1>10. f.version \in DOMAIN tx.schema
    BY <1>1, <1>3, <1>5 DEF TellsItsSchema
  <1>11. f.version \notin tx.unsigned => tx.schema[f.version].text = f.text
    <2> SUFFICES ASSUME f.version \notin tx.unsigned PROVE tx.schema[f.version].text = f.text
      OBVIOUS
    <2>1. tx.ledger[f.version].checksum = tx.schema[f.version].text
      BY <1>1, <1>10 DEF TellsItsSchema
    <2>2. tx.schema[f.version].text \in MigrationText
      <3>1. PICK schema : schema = tx.schema
        OBVIOUS
      <3>2. schema \in Seq([version : Version, text : MigrationText])
        BY <1>1, <3>1 DEF Database
      <3>3. schema \in [1..Len(schema) -> [version : Version, text : MigrationText]]
        BY <3>2, LenProperties
      <3>4. schema[f.version] \in [version : Version, text : MigrationText]
        BY <1>10, <3>1, <3>3
      <3> QED
        BY <3>1, <3>4
    <2> QED
      BY <1>1, <1>5, <2>1, <2>2
  <1>12. TellsItsSchema(tx')
    <2>1. {v \in Version : tx'.ledger[v].there} = DOMAIN tx'.schema
      <3>1. \A v \in Version : tx'.ledger[v].there = tx.ledger[v].there
        BY <1>5, <1>6, <1>8, <1>9
      <3>2. {v \in Version : tx'.ledger[v].there} = {v \in Version : tx.ledger[v].there}
        BY <3>1
      <3> QED
        BY <1>1, <1>7, <3>2 DEF TellsItsSchema
    <2>2. ASSUME NEW v \in DOMAIN tx'.schema \ tx'.unsigned
          PROVE  tx'.ledger[v].checksum = tx'.schema[v].text
      <3>1. v \in Version /\ v \in DOMAIN tx.schema \ tx.unsigned
        BY <1>7, <2>1
      <3>2. CASE v = f.version
        BY <1>6, <1>7, <1>9, <1>11, <3>1, <3>2
      <3>3. CASE v # f.version
        BY <1>1, <1>7, <1>9, <3>1, <3>3 DEF TellsItsSchema
      <3> QED
        BY <3>2, <3>3
    <2> QED
      BY <1>1, <1>7, <2>1, <2>2 DEF TellsItsSchema
  <1>13. Continues(tx', file) /\ Continues(tx', tx)
    <2>1. ASSUME NEW v \in Version, tx.ledger[v].there
          PROVE  /\ tx'.ledger[v].there
                 /\ tx.ledger[v].name \in {None, tx'.ledger[v].name}
                 /\ tx.ledger[v].checksum \in {None, tx'.ledger[v].checksum}
      BY <1>5, <1>6, <1>9, <2>1
    <2>2. Continues(tx', tx)
      BY <1>7, <2>1 DEF Continues
    <2>3. ASSUME NEW v \in Version, file.ledger[v].there
          PROVE  /\ tx'.ledger[v].there
                 /\ file.ledger[v].name \in {None, tx'.ledger[v].name}
                 /\ file.ledger[v].checksum \in {None, tx'.ledger[v].checksum}
      <3>1. CASE v = f.version
        BY <1>4, <1>6, <2>1, <3>1, <1>5
      <3>2. CASE v # f.version
        BY <1>1, <1>9, <2>3, <3>2 DEF Continues
      <3> QED
        BY <3>1, <3>2
    <2>4. Continues(tx', file)
      BY <1>1, <1>7, <2>3 DEF Continues
    <2> QED
      BY <2>2, <2>4
  <1>14. HasRun(tx', f)
    BY <1>3, <1>6, <1>7, <1>9, <1>11 DEF HasRun
  <1> QED
    BY <1>7, <1>9, <1>12, <1>13, <1>14

LEMMA RunIsSound ==
  ASSUME MigrationsAssumption, MigrationInv, NEW p \in Opener, WriterIsSound(p),
         next[p] <= Len(shipped[p]), RunMigration(p), NEW f, f = shipped[p][next[p]]
  PROVE  /\ tx' \in Database /\ TellsItsSchema(tx') /\ Continues(tx', file)
         /\ Continues(tx', tx) /\ HasRun(tx', f)
         /\ \A v \in Version \ {f.version} : tx'.ledger[v] = tx.ledger[v]
  <1>1. /\ tx \in Database /\ TellsItsSchema(tx) /\ Continues(tx, file) /\ file \in Database
    BY DEF WriterIsSound, MigrationInv, MigrationTypes
  <1>2. next[p] \in DOMAIN shipped[p] /\ DOMAIN shipped[p] = 1..Len(shipped[p])
        /\ InOrderFromOne(shipped[p])
    BY BuildVersions DEF WriterIsSound, MigrationInv, MigrationTypes
  <1>3. /\ f.version \in Version /\ f.name \in MigrationName /\ f.text \in MigrationText
        /\ f.version \in Nat \ {0}
    BY <1>2, BuildVersions
  <1>4. /\ ~tx.ledger[f.version].there
        /\ tx' = [tx EXCEPT !.schema = Append(@, [version |-> f.version, text |-> f.text]),
                            !.ledger[f.version] = Recorded(f)]
    BY DEF RunMigration
  <1>5. PICK statement : statement = [version |-> f.version, text |-> f.text]
    OBVIOUS
  <1>6. /\ statement \in [version : Version, text : MigrationText]
        /\ statement.version = f.version /\ statement.text = f.text
    BY <1>3, <1>5
  <1>7. PICK schema : schema = Append(tx.schema, statement)
    OBVIOUS
  <1>8. /\ tx.schema \in Seq([version : Version, text : MigrationText])
        /\ DOMAIN tx.schema = 1..Len(tx.schema) /\ Len(tx.schema) \in Nat
    BY <1>1, LenProperties DEF Database
  <1>9. /\ schema \in Seq([version : Version, text : MigrationText])
        /\ DOMAIN schema = 1..(Len(tx.schema) + 1)
        /\ \A i \in 1..Len(tx.schema) : schema[i] = tx.schema[i]
        /\ schema[Len(tx.schema) + 1] = statement
    BY <1>6, <1>7, <1>8, AppendProperties, LenProperties
  <1>10. /\ Recorded(f) \in [name : MigrationName \cup {None},
                             checksum : MigrationText \cup {None}, there : BOOLEAN]
         /\ Recorded(f).there /\ Recorded(f).name = f.name /\ Recorded(f).checksum = f.text
    BY <1>3 DEF Recorded, Checksum
  <1>11. /\ tx' \in Database /\ tx'.schema = schema /\ tx'.unsigned = tx.unsigned
         /\ tx'.ledger = [tx.ledger EXCEPT ![f.version] = Recorded(f)]
    <2>1. tx' = [tx EXCEPT !.schema = schema, !.ledger[f.version] = Recorded(f)]
      BY <1>1, <1>4, <1>5, <1>7 DEF Database
    <2> QED
      BY <1>1, <1>3, <1>9, <1>10, <2>1 DEF Database
  <1>12. \A v \in Version : tx'.ledger[v] = IF v = f.version THEN Recorded(f) ELSE tx.ledger[v]
    BY <1>1, <1>11 DEF Database
  <1>13. f.version = Len(tx.schema) + 1
    <2>1. f.version \notin DOMAIN tx.schema
      BY <1>1, <1>3, <1>4 DEF TellsItsSchema
    <2>2. ASSUME NEW v \in 1..f.version, v # f.version PROVE v \in DOMAIN tx.schema
      <3>1. PICK j \in 1..next[p] : shipped[p][j].version = v
        BY <1>2 DEF InOrderFromOne
      <3>2. j < next[p] /\ j \in DOMAIN shipped[p]
        BY <1>2, <2>2, <3>1
      <3>3. tx.ledger[v].there
        BY <3>1, <3>2 DEF WriterIsSound, HasRun
      <3>4. v \in Version
        BY <3>1, <3>2, <1>2, BuildVersions
      <3> QED
        BY <1>1, <3>3, <3>4 DEF TellsItsSchema
    <2>3. PICK n \in Nat : n = Len(tx.schema)
      BY <1>8
    <2>4. f.version > n
      BY <1>3, <1>8, <2>1, <2>3
    <2>5. ~(n + 1 < f.version)
      <3> SUFFICES ASSUME n + 1 < f.version PROVE FALSE
        OBVIOUS
      <3>1. n + 1 \in 1..f.version /\ n + 1 # f.version
        BY <1>3, <2>3
      <3>2. n + 1 \in 1..n
        BY <1>8, <2>2, <2>3, <3>1
      <3> QED
        BY <2>3, <3>2
    <2> QED
      BY <1>3, <2>3, <2>4, <2>5
  <1>14. TellsItsSchema(tx')
    <2>1. ASSUME NEW i \in DOMAIN schema PROVE schema[i].version = i
      BY <1>1, <1>6, <1>8, <1>9, <1>13, <2>1 DEF TellsItsSchema
    <2>2. {v \in Version : tx'.ledger[v].there} = DOMAIN schema
      <3>1. {v \in Version : tx.ledger[v].there} = 1..Len(tx.schema)
        BY <1>1, <1>8 DEF TellsItsSchema
      <3>2. {v \in Version : tx'.ledger[v].there} = 1..Len(tx.schema) \cup {f.version}
        BY <1>3, <1>10, <1>12, <3>1
      <3> QED
        BY <1>8, <1>9, <1>13, <3>2
    <2>3. ASSUME NEW v \in DOMAIN schema \ tx.unsigned
          PROVE  tx'.ledger[v].checksum = schema[v].text
      <3>1. v \in Version
        BY <2>2
      <3>2. CASE v = f.version
        BY <1>6, <1>9, <1>10, <1>12, <1>13, <3>1, <3>2
      <3>3. CASE v # f.version
        <4>1. v \in DOMAIN tx.schema
          BY <1>8, <1>9, <1>13, <3>3
        <4> QED
          BY <1>1, <1>8, <1>9, <1>12, <3>1, <3>3, <4>1 DEF TellsItsSchema
      <3> QED
        BY <3>2, <3>3
    <2> QED
      BY <1>11, <2>1, <2>2, <2>3 DEF TellsItsSchema
  <1>15. Continues(tx', tx)
    <2>1. DOMAIN tx.schema \subseteq DOMAIN schema
      BY <1>8, <1>9
    <2>2. \A i \in DOMAIN tx.schema : schema[i] = tx.schema[i]
      BY <1>8, <1>9
    <2>3. \A v \in Version : tx.ledger[v].there => tx'.ledger[v] = tx.ledger[v]
      BY <1>4, <1>12
    <2> QED
      BY <1>11, <2>1, <2>2, <2>3 DEF Continues
  <1>16. Continues(tx', file)
    <2>1. ASSUME NEW v \in Version, file.ledger[v].there PROVE tx'.ledger[v] = tx.ledger[v]
      BY <1>1, <1>4, <1>12, <2>1 DEF Continues
    <2>2. DOMAIN file.schema \subseteq DOMAIN tx'.schema
      BY <1>1, <1>15 DEF Continues
    <2>3. \A i \in DOMAIN file.schema : tx'.schema[i] = file.schema[i]
      BY <1>1, <1>15 DEF Continues
    <2> QED
      BY <1>1, <1>11, <2>1, <2>2, <2>3 DEF Continues
  <1>17. HasRun(tx', f)
    BY <1>3, <1>6, <1>9, <1>10, <1>11, <1>12, <1>13 DEF HasRun
  <1> QED
    BY <1>11, <1>12, <1>14, <1>15, <1>16, <1>17

LEMMA MigrationApply ==
  ASSUME MigrationsAssumption, MigrationInv, NEW p \in Opener, Apply(p)
  PROVE  MigrationInv'
  <1>1. /\ step[p] = "migrating" /\ next[p] <= Len(shipped[p])
        /\ KeepMigration(p) \/ RunMigration(p)
        /\ next' = [next EXCEPT ![p] = next[p] + 1]
        /\ UNCHANGED <<file, writer, step, shipped>>
    BY DEF Apply, MigrationInv, MigrationTypes
  <1>2. writer = p /\ WriterIsSound(p)
    BY <1>1 DEF MigrationInv, OpenerIsSound, Migrating
  <1>3. PICK f : f = shipped[p][next[p]]
    OBVIOUS
  <1>4. /\ tx' \in Database /\ TellsItsSchema(tx') /\ Continues(tx', file)
        /\ Continues(tx', tx) /\ HasRun(tx', f)
        /\ \A v \in Version \ {f.version} : tx'.ledger[v] = tx.ledger[v]
    BY <1>1, <1>2, <1>3, KeepIsSound, RunIsSound
  <1>5. /\ InOrderFromOne(shipped[p]) /\ DOMAIN shipped[p] = 1..Len(shipped[p])
        /\ next[p] \in DOMAIN shipped[p] /\ Len(shipped[p]) \in Nat
        /\ \A i \in DOMAIN shipped[p] :
             shipped[p][i].version \in Version /\ shipped[p][i].version \in Nat
    BY <1>1, <1>2, BuildVersions DEF MigrationInv, MigrationTypes, WriterIsSound
  <1>6. next'[p] = next[p] + 1 /\ next[p] \in Nat \ {0} /\ next' \in [Opener -> Nat \ {0}]
    BY <1>1 DEF MigrationInv, MigrationTypes
  <1>7. ASSUME NEW i \in DOMAIN shipped[p]
        PROVE  IF i < next[p] + 1 THEN HasRun(tx', shipped[p][i])
               ELSE tx'.ledger[shipped[p][i].version] = file.ledger[shipped[p][i].version]
    <2>1. CASE i < next[p]
      BY <1>2, <1>4, <1>5, <1>6, <2>1, ContinuesKeeps DEF WriterIsSound
    <2>2. CASE i = next[p]
      BY <1>3, <1>4, <1>6, <2>2
    <2>3. CASE i > next[p]
      <3>1. shipped[p][i].version \in Version \ {f.version}
        BY <1>3, <1>5, <2>3 DEF InOrderFromOne
      <3>2. ~(i < next[p]) /\ ~(i < next[p] + 1)
        BY <1>5, <1>6, <2>3
      <3>3. tx.ledger[shipped[p][i].version] = file.ledger[shipped[p][i].version]
        BY <1>2, <3>2 DEF WriterIsSound
      <3>4. tx'.ledger[shipped[p][i].version] = tx.ledger[shipped[p][i].version]
        BY <1>4, <3>1
      <3> QED
        BY <3>2, <3>3, <3>4
    <2> QED
      BY <1>5, <1>6, <2>1, <2>2, <2>3
  <1>8. WriterIsSound(p)'
    BY <1>1, <1>4, <1>5, <1>6, <1>7 DEF WriterIsSound
  <1>9. MigrationTypes'
    BY <1>1, <1>6 DEF MigrationInv, MigrationTypes
  <1>10. OpenerIsSound(p)'
    BY <1>1, <1>2, <1>8 DEF OpenerIsSound, Migrating
  <1>11. \A q \in Opener \ {p} : step'[q] = step[q] /\ next'[q] = next[q] /\ shipped'[q] = shipped[q]
    BY <1>1 DEF MigrationInv, MigrationTypes
  <1> QED
    BY <1>1, <1>2, <1>9, <1>10, <1>11, OnlyOpenerMoves

LEMMA MigrationCommit ==
  ASSUME MigrationsAssumption, MigrationInv, NEW p \in Opener, Commit(p)
  PROVE  MigrationInv'
  <1>1. /\ step[p] = "migrating" /\ next[p] > Len(shipped[p]) /\ file' = tx /\ writer' = None
        /\ step' = [step EXCEPT ![p] = "open"] /\ UNCHANGED <<tx, shipped, next>>
        /\ None \notin Opener
    BY DEF Commit, MigrationsAssumption
  <1>2. writer = p /\ WriterIsSound(p)
    BY <1>1 DEF MigrationInv, OpenerIsSound, Migrating
  <1>3. tx \in Database /\ TellsItsSchema(tx) /\ Continues(tx, file)
        /\ file \in Database /\ TellsItsSchema(file)
    BY <1>2 DEF WriterIsSound, MigrationInv, MigrationTypes
  <1>4. MigrationTypes'
    BY <1>1, <1>3 DEF MigrationInv, MigrationTypes
  <1>5. \A q \in Opener : \A i \in DOMAIN shipped[q] : shipped[q][i].version \in Version
    BY BuildVersions DEF MigrationInv, MigrationTypes
  <1>6. ASSUME NEW i \in DOMAIN shipped[p] PROVE HasRun(tx, shipped[p][i])
    <2>1. i < next[p]
      BY <1>1, BuildVersions DEF MigrationInv, MigrationTypes
    <2> QED
      BY <1>2, <2>1 DEF WriterIsSound
  <1>7. ASSUME NEW q \in Opener PROVE OpenerIsSound(q)'
    <2>1. CASE q = p
      <3>1. step'[p] = "open" /\ writer' # p
        BY <1>1 DEF MigrationInv, MigrationTypes
      <3> QED
        BY <1>1, <1>6, <2>1, <3>1 DEF OpenerIsSound, HasRun, Migrating
    <2>2. CASE q # p
      <3>1. /\ OpenerIsSound(q) /\ writer # q /\ writer' # q
            /\ step'[q] = step[q] /\ next'[q] = next[q] /\ shipped'[q] = shipped[q]
        BY <1>1, <1>2, <2>2 DEF MigrationInv, MigrationTypes
      <3>2. step[q] \notin Migrating
        BY <3>1 DEF OpenerIsSound
      <3>3. \A i \in DOMAIN shipped[q] :
              /\ HasRun(file, shipped[q][i]) => HasRun(tx, shipped[q][i])
              /\ IsRefusedBy(file, shipped[q][i]) => IsRefusedBy(tx, shipped[q][i])
        BY <1>3, <1>5, ContinuesKeeps
      <3>4. step[q] = "open" => \A i \in DOMAIN shipped[q] : HasRun(tx, shipped[q][i])
        BY <3>1, <3>3 DEF OpenerIsSound
      <3>5. step[q] = "refused" => \E i \in DOMAIN shipped[q] : IsRefusedBy(tx, shipped[q][i])
        BY <3>1, <3>3 DEF OpenerIsSound
      <3>6. step[q] = "open" => \A i \in DOMAIN shipped[q] : HasRun(file, shipped[q][i])'
        BY <1>1, <3>4 DEF HasRun
      <3>7. step[q] = "refused" => \E i \in DOMAIN shipped[q] : IsRefusedBy(file, shipped[q][i])'
        BY <1>1, <3>5 DEF IsRefusedBy, Matches
      <3>8. (DOMAIN shipped[q])' = DOMAIN shipped[q]
        BY <1>1
      <3> QED
        BY <3>1, <3>2, <3>6, <3>7, <3>8 DEF OpenerIsSound
    <2> QED
      BY <2>1, <2>2
  <1> QED
    BY <1>1, <1>3, <1>4, <1>7 DEF MigrationInv, TellsItsSchema

(* A transaction that is rolled back leaves the database as it was.        *)
LEMMA MigrationRollBack ==
  ASSUME MigrationsAssumption, MigrationInv, NEW p \in Opener, NEW to \in {"closed", "refused"},
         RollBack(p, to), step[p] \in {"ledger", "migrating", "open", "refused"},
         to = "refused" => \E i \in DOMAIN shipped[p] : IsRefusedBy(file, shipped[p][i])
  PROVE  MigrationInv'
  <1>1. /\ writer' = IF writer = p THEN None ELSE writer
        /\ tx' = IF writer = p THEN file ELSE tx
        /\ step' = [step EXCEPT ![p] = to]
        /\ UNCHANGED <<file, shipped, next>>
        /\ None \notin Opener
    BY DEF RollBack, MigrationsAssumption
  <1>2. MigrationTypes'
    BY <1>1 DEF MigrationInv, MigrationTypes
  <1>3. step'[p] = to /\ writer' # p
    BY <1>1 DEF MigrationInv, MigrationTypes
  <1>4. to = "refused" => \E i \in DOMAIN shipped[p] : IsRefusedBy(file, shipped[p][i])'
    BY <1>1 DEF IsRefusedBy, Matches
  <1>5. OpenerIsSound(p)'
    BY <1>1, <1>3, <1>4 DEF OpenerIsSound, Migrating
  <1>6. \A q \in Opener \ {p} : step'[q] = step[q] /\ next'[q] = next[q] /\ shipped'[q] = shipped[q]
    BY <1>1 DEF MigrationInv, MigrationTypes
  <1>7. \/ UNCHANGED <<writer, tx>>
        \/ writer \in {None, p} /\ writer' \in {None, p}
    BY <1>1
  <1> QED
    BY <1>1, <1>2, <1>5, <1>6, <1>7, OnlyOpenerMoves

LEMMA MigrationRefuse ==
  ASSUME MigrationsAssumption, MigrationInv, NEW p \in Opener, Refuse(p)
  PROVE  MigrationInv'
  <1>1. /\ step[p] = "migrating" /\ next[p] <= Len(shipped[p]) /\ RollBack(p, "refused")
        /\ IsRefusedBy(tx, shipped[p][next[p]])
    BY DEF Refuse, IsRefusedBy
  <1>2. WriterIsSound(p)
    BY <1>1 DEF MigrationInv, OpenerIsSound, Migrating
  <1>3. next[p] \in DOMAIN shipped[p] /\ ~(next[p] < next[p])
    BY <1>1, <1>2, BuildVersions DEF MigrationInv, MigrationTypes, WriterIsSound
  <1>4. IsRefusedBy(file, shipped[p][next[p]])
    BY <1>1, <1>2, <1>3 DEF WriterIsSound, IsRefusedBy
  <1> QED
    BY <1>1, <1>3, <1>4, MigrationRollBack

LEMMA MigrationStep ==
  ASSUME MigrationsAssumption, MigrationInv, MigrationsNext
  PROVE  MigrationInv'
  <1> PICK p \in Opener :
        \/ Open(p) \/ Begin(p) \/ Busy(p) \/ PrepareLedger(p)
        \/ Apply(p) \/ Commit(p) \/ Refuse(p) \/ Stop(p)
    BY DEF MigrationsNext
  <1>1. CASE Stop(p)
    BY <1>1, MigrationRollBack DEF Stop
  <1> QED
    BY <1>1, MigrationOpen, MigrationBegin, MigrationBusy, MigrationPrepareLedger,
       MigrationApply, MigrationCommit, MigrationRefuse

LEMMA MigrationStutter ==
  ASSUME MigrationInv, UNCHANGED migrationVars
  PROVE  MigrationInv'
  <1>1. UNCHANGED <<file, writer, tx, step, shipped, next>>
    BY DEF migrationVars
  <1>2. MigrationTypes' /\ TellsItsSchema(file)'
    BY <1>1 DEF MigrationInv, MigrationTypes
  <1>3. ASSUME NEW p \in Opener PROVE OpenerIsSound(p)'
    BY <1>1 DEF MigrationInv, OpenerIsSound, WriterIsSound
  <1> QED
    BY <1>2, <1>3 DEF MigrationInv

LEMMA MigrationProperty ==
  ASSUME MigrationsAssumption, MigrationInv
  PROVE  LedgerIsTrue
  <1>1. /\ file \in Database /\ DOMAIN file.schema = 1..Len(file.schema)
        /\ Len(file.schema) \in Nat
        /\ \A i \in DOMAIN file.schema : file.schema[i].version = i
        /\ {v \in Version : file.ledger[v].there} = DOMAIN file.schema
    BY LenProperties DEF MigrationInv, MigrationTypes, Database, TellsItsSchema
  <1>2. RunOnceInOrder
    <2>1. Executed = DOMAIN file.schema
      BY <1>1 DEF Executed
    <2> QED
      BY <1>1, <2>1 DEF RunOnceInOrder
  <1>3. ASSUME NEW p \in Opener, step[p] = "open", NEW i \in DOMAIN shipped[p]
        PROVE  \E n \in DOMAIN file.schema :
                 /\ file.schema[n].version = shipped[p][i].version
                 /\ file.schema[n].text # shipped[p][i].text =>
                      shipped[p][i].version \in file.unsigned
    <2>1. HasRun(file, shipped[p][i])
      BY <1>3 DEF MigrationInv, OpenerIsSound
    <2>2. shipped[p][i].version \in Version
      BY BuildVersions DEF MigrationInv, MigrationTypes
    <2>3. shipped[p][i].version \in DOMAIN file.schema
      BY <1>1, <2>1, <2>2 DEF HasRun
    <2> QED
      BY <1>1, <2>1, <2>3 DEF HasRun
  <1>4. ASSUME NEW p \in Opener, step[p] = "refused"
        PROVE  \E i \in DOMAIN shipped[p] :
                 /\ file.ledger[shipped[p][i].version].there
                 /\ \/ file.ledger[shipped[p][i].version].name # shipped[p][i].name
                    \/ file.ledger[shipped[p][i].version].checksum # shipped[p][i].text
    <2>1. PICK i \in DOMAIN shipped[p] : IsRefusedBy(file, shipped[p][i])
      BY <1>4 DEF MigrationInv, OpenerIsSound
    <2> QED
      BY <2>1 DEF IsRefusedBy, Matches, Checksum
  <1> QED
    BY <1>2, <1>3, <1>4 DEF LedgerIsTrue, OpenIsUpToDate, OnlyEditsAreRefused

(***************************************************************************)
(* The history of searches                                                 *)
(***************************************************************************)
WalkEnds == {"done", "INTERNAL_ERROR", "HISTORY_UNAVAILABLE"}

(* A listing that has begun.                                               *)
Begun ==
  [pc : {"paging", "next"} \cup WalkEnds, listing : {l \in Listings : l.limit \in Nat \ {0}},
   before : Nat \cup {None}, time : Nat, total : Nat, seen : Seq(SUBSET appended),
   matched : SUBSET appended]

HistoryTypes ==
  /\ today \in Nat
  /\ IsFiniteSet(appended) /\ history \subseteq appended
  /\ \A row \in appended : row.id \in Nat /\ row.at \in Nat
  /\ DOMAIN call = Caller /\ DOMAIN walk = Client
  /\ \A c \in Caller : call[c].pc = "writing" => call[c].at \in Nat
  /\ \A w \in Client : walk[w] \in Begun \/ walk[w].pc \in {"idle", "INVALID_ARGUMENT"}

(* Ids are given once: the row of the latest one is never deleted.         *)
IdsAreUnique ==
  /\ \A r, s \in appended : r.id = s.id => r = s
  /\ \A r \in appended : \E s \in history : r.id <= s.id

GoneForAReason(row) ==
  LET newer == {r \in appended : r.id > row.id}
  IN  (\E r \in newer : row.at < r.at - Retention) \/ Cardinality(newer) >= MaxEntries

PagesDescend(seen) ==
  \A i, j \in DOMAIN seen : i < j => \A newer \in seen[i], older \in seen[j] : newer.id > older.id

(* What matched when a walk began, and would still if the time were that.  *)
StillMatches(row, listing) ==
  /\ listing.tool \in {None, row.tool}
  /\ listing.status \in {None, row.status}
  /\ listing.from = None \/ row.at >= listing.from
  /\ listing.to = None \/ row.at <= listing.to

IsSeen(row, seen) == \E i \in DOMAIN seen : row \in seen[i]

(* A walk has shown what is still there down to its cursor, and nothing    *)
(* below.                                                                  *)
WalkIsSound(w) ==
  walk[w] \in Begun =>
    /\ walk[w].time <= today
    /\ PagesDescend(walk[w].seen)
    /\ \A row \in walk[w].matched : StillMatches(row, walk[w].listing)
    /\ walk[w].pc \in {"paging", "next"} =>
         \A i \in DOMAIN walk[w].seen : \A row \in walk[w].seen[i] :
           walk[w].before # None /\ walk[w].before <= row.id
    /\ walk[w].pc = "done" \/ (walk[w].pc \in {"paging", "next"} /\ walk[w].before # None) =>
         \A row \in walk[w].matched \cap Histories!Unexpired(history, today) :
           walk[w].pc = "done" \/ walk[w].before <= row.id => IsSeen(row, walk[w].seen)

HistoryInv ==
  /\ HistoryTypes
  /\ IdsAreUnique
  /\ Cardinality(history) <= MaxEntries
  /\ \A row \in appended \ history : GoneForAReason(row)
  /\ \A w \in Client : WalkIsSound(w)

LEMMA HistoryCardinality == \A S : Histories!Cardinality(S) = Cardinality(S)
  BY Zenon DEF Histories!Cardinality, Cardinality

LEMMA HistoryIsFinite == \A S : Histories!IsFiniteSet(S) <=> IsFiniteSet(S)
  BY Zenon DEF Histories!IsFiniteSet, IsFiniteSet

(* The ids of a set of rows.                                               *)
LEMMA IdsAreFinite ==
  ASSUME NEW rows, IsFiniteSet(rows), \A row \in rows : row.id \in Nat
  PROVE  IsFiniteSet({row.id : row \in rows}) /\ {row.id : row \in rows} \subseteq Nat
  <1> DEFINE ids == {row.id : row \in rows}
             f == [row \in rows |-> row.id]
  <1>1. f \in Surjection(rows, ids)
    BY DEF Surjection
  <1>2. IsFiniteSet(ids)
    BY <1>1, FS_Surjection
  <1> QED
    BY <1>2

(* LIMIT n keeps n rows at most, and those above a row it keeps.           *)
LEMMA NewestIsBounded ==
  ASSUME NEW rows, IsFiniteSet(rows), \A row \in rows : row.id \in Nat,
         \A r, s \in rows : r.id = s.id => r = s, NEW n \in Nat
  PROVE  /\ Histories!Newest(rows, n) \subseteq rows
         /\ Cardinality(Histories!Newest(rows, n)) <= n
  <1> DEFINE kept == Histories!Newest(rows, n)
             Above(row) == {r \in rows : r.id > row.id}
  <1>1. \A row : row \in kept <=> row \in rows /\ Cardinality(Above(row)) < n
    BY HistoryCardinality DEF Histories!Newest
  <1>2. kept \subseteq rows /\ IsFiniteSet(kept) /\ Cardinality(kept) \in Nat
    BY <1>1, FS_Subset, FS_CardinalityType
  <1> HIDE DEF kept
  <1>3. CASE kept = {}
    BY <1>2, <1>3, FS_EmptySet DEF kept
  <1>4. CASE kept # {}
    <2>1. PICK m \in kept : \A row \in kept : m.id <= row.id
      <3>1. {row.id : row \in kept} # {} /\ IsFiniteSet({row.id : row \in kept})
            /\ {row.id : row \in kept} \subseteq Nat
        BY <1>2, <1>4, IdsAreFinite
      <3>2. PICK x \in {row.id : row \in kept} : \A y \in {row.id : row \in kept} : x <= y
        BY <3>1, SetHasExtremes
      <3> QED
        BY <3>2
    <2>2. kept \ {m} \subseteq Above(m)
      BY <1>2, <2>1
    <2>3. Cardinality(kept \ {m}) = Cardinality(kept) - 1
      BY <1>2, <2>1, FS_RemoveElement
    <2>4. IsFiniteSet(Above(m)) /\ Cardinality(Above(m)) \in Nat
      BY FS_Subset, FS_CardinalityType
    <2>5. Cardinality(kept \ {m}) <= Cardinality(Above(m))
      BY <2>2, <2>4, FS_Subset
    <2>6. Cardinality(Above(m)) < n
      BY <1>1, <2>1
    <2> HIDE DEF Above
    <2> QED
      BY <1>2, <2>3, <2>4, <2>5, <2>6 DEF kept
  <1> QED
    BY <1>2, <1>3, <1>4 DEF kept

LEMMA NewestIsAbove ==
  ASSUME NEW rows, IsFiniteSet(rows), \A row \in rows : row.id \in Nat, NEW n \in Nat \ {0},
         NEW row \in rows
  PROVE  /\ (\A r \in rows : r.id <= row.id) => row \in Histories!Newest(rows, n)
         /\ \A m \in Histories!Newest(rows, n) : m.id <= row.id => row \in Histories!Newest(rows, n)
         /\ row \notin Histories!Newest(rows, n) => Cardinality({r \in rows : r.id > row.id}) >= n
  <1> DEFINE Above(r) == {s \in rows : s.id > r.id}
  <1>1. \A r : r \in Histories!Newest(rows, n) <=> r \in rows /\ Cardinality(Above(r)) < n
    BY HistoryCardinality DEF Histories!Newest
  <1>2. \A r : IsFiniteSet(Above(r)) /\ Cardinality(Above(r)) \in Nat
    BY FS_Subset, FS_CardinalityType
  <1>3. ASSUME \A r \in rows : r.id <= row.id PROVE row \in Histories!Newest(rows, n)
    <2>1. Above(row) = {}
      BY <1>3
    <2>2. Cardinality(Above(row)) = 0
      BY <2>1, FS_EmptySet, Zenon
    <2> QED
      BY <1>1, <2>2
  <1>4. ASSUME NEW m \in Histories!Newest(rows, n), m.id <= row.id
        PROVE  row \in Histories!Newest(rows, n)
    <2>1. m \in rows /\ Cardinality(Above(m)) < n
      BY <1>1
    <2>2. Above(row) \subseteq Above(m)
      BY <1>4, <2>1
    <2>3. Cardinality(Above(row)) <= Cardinality(Above(m))
      BY <1>2, <2>2, FS_Subset
    <2> HIDE DEF Above
    <2> QED
      BY <1>1, <1>2, <2>1, <2>3
  <1>5. row \notin Histories!Newest(rows, n) => Cardinality(Above(row)) >= n
    <2>1. PICK count : count = Cardinality(Above(row))
      OBVIOUS
    <2>2. count \in Nat
      BY <1>2, <2>1, Zenon
    <2>3. row \in Histories!Newest(rows, n) <=> count < n
      BY <1>1, <2>1, Zenon
    <2>4. row \notin Histories!Newest(rows, n) => count >= n
      BY <2>2, <2>3
    <2> QED
      BY <2>1, <2>4, Zenon
  <1> QED
    BY <1>3, <1>4, <1>5

(* More appended rows are only a better reason.                            *)
LEMMA ReasonsStay ==
  ASSUME HistoryTypes, HistoryTypes', appended \subseteq appended', NEW row \in appended,
         GoneForAReason(row)
  PROVE  GoneForAReason(row)'
  <1> DEFINE newer == {r \in appended : r.id > row.id}
             newer2 == {r \in appended' : r.id > row.id}
  <1>1. newer \subseteq newer2 /\ IsFiniteSet(newer2)
    BY FS_Subset DEF HistoryTypes
  <1>2. /\ Cardinality(newer) \in Nat /\ Cardinality(newer2) \in Nat
        /\ Cardinality(newer) <= Cardinality(newer2)
    BY <1>1, FS_Subset, FS_CardinalityType
  <1>3. CASE \E r \in newer : row.at < r.at - Retention
    BY <1>1, <1>3 DEF GoneForAReason
  <1>4. CASE Cardinality(newer) >= MaxEntries
    <2>1. Cardinality(newer2) >= MaxEntries
      <3> HIDE DEF newer, newer2
      <3>1. MaxEntries \in Nat
        BY StorageAssumptions DEF Histories!HistoryAssumption
      <3> QED
        BY <1>2, <1>4, <3>1
    <2> QED
      BY <2>1 DEF GoneForAReason
  <1> QED
    BY <1>3, <1>4 DEF GoneForAReason

LEMMA BegunGrows ==
  ASSUME appended \subseteq appended'
  PROVE  \A x \in Begun : x \in Begun'
  <1>1. SUBSET appended \subseteq SUBSET appended'
    OBVIOUS
  <1>2. Seq(SUBSET appended) \subseteq Seq(SUBSET appended')
    BY <1>1, SeqMonotonic
  <1> QED
    BY <1>1, <1>2 DEF Begun

LEMMA NextIdIsNew ==
  ASSUME HistoryTypes, IdsAreUnique
  PROVE  /\ Histories!NextId \in Nat \ {0}
         /\ \A r \in appended : r.id < Histories!NextId
  <1>1. CASE history = {}
    BY <1>1 DEF IdsAreUnique, Histories!NextId
  <1>2. CASE history # {}
    <2> DEFINE ids == {row.id : row \in history}
    <2>1. IsFiniteSet(ids) /\ ids \subseteq Nat /\ ids # {}
      BY <1>2, FS_Subset, IdsAreFinite DEF HistoryTypes
    <2>2. \E x \in ids : \A y \in ids : x >= y
      BY <2>1, SetHasExtremes
    <2>3. PICK max : max = Histories!Max(ids)
      OBVIOUS
    <2>4. max \in ids /\ \A y \in ids : max >= y
      BY <2>2, <2>3 DEF Histories!Max
    <2>5. Histories!NextId = max + 1
      BY <1>2, <2>3 DEF Histories!NextId
    <2>6. max \in Nat
      BY <2>1, <2>4
    <2>7. ASSUME NEW r \in appended PROVE r.id < max + 1
      <3>1. PICK s \in history : r.id <= s.id
        BY DEF IdsAreUnique
      <3>2. s.id <= max /\ s.id \in Nat /\ r.id \in Nat
        BY <2>1, <2>4 DEF HistoryTypes
      <3> QED
        BY <2>6, <3>1, <3>2
    <2> HIDE DEF ids
    <2> QED
      BY <2>5, <2>6, <2>7
  <1> QED
    BY <1>1, <1>2

(* Steps of a search that leave the history alone.                         *)
LEMMA OnlyCallMoves ==
  ASSUME HistoryInv, UNCHANGED <<history, today, walk, appended>>, DOMAIN call' = Caller,
         \A c \in Caller : call'[c].pc = "writing" => call'[c].at \in Nat
  PROVE  HistoryInv'
  <1>1. HistoryTypes'
    BY DEF HistoryInv, HistoryTypes, Begun
  <1>2. IdsAreUnique' /\ (Cardinality(history) <= MaxEntries)'
    BY DEF HistoryInv, IdsAreUnique
  <1>3. \A row \in appended' \ history' : GoneForAReason(row)'
    BY DEF HistoryInv, GoneForAReason
  <1>4. ASSUME NEW w \in Client PROVE WalkIsSound(w)'
    <2>1. WalkIsSound(w)
      BY DEF HistoryInv
    <2> QED
      BY <2>1 DEF WalkIsSound, Begun, PagesDescend, StillMatches, IsSeen, Histories!Unexpired
  <1> QED
    BY <1>1, <1>2, <1>3, <1>4 DEF HistoryInv

(* Steps of a walk.                                                        *)
LEMMA OnlyWalkMoves ==
  ASSUME HistoryInv, UNCHANGED <<history, today, call, appended>>, NEW w \in Client, NEW x,
         walk' = [walk EXCEPT ![w] = x],
         x \in Begun \/ x.pc \in {"idle", "INVALID_ARGUMENT"},
         WalkIsSound(w)'
  PROVE  HistoryInv'
  <1>1. DOMAIN walk' = Client /\ walk'[w] = x /\ \A v \in Client \ {w} : walk'[v] = walk[v]
    BY DEF HistoryInv, HistoryTypes
  <1>2. \A v \in Client : walk'[v] \in Begun \/ walk'[v].pc \in {"idle", "INVALID_ARGUMENT"}
    BY <1>1 DEF HistoryInv, HistoryTypes
  <1>3. HistoryTypes'
    BY <1>1, <1>2 DEF HistoryInv, HistoryTypes, Begun
  <1>4. IdsAreUnique' /\ (Cardinality(history) <= MaxEntries)'
    BY DEF HistoryInv, IdsAreUnique
  <1>5. \A row \in appended' \ history' : GoneForAReason(row)'
    BY DEF HistoryInv, GoneForAReason
  <1>6. ASSUME NEW v \in Client PROVE WalkIsSound(v)'
    <2>1. CASE v = w
      BY <2>1
    <2>2. CASE v # w
      <3>1. WalkIsSound(v) /\ walk'[v] = walk[v]
        BY <1>1, <2>2 DEF HistoryInv
      <3> QED
        BY <3>1 DEF WalkIsSound, Begun, PagesDescend, StillMatches, IsSeen, Histories!Unexpired
    <2> QED
      BY <2>1, <2>2
  <1> QED
    BY <1>3, <1>4, <1>5, <1>6 DEF HistoryInv

LEMMA HistoryInvInit ==
  ASSUME Histories!HistoryInit
  PROVE  HistoryInv
  <1>1. /\ history = {} /\ appended = {} /\ today = 0
        /\ call = [c \in Caller |-> [pc |-> "idle"]]
        /\ walk = [w \in Client |-> [pc |-> "idle"]]
    BY DEF Histories!HistoryInit
  <1>2. HistoryTypes
    BY <1>1, FS_EmptySet DEF HistoryTypes
  <1>3. Cardinality(history) <= MaxEntries
    BY <1>1, FS_EmptySet, StorageAssumptions DEF Histories!HistoryAssumption
  <1>4. ASSUME NEW w \in Client PROVE walk[w] \notin Begun
    BY <1>1 DEF Begun, WalkEnds
  <1> QED
    BY <1>1, <1>2, <1>3, <1>4 DEF HistoryInv, IdsAreUnique, WalkIsSound

LEMMA HistoryAppendCommits ==
  ASSUME HistoryInv, NEW c \in Caller, Histories!AppendCommits(c)
  PROVE  HistoryInv'
  <1> DEFINE new == Histories!NewRow(c)
             at == call[c].at
             all == history \cup {new}
             fresh == Histories!Unexpired(all, at)
  <1>1. /\ history' = Histories!Newest(fresh, MaxEntries)
        /\ appended' = appended \cup {new}
        /\ UNCHANGED <<today, walk>> /\ call[c].pc = "writing"
    BY DEF Histories!AppendCommits, Histories!Pruned
  <1>2. at \in Nat /\ MaxEntries \in Nat \ {0} /\ Retention \in Nat \ {0}
    BY <1>1, StorageAssumptions DEF HistoryInv, HistoryTypes, Histories!HistoryAssumption
  <1>3. /\ new.id = Histories!NextId /\ new.at = at /\ new.id \in Nat
        /\ \A r \in appended : r.id < new.id
    BY NextIdIsNew DEF Histories!NewRow, HistoryInv
  <1>4. /\ history \subseteq appended /\ IsFiniteSet(appended) /\ IsFiniteSet(appended')
        /\ \A row \in appended' : row.id \in Nat /\ row.at \in Nat
        /\ \A r, s \in appended' : r.id = s.id => r = s
    <2>1. IsFiniteSet(appended')
      BY <1>1, FS_AddElement DEF HistoryInv, HistoryTypes
    <2>2. \A row \in appended' : row.id \in Nat /\ row.at \in Nat
      BY <1>1, <1>2, <1>3 DEF HistoryInv, HistoryTypes
    <2>3. \A r, s \in appended' : r.id = s.id => r = s
      BY <1>1, <1>3 DEF HistoryInv, HistoryTypes, IdsAreUnique
    <2> QED
      BY <2>1, <2>2, <2>3 DEF HistoryInv, HistoryTypes
  <1>5. /\ all \subseteq appended'
        /\ \A row : row \in fresh <=> row \in all /\ row.at >= at - Retention
    BY <1>1, <1>4 DEF Histories!Unexpired
  <1>6. new \in fresh
    <2>1. \A n \in Nat, m \in Nat : n >= n - m
      OBVIOUS
    <2>2. new \in all /\ new.at >= at - Retention
      BY <1>2, <1>3, <2>1
    <2> QED
      BY <1>5, <2>2
  <1> HIDE DEF new, at, all, fresh
  <1>7. /\ fresh \subseteq appended' /\ IsFiniteSet(fresh)
        /\ \A row \in fresh : row.id \in Nat
        /\ \A r, s \in fresh : r.id = s.id => r = s
        /\ \A r \in fresh : r.id <= new.id
    <2>1. fresh \subseteq appended' /\ IsFiniteSet(fresh)
      BY <1>4, <1>5, FS_Subset
    <2>2. \A r \in fresh : r.id <= new.id
      BY <1>1, <1>3, <1>4, <2>1
    <2> QED
      BY <1>4, <2>1, <2>2
  <1>8. /\ history' \subseteq fresh /\ new \in history' /\ Cardinality(history') <= MaxEntries
        /\ \A row \in fresh : row \notin history' =>
             Cardinality({r \in fresh : r.id > row.id}) >= MaxEntries
    BY <1>1, <1>2, <1>6, <1>7, NewestIsBounded, NewestIsAbove
  <1>9. DOMAIN call' = Caller /\ \A d \in Caller : call'[d].pc = "writing" => call'[d].at \in Nat
    <2>1. PICK stored \in BOOLEAN :
            call' = [call EXCEPT ![c] = [pc |-> "answered", stored |-> stored]]
      BY DEF Histories!AppendCommits
    <2> QED
      BY <2>1 DEF HistoryInv, HistoryTypes
  <1>10. HistoryTypes'
    <2>1. \A w \in Client : walk'[w] \in Begun' \/ walk'[w].pc \in {"idle", "INVALID_ARGUMENT"}
      BY <1>1, BegunGrows DEF HistoryInv, HistoryTypes
    <2> QED
      BY <1>1, <1>4, <1>7, <1>8, <1>9, <2>1 DEF HistoryInv, HistoryTypes
  <1>11. IdsAreUnique'
    <2>1. \A r \in appended' : r.id <= new.id
      BY <1>1, <1>3, <1>4
    <2> QED
      BY <1>4, <1>8, <2>1 DEF IdsAreUnique
  <1>12. ASSUME NEW row \in appended', row \notin history' PROVE GoneForAReason(row)'
    <2>0. row # new /\ row \in appended
      BY <1>1, <1>8, <1>12
    <2>1. CASE row \notin history
      <3>1. GoneForAReason(row)
        BY <2>0, <2>1 DEF HistoryInv
      <3> QED
        BY <1>1, <1>10, <2>0, <3>1, ReasonsStay DEF HistoryInv
    <2>2. CASE row \in history /\ row \notin fresh
      <3>1. row.at < new.at - Retention /\ new.id > row.id
        <4>1. row \in all
          BY <2>2 DEF all
        <4>2. ~(row.at >= at - Retention) /\ row.at \in Nat /\ row.id \in Nat
          BY <1>4, <1>5, <2>2, <4>1
        <4> QED
          BY <1>2, <1>3, <2>0, <4>2
      <3>2. new \in appended'
        BY <1>1
      <3> QED
        BY <3>1, <3>2 DEF GoneForAReason
    <2>3. CASE row \in fresh
      <3> DEFINE newer == {r \in appended' : r.id > row.id}
                 above == {r \in fresh : r.id > row.id}
      <3>1. Cardinality(above) >= MaxEntries
        BY <1>8, <1>12, <2>3
      <3>2. above \subseteq newer /\ IsFiniteSet(newer)
        BY <1>4, <1>7, FS_Subset
      <3>3. /\ Cardinality(above) \in Nat /\ Cardinality(newer) \in Nat
            /\ Cardinality(above) <= Cardinality(newer)
        BY <3>2, FS_Subset, FS_CardinalityType
      <3>4. Cardinality(newer) >= MaxEntries
        <4> HIDE DEF above, newer
        <4> QED
          BY <1>2, <3>1, <3>3
      <3> QED
        BY <3>4 DEF GoneForAReason
    <2> QED
      BY <2>1, <2>2, <2>3
  <1>13. ASSUME NEW w \in Client PROVE WalkIsSound(w)'
    <2>1. WalkIsSound(w) /\ walk'[w] = walk[w] /\ today' = today
      BY <1>1 DEF HistoryInv
    <2>2. walk[w] \in Begun \/ walk[w] \notin Begun'
      <3>1. walk[w] \in Begun \/ walk[w].pc \in {"idle", "INVALID_ARGUMENT"}
        BY DEF HistoryInv, HistoryTypes
      <3>2. walk[w] \in Begun' => walk[w].pc \notin {"idle", "INVALID_ARGUMENT"}
        BY DEF Begun, WalkEnds
      <3> QED
        BY <3>1, <3>2
    <2>3. CASE walk[w] \notin Begun'
      BY <2>1, <2>3 DEF WalkIsSound
    <2>4. CASE walk[w] \in Begun
      <3>1. walk[w].matched \subseteq appended
        BY <2>4 DEF Begun
      <3>2. \A row \in walk[w].matched : row \in history' => row \in history
        <4>1. \A row \in history' : row \in history \/ row = new
          BY <1>5, <1>8 DEF all
        <4>2. \A row \in walk[w].matched : row # new
          BY <1>3, <1>4, <3>1
        <4> QED
          BY <4>1, <4>2
      <3>3. \A row \in walk[w].matched :
              row \in Histories!Unexpired(history', today) => row \in Histories!Unexpired(history, today)
        BY <3>2 DEF Histories!Unexpired
      <3>4. \A row \in walk[w].matched \cap Histories!Unexpired(history', today) :
              row \in walk[w].matched \cap Histories!Unexpired(history, today)
        BY <3>3
      <3>5. (Histories!Unexpired(history, today))' = Histories!Unexpired(history', today)
        BY <2>1 DEF Histories!Unexpired
      <3> QED
        BY <2>1, <2>4, <3>4, <3>5 DEF WalkIsSound, PagesDescend, StillMatches, IsSeen
    <2> QED
      BY <2>2, <2>3, <2>4
  <1> QED
    BY <1>8, <1>10, <1>11, <1>12, <1>13 DEF HistoryInv

(* Days pass: less is unexpired.                                           *)
LEMMA HistoryTick ==
  ASSUME HistoryInv, Histories!Tick
  PROVE  HistoryInv'
  <1>1. today' = today + 1 /\ UNCHANGED <<history, call, walk, appended>> /\ today \in Nat
    BY DEF Histories!Tick, HistoryInv, HistoryTypes
  <1>2. HistoryTypes'
    BY <1>1 DEF HistoryInv, HistoryTypes, Begun
  <1>3. IdsAreUnique' /\ (Cardinality(history) <= MaxEntries)'
    BY <1>1 DEF HistoryInv, IdsAreUnique
  <1>4. \A row \in appended' \ history' : GoneForAReason(row)'
    BY <1>1 DEF HistoryInv, GoneForAReason
  <1>5. Retention \in Nat
    BY StorageAssumptions DEF Histories!HistoryAssumption
  <1>6. \A row \in appended :
          row \in Histories!Unexpired(history, today) \/ row \notin Histories!Unexpired(history, today)'
    BY <1>1, <1>5 DEF Histories!Unexpired, HistoryInv, HistoryTypes
  <1>7. ASSUME NEW w \in Client PROVE WalkIsSound(w)'
    <2>1. WalkIsSound(w) /\ walk'[w] = walk[w] /\ (walk[w] \in Begun' <=> walk[w] \in Begun)
      BY <1>1 DEF HistoryInv, Begun
    <2> SUFFICES ASSUME walk[w] \in Begun PROVE WalkIsSound(w)'
      BY <2>1 DEF WalkIsSound
    <2>2. walk[w].matched \subseteq appended /\ walk[w].time \in Nat
      BY DEF Begun
    <2>3. \A row \in walk[w].matched \cap Histories!Unexpired(history, today)' :
            row \in walk[w].matched \cap Histories!Unexpired(history, today)
      BY <1>6, <2>2
    <2>4. walk[w].time <= today'
      BY <1>1, <2>1, <2>2 DEF WalkIsSound
    <2> QED
      BY <1>1, <2>1, <2>3, <2>4 DEF WalkIsSound, PagesDescend, StillMatches, IsSeen
  <1> QED
    BY <1>2, <1>3, <1>4, <1>7 DEF HistoryInv

LEMMA HistoryRefuseListing ==
  ASSUME HistoryInv, NEW w \in Client, Histories!RefuseListing(w)
  PROVE  HistoryInv'
  <1> DEFINE x == [pc |-> "INVALID_ARGUMENT"]
  <1>1. walk' = [walk EXCEPT ![w] = x] /\ UNCHANGED <<history, today, call, appended>>
    BY DEF Histories!RefuseListing
  <1>2. WalkIsSound(w)'
    BY <1>1 DEF HistoryInv, HistoryTypes, WalkIsSound, Begun, WalkEnds
  <1> QED
    BY <1>1, <1>2, OnlyWalkMoves

LEMMA MatchingIsFinite ==
  ASSUME HistoryInv, NEW listing, NEW limit, NEW time
  PROVE  /\ Histories!Matching(listing, limit, time) \subseteq history
         /\ IsFiniteSet(Histories!Matching(listing, limit, time))
         /\ Cardinality(Histories!Matching(listing, limit, time)) \in Nat
         /\ Histories!Cardinality(Histories!Matching(listing, limit, time)) \in Nat
  <1> DEFINE rows == Histories!Matching(listing, limit, time)
  <1>1. rows \subseteq history /\ IsFiniteSet(history)
    BY FS_Subset DEF Histories!Matching, HistoryInv, HistoryTypes
  <1> HIDE DEF rows
  <1>2. IsFiniteSet(rows) /\ Cardinality(rows) \in Nat
    BY <1>1, FS_Subset, FS_CardinalityType
  <1> QED
    BY <1>1, <1>2, HistoryCardinality DEF rows

LEMMA HistoryCountFirst ==
  ASSUME HistoryInv, NEW w \in Client, Histories!CountFirst(w)
  PROVE  HistoryInv'
  <1>1. PICK listing \in Listings :
          /\ Histories!ValidListing(listing)
          /\ walk' = [walk EXCEPT ![w] =
               [pc |-> "paging", listing |-> listing, before |-> None, time |-> today,
                total |-> Histories!Cardinality(Histories!Matching(listing, None, today)),
                seen |-> <<>>, matched |-> Histories!Matching(listing, None, today)]]
    BY DEF Histories!CountFirst
  <1>2. UNCHANGED <<history, today, call, appended>>
    BY DEF Histories!CountFirst
  <1>3. PICK rows : rows = Histories!Matching(listing, None, today)
    OBVIOUS
  <1> DEFINE x == [pc |-> "paging", listing |-> listing, before |-> None, time |-> today,
                   total |-> Histories!Cardinality(rows), seen |-> <<>>, matched |-> rows]
  <1>4. /\ rows \subseteq history /\ Histories!Cardinality(rows) \in Nat
        /\ history \subseteq appended /\ today \in Nat
    BY <1>3, MatchingIsFinite DEF HistoryInv, HistoryTypes
  <1>5. \A row \in rows : StillMatches(row, listing)
    BY <1>3 DEF Histories!Matching, Histories!Passes, StillMatches
  <1>6. listing.limit \in Nat \ {0}
    BY <1>1 DEF Histories!ValidListing
  <1>7. /\ x \in Begun /\ x.pc = "paging" /\ x.before = None /\ x.time = today
        /\ x.seen = <<>> /\ x.matched = rows /\ x.listing = listing
    BY <1>4, <1>6 DEF Begun
  <1>8. walk' = [walk EXCEPT ![w] = x]
    BY <1>1, <1>3
  <1> HIDE DEF x
  <1>9. walk'[w] = x
    BY <1>8 DEF HistoryInv, HistoryTypes
  <1>10. WalkIsSound(w)'
    BY <1>2, <1>4, <1>5, <1>7, <1>9 DEF WalkIsSound, PagesDescend, StillMatches
  <1> QED
    BY <1>2, <1>7, <1>8, <1>10, OnlyWalkMoves

LEMMA HistoryCountNext ==
  ASSUME HistoryInv, NEW w \in Client, Histories!CountNext(w)
  PROVE  HistoryInv'
  <1>1. /\ walk[w].pc = "next" /\ UNCHANGED <<history, today, call, appended>>
        /\ walk[w] \in Begun /\ WalkIsSound(w) /\ today \in Nat
    BY DEF Histories!CountNext, HistoryInv, HistoryTypes
  <1>2. PICK total \in Nat :
          walk' = [walk EXCEPT ![w].pc = "paging", ![w].time = today, ![w].total = total]
    BY MatchingIsFinite DEF Histories!CountNext
  <1> DEFINE x == [walk[w] EXCEPT !.pc = "paging", !.time = today, !.total = total]
  <1>3. /\ x \in Begun /\ x.pc = "paging" /\ x.time = today /\ x.before = walk[w].before
        /\ x.seen = walk[w].seen /\ x.matched = walk[w].matched /\ x.listing = walk[w].listing
    BY <1>1 DEF Begun
  <1>4. walk' = [walk EXCEPT ![w] = x]
    BY <1>2 DEF HistoryInv, HistoryTypes
  <1> HIDE DEF x
  <1>5. walk'[w] = x
    BY <1>4 DEF HistoryInv, HistoryTypes
  <1>6. WalkIsSound(w)'
    BY <1>1, <1>3, <1>5 DEF WalkIsSound, PagesDescend, StillMatches, IsSeen, Histories!Unexpired
  <1> QED
    BY <1>1, <1>3, <1>4, <1>6, OnlyWalkMoves

LEMMA HistoryListUnavailable ==
  ASSUME HistoryInv, NEW w \in Client, Histories!ListUnavailable(w)
  PROVE  HistoryInv'
  <1>1. /\ walk[w].pc = "paging" /\ UNCHANGED <<history, today, call, appended>>
        /\ walk[w] \in Begun /\ WalkIsSound(w)
        /\ walk' = [walk EXCEPT ![w].pc = "HISTORY_UNAVAILABLE"]
    BY DEF Histories!ListUnavailable, HistoryInv, HistoryTypes
  <1> DEFINE x == [walk[w] EXCEPT !.pc = "HISTORY_UNAVAILABLE"]
  <1>2. /\ x \in Begun /\ x.pc = "HISTORY_UNAVAILABLE" /\ x.time = walk[w].time
        /\ x.seen = walk[w].seen /\ x.matched = walk[w].matched /\ x.listing = walk[w].listing
    BY <1>1 DEF Begun, WalkEnds
  <1>3. walk' = [walk EXCEPT ![w] = x]
    BY <1>1 DEF HistoryInv, HistoryTypes
  <1> HIDE DEF x
  <1>4. walk'[w] = x
    BY <1>3 DEF HistoryInv, HistoryTypes
  <1>5. WalkIsSound(w)'
    BY <1>1, <1>2, <1>4 DEF WalkIsSound, PagesDescend, StillMatches, IsSeen, Histories!Unexpired
  <1> QED
    BY <1>1, <1>2, <1>3, <1>5, OnlyWalkMoves

(* A page that comes after the others, and what it shows.                  *)
GoesOn(S, seen, page) ==
  /\ seen \in Seq(SUBSET S) /\ page \in SUBSET S /\ PagesDescend(seen)
  /\ \A i \in DOMAIN seen : \A newer \in seen[i], older \in page : newer.id > older.id

HasGoneOn(S, seen, page, all) ==
  /\ all \in Seq(SUBSET S)
  /\ PagesDescend(all)
  /\ \A row : IsSeen(row, all) <=> IsSeen(row, seen) \/ row \in page
  /\ \A i \in DOMAIN all : all[i] = page \/ \E j \in DOMAIN seen : all[i] = seen[j]

LEMMA PagesGoOn ==
  ASSUME NEW S, NEW seen, NEW page, GoesOn(S, seen, page),
         NEW all, all = Append(seen, page)
  PROVE  HasGoneOn(S, seen, page, all)
  <1>1. /\ seen \in Seq(SUBSET S) /\ page \in SUBSET S /\ PagesDescend(seen)
        /\ \A i \in DOMAIN seen : \A newer \in seen[i], older \in page : newer.id > older.id
    BY DEF GoesOn
  <1>2. /\ all \in Seq(SUBSET S) /\ DOMAIN all = 1..(Len(seen) + 1)
        /\ DOMAIN seen = 1..Len(seen) /\ Len(seen) \in Nat
        /\ \A i \in 1..Len(seen) : all[i] = seen[i]
        /\ all[Len(seen) + 1] = page
    BY <1>1, AppendProperties, LenProperties
  <1>3. PagesDescend(all)
    <2>1. ASSUME NEW i \in DOMAIN all, NEW j \in DOMAIN all, i < j,
                 NEW newer \in all[i], NEW older \in all[j]
          PROVE  newer.id > older.id
      <3>1. i \in DOMAIN seen /\ newer \in seen[i]
        BY <1>2, <2>1
      <3>2. CASE j \in DOMAIN seen
        BY <1>1, <1>2, <2>1, <3>1, <3>2 DEF PagesDescend
      <3>3. CASE j = Len(seen) + 1
        BY <1>1, <1>2, <2>1, <3>1, <3>3
      <3> QED
        BY <1>2, <3>2, <3>3
    <2> QED
      BY <2>1 DEF PagesDescend
  <1>4. ASSUME NEW row PROVE IsSeen(row, all) <=> IsSeen(row, seen) \/ row \in page
    <2>1. ASSUME IsSeen(row, all) PROVE IsSeen(row, seen) \/ row \in page
      BY <1>2, <2>1 DEF IsSeen
    <2>2. ASSUME IsSeen(row, seen) PROVE IsSeen(row, all)
      BY <1>2, <2>2 DEF IsSeen
    <2>3. ASSUME row \in page PROVE IsSeen(row, all)
      <3>1. Len(seen) + 1 \in DOMAIN all
        BY <1>2
      <3> QED
        BY <1>2, <2>3, <3>1 DEF IsSeen
    <2> QED
      BY <2>1, <2>2, <2>3
  <1>5. \A i \in DOMAIN all : all[i] = page \/ \E j \in DOMAIN seen : all[i] = seen[j]
    BY <1>2
  <1> QED
    BY <1>2, <1>3, <1>4, <1>5 DEF HasGoneOn

LEMMA HistoryReadPage ==
  ASSUME HistoryInv, NEW w \in Client, Histories!ReadPage(w)
  PROVE  HistoryInv'
  <1>1. /\ walk[w].pc = "paging" /\ UNCHANGED <<history, today, call, appended>>
        /\ walk[w] \in Begun /\ WalkIsSound(w) /\ today \in Nat
    BY DEF Histories!ReadPage, HistoryInv, HistoryTypes
  <1>2. PICK listing, before0, time, seen :
          /\ listing = walk[w].listing /\ before0 = walk[w].before
          /\ time = walk[w].time /\ seen = walk[w].seen
    OBVIOUS
  <1>3. /\ listing.limit \in Nat \ {0} /\ before0 \in Nat \cup {None} /\ time \in Nat
        /\ seen \in Seq(SUBSET appended) /\ walk[w].matched \subseteq appended
        /\ time <= today /\ PagesDescend(seen)
        /\ \A row \in walk[w].matched : StillMatches(row, listing)
        /\ \A i \in DOMAIN seen : \A row \in seen[i] : before0 # None /\ before0 <= row.id
        /\ before0 # None => \A row \in walk[w].matched \cap Histories!Unexpired(history, today) :
                               before0 <= row.id => IsSeen(row, seen)
    BY <1>1, <1>2 DEF Begun, WalkIsSound
  <1>4. PICK rows : rows = Histories!Matching(listing, before0, time)
    OBVIOUS
  <1>5. PICK page : page = Histories!Newest(rows, listing.limit)
    OBVIOUS
  <1>6. PICK cursor : cursor = IF page # rows THEN Histories!Min({row.id : row \in page}) ELSE None
    OBVIOUS
  <1>7. PICK outcome : outcome = Histories!PageOutcome(page, page # rows)
    OBVIOUS
  <1>8. walk' = [walk EXCEPT ![w].pc = outcome, ![w].before = cursor,
                             ![w].seen = Append(seen, page)]
    <2>1. walk' = [walk EXCEPT ![w].pc = outcome, ![w].before = cursor,
                               ![w].seen = Append(walk[w].seen, page)]
      BY <1>2, <1>4, <1>5, <1>6, <1>7 DEF Histories!ReadPage
    <2> QED
      BY <1>2, <2>1
  <1>9. /\ rows \subseteq history /\ IsFiniteSet(rows) /\ rows \subseteq appended
        /\ \A row \in rows : row.id \in Nat
        /\ \A r, s \in rows : r.id = s.id => r = s
    BY <1>4, MatchingIsFinite DEF HistoryInv, HistoryTypes, IdsAreUnique
  <1>10. page \subseteq rows /\ IsFiniteSet(page) /\ page \in SUBSET appended
    BY <1>3, <1>5, <1>9, NewestIsBounded, FS_Subset
  <1>11. \A row \in rows : before0 # None => row.id < before0
    BY <1>4 DEF Histories!Matching
  <1>12. \A i \in DOMAIN seen : \A newer \in seen[i], older \in page : newer.id > older.id
    <2>1. ASSUME NEW i \in DOMAIN seen, NEW newer \in seen[i], NEW older \in page
          PROVE  newer.id > older.id
      <3>1. newer \in appended
        BY <1>3, LenProperties
      <3>2. newer.id \in Nat /\ older.id \in Nat
        BY <1>9, <1>10, <3>1 DEF HistoryInv, HistoryTypes
      <3>3. before0 # None /\ before0 <= newer.id /\ older.id < before0 /\ before0 \in Nat
        BY <1>3, <1>10, <1>11
      <3> QED
        BY <3>2, <3>3
    <2> QED
      BY <2>1
  <1>13. PICK all : all = Append(seen, page)
    OBVIOUS
  <1>14. /\ all \in Seq(SUBSET appended) /\ PagesDescend(all)
         /\ \A row : IsSeen(row, all) <=> IsSeen(row, seen) \/ row \in page
         /\ \A i \in DOMAIN all : all[i] = page \/ \E j \in DOMAIN seen : all[i] = seen[j]
    <2>1. PICK S : S = appended
      OBVIOUS
    <2>2. GoesOn(S, seen, page)
      BY <1>3, <1>10, <1>12, <2>1 DEF GoesOn
    <2>3. HasGoneOn(S, seen, page, all)
      BY <1>13, <2>2, PagesGoOn
    <2> QED
      BY <2>1, <2>3 DEF HasGoneOn
  <1>15. page # rows => /\ cursor \in Nat /\ \E m \in page : m.id = cursor
                        /\ \A row \in page : cursor <= row.id
    <2> SUFFICES ASSUME page # rows
                 PROVE  /\ cursor \in Nat /\ \E m \in page : m.id = cursor
                        /\ \A row \in page : cursor <= row.id
      OBVIOUS
    <2>1. rows # {}
      BY <1>10
    <2>2. IsFiniteSet({row.id : row \in rows}) /\ {row.id : row \in rows} \subseteq Nat
      BY <1>9, IdsAreFinite
    <2>3. PICK high \in {row.id : row \in rows} : \A y \in {row.id : row \in rows} : high >= y
      BY <2>1, <2>2, SetHasExtremes
    <2>4. PICK top \in rows : \A r \in rows : r.id <= top.id
      BY <2>2, <2>3
    <2>5. top \in page
      BY <1>3, <1>5, <1>9, <2>4, NewestIsAbove
    <2>6. /\ IsFiniteSet({row.id : row \in page}) /\ {row.id : row \in page} \subseteq Nat
          /\ {row.id : row \in page} # {}
      BY <1>9, <1>10, <2>5, IdsAreFinite
    <2>7. \E x \in {row.id : row \in page} : \A y \in {row.id : row \in page} : x <= y
      BY <2>6, SetHasExtremes
    <2>8. /\ cursor \in {row.id : row \in page}
          /\ \A y \in {row.id : row \in page} : cursor <= y
      BY <1>6, <2>7 DEF Histories!Min
    <2> QED
      BY <2>6, <2>8
  <1>16. outcome \in {"next", "done", "INTERNAL_ERROR"}
         /\ (outcome = "next" => page # rows) /\ (outcome = "done" => page = rows)
    BY <1>7 DEF Histories!PageOutcome
  <1> DEFINE x == [walk[w] EXCEPT !.pc = outcome, !.before = cursor, !.seen = all]
  <1>17. /\ x \in Begun /\ x.pc = outcome /\ x.before = cursor /\ x.seen = all /\ x.time = time
         /\ x.listing = listing /\ x.matched = walk[w].matched
    <2>1. cursor \in Nat \cup {None}
      BY <1>6, <1>15
    <2> QED
      BY <1>1, <1>2, <1>14, <1>16, <2>1 DEF Begun, WalkEnds
  <1>18. walk' = [walk EXCEPT ![w] = x]
    BY <1>8, <1>13 DEF HistoryInv, HistoryTypes
  <1> HIDE DEF x
  <1>19. walk'[w] = x
    BY <1>18 DEF HistoryInv, HistoryTypes
  <1>20. outcome = "next" => \A i \in DOMAIN all : \A row \in all[i] : cursor # None /\ cursor <= row.id
    <2>1. ASSUME outcome = "next", NEW i \in DOMAIN all, NEW row \in all[i]
          PROVE  cursor # None /\ cursor <= row.id
      <3>1. /\ cursor \in Nat /\ \A r \in page : cursor <= r.id
            /\ \E m \in page : m.id = cursor
        BY <1>15, <1>16, <2>1
      <3>2. cursor # None
        BY <3>1, StorageAssumptions DEF Histories!HistoryAssumption
      <3>3. CASE all[i] = page
        BY <3>1, <3>2, <3>3
      <3>4. ASSUME NEW j \in DOMAIN seen, all[i] = seen[j] PROVE cursor <= row.id
        <4>1. PICK m \in page : m.id = cursor
          BY <3>1
        <4>2. row.id > cursor
          BY <1>12, <3>4, <4>1
        <4>3. row \in appended
          BY <1>3, <3>4, LenProperties
        <4>4. row.id \in Nat
          BY <4>3 DEF HistoryInv, HistoryTypes
        <4> QED
          BY <3>1, <4>2, <4>4
      <3> QED
        BY <1>14, <3>2, <3>3, <3>4
    <2> QED
      BY <2>1
  <1>21. ASSUME NEW row \in walk[w].matched, row \in Histories!Unexpired(history, today),
                outcome = "done" \/ (outcome = "next" /\ cursor <= row.id)
         PROVE  IsSeen(row, all)
    <2>1. CASE before0 # None /\ before0 <= row.id
      BY <1>3, <1>14, <1>21, <2>1
    <2>2. CASE ~(before0 # None /\ before0 <= row.id)
      <3>1. row \in history /\ row.at >= today - Retention /\ row \in appended
        BY <1>21 DEF Histories!Unexpired, HistoryInv, HistoryTypes
      <3>2. row.at \in Nat /\ row.id \in Nat /\ Retention \in Nat
        BY <3>1, StorageAssumptions DEF HistoryInv, HistoryTypes, Histories!HistoryAssumption
      <3>3. row.at >= time - Retention
        BY <1>1, <1>3, <3>1, <3>2
      <3>4. before0 = None \/ row.id < before0
        BY <1>3, <2>2, <3>2
      <3>5. StillMatches(row, listing)
        BY <1>3
      <3>6. row \in rows
        BY <1>4, <3>1, <3>3, <3>4, <3>5
           DEF Histories!Matching, Histories!Passes, StillMatches
      <3>7. CASE page = rows
        BY <1>14, <3>6, <3>7
      <3>8. CASE page # rows
        <4>1. PICK m \in page : m.id = cursor
          BY <1>15, <3>8
        <4>2. m.id <= row.id
          BY <1>16, <1>21, <3>8, <4>1
        <4>3. row \in page
          BY <1>3, <1>5, <1>9, <3>6, <4>1, <4>2, NewestIsAbove
        <4> QED
          BY <1>14, <4>3
      <3> QED
        BY <3>7, <3>8
    <2> QED
      BY <2>1, <2>2
  <1>22. WalkIsSound(w)'
    <2>1. /\ (Histories!Unexpired(history, today))' = Histories!Unexpired(history, today)
          /\ Begun' = Begun
      BY <1>1 DEF Histories!Unexpired, Begun
    <2>2. \A row \in x.matched \cap Histories!Unexpired(history, today) :
            x.pc = "done" \/ (x.pc = "next" /\ x.before <= row.id) => IsSeen(row, x.seen)
      BY <1>17, <1>21
    <2>3. x.pc # "paging"
      BY <1>16, <1>17
    <2> QED
      BY <1>1, <1>3, <1>14, <1>17, <1>19, <1>20, <2>1, <2>2, <2>3
         DEF WalkIsSound, PagesDescend, StillMatches, IsSeen
  <1> QED
    BY <1>1, <1>17, <1>18, <1>22, OnlyWalkMoves

(* The steps of a search before and after its record.                      *)
LEMMA HistorySearches ==
  ASSUME HistoryInv, NEW c \in Caller,
         \/ Histories!RefuseSearch(c)
         \/ Histories!RunSearch(c)
         \/ Histories!AppendReadsClock(c)
         \/ Histories!AppendFails(c)
  PROVE  HistoryInv'
  <1>1. UNCHANGED <<history, today, walk, appended>>
    BY DEF Histories!RefuseSearch, Histories!RunSearch, Histories!AppendReadsClock,
           Histories!AppendFails
  <1>2. PICK x : /\ call' = [call EXCEPT ![c] = x]
                 /\ x.pc = "writing" => x.at \in Nat
    <2>1. CASE Histories!RefuseSearch(c)
      BY <2>1 DEF Histories!RefuseSearch
    <2>2. CASE Histories!RunSearch(c)
      BY <2>2 DEF Histories!RunSearch
    <2>3. CASE Histories!AppendReadsClock(c)
      <3>1. PICK x : x = [pc |-> "writing", search |-> call[c].search, at |-> today]
        OBVIOUS
      <3>2. call' = [call EXCEPT ![c] = x]
        BY <2>3, <3>1 DEF Histories!AppendReadsClock
      <3>3. x.at \in Nat
        BY <3>1 DEF HistoryInv, HistoryTypes
      <3> QED
        BY <3>2, <3>3
    <2>4. CASE Histories!AppendFails(c)
      <3>1. PICK x : x = [pc |-> "answered", stored |-> FALSE]
        OBVIOUS
      <3>2. call' = [call EXCEPT ![c] = x]
        BY <2>4, <3>1 DEF Histories!AppendFails
      <3>3. x.pc # "writing"
        BY <3>1
      <3> QED
        BY <3>2, <3>3
    <2> QED
      BY <2>1, <2>2, <2>3, <2>4
  <1>3. /\ DOMAIN call' = Caller
        /\ \A d \in Caller : call'[d].pc = "writing" => call'[d].at \in Nat
    BY <1>2 DEF HistoryInv, HistoryTypes
  <1> QED
    BY <1>1, <1>3, OnlyCallMoves

LEMMA HistoryStep ==
  ASSUME HistoryInv, Histories!HistoryNext
  PROVE  HistoryInv'
  <1>1. CASE \E c \in Caller : \/ Histories!RefuseSearch(c) \/ Histories!RunSearch(c)
                               \/ Histories!AppendReadsClock(c) \/ Histories!AppendFails(c)
    BY <1>1, HistorySearches
  <1>2. CASE \E c \in Caller : Histories!AppendCommits(c)
    BY <1>2, HistoryAppendCommits
  <1>3. CASE \E w \in Client : Histories!RefuseListing(w) \/ Histories!CountFirst(w)
    BY <1>3, HistoryRefuseListing, HistoryCountFirst
  <1>4. CASE \E w \in Client : \/ Histories!CountNext(w) \/ Histories!ReadPage(w)
                               \/ Histories!ListUnavailable(w)
    BY <1>4, HistoryCountNext, HistoryReadPage, HistoryListUnavailable
  <1> QED
    BY <1>1, <1>2, <1>3, <1>4, HistoryTick DEF Histories!HistoryNext

LEMMA HistoryStutter ==
  ASSUME HistoryInv, UNCHANGED storedVars
  PROVE  HistoryInv'
  <1>1. UNCHANGED <<history, today, call, walk, appended>>
    BY DEF storedVars
  <1>2. /\ DOMAIN call' = Caller
        /\ \A c \in Caller : call'[c].pc = "writing" => call'[c].at \in Nat
    BY <1>1 DEF HistoryInv, HistoryTypes
  <1> QED
    BY <1>1, <1>2, OnlyCallMoves

LEMMA HistoryProperty ==
  ASSUME HistoryInv
  PROVE  Histories!WalkIsExact /\ Histories!HistoryKeepsTheNewest
  <1>1. ASSUME NEW w \in Client, walk[w].pc \in {"next", "done", "INTERNAL_ERROR"}
        PROVE  /\ PagesDescend(walk[w].seen)
               /\ walk[w].pc = "done" =>
                    \A row \in walk[w].matched \cap Histories!Unexpired(history, today) :
                      IsSeen(row, walk[w].seen)
    <2>1. walk[w] \in Begun /\ WalkIsSound(w)
      BY <1>1 DEF HistoryInv, HistoryTypes
    <2> QED
      BY <2>1 DEF WalkIsSound
  <1>2. Histories!WalkIsExact
    BY <1>1 DEF Histories!WalkIsExact, PagesDescend, IsSeen
  <1>3. Histories!Cardinality(history) <= MaxEntries
    BY HistoryCardinality DEF HistoryInv
  <1>4. ASSUME NEW row \in appended \ history
        PROVE  \/ \E r \in {s \in appended : s.id > row.id} : row.at < r.at - Retention
               \/ Histories!Cardinality({s \in appended : s.id > row.id}) >= MaxEntries
    <2>1. GoneForAReason(row)
      BY DEF HistoryInv
    <2> QED
      BY <2>1, HistoryCardinality DEF GoneForAReason
  <1>5. \A r, s \in appended : r.id = s.id => r = s
    BY DEF HistoryInv, IdsAreUnique
  <1> QED
    BY <1>2, <1>3, <1>4, <1>5 DEF Histories!HistoryKeepsTheNewest

(***************************************************************************)
(* The commands that read catalog-sources.yml                              *)
(***************************************************************************)
LEMMA IntervalHasLeast ==
  ASSUME NEW n \in Nat, NEW B \in SUBSET (0..n), B # {}
  PROVE  \E x \in B : \A y \in B : x <= y
  <1>1. IsFiniteSet(0..n)
    BY FS_Interval
  <1>2. IsFiniteSet(B)
    BY <1>1, FS_Subset
  <1>3. B \subseteq Nat
    OBVIOUS
  <1> QED
    BY <1>2, <1>3, SetHasExtremes

Elements(s) == {s[i] : i \in 1..Len(s)}

LEMMA ConcatElements ==
  ASSUME NEW S, NEW s \in Seq(S), NEW t \in Seq(S)
  PROVE  /\ s \o t \in Seq(S)
         /\ Elements(s \o t) = Elements(s) \cup Elements(t)
  <1>1. /\ s \o t \in Seq(S) /\ Len(s \o t) = Len(s) + Len(t) /\ Len(s) \in Nat /\ Len(t) \in Nat
        /\ \A i \in 1..Len(s) + Len(t) :
             (s \o t)[i] = IF i <= Len(s) THEN s[i] ELSE t[i - Len(s)]
    BY ConcatProperties
  <1>2. Elements(s \o t) \subseteq Elements(s) \cup Elements(t)
    <2> SUFFICES ASSUME NEW i \in 1..Len(s) + Len(t)
                 PROVE  (s \o t)[i] \in Elements(s) \cup Elements(t)
      BY <1>1 DEF Elements
    <2>1. CASE i <= Len(s)
      BY <1>1, <2>1 DEF Elements
    <2>2. CASE i > Len(s)
      <3>1. i - Len(s) \in 1..Len(t) /\ (s \o t)[i] = t[i - Len(s)]
        BY <1>1, <2>2
      <3> QED
        BY <3>1 DEF Elements
    <2> QED
      BY <1>1, <2>1, <2>2
  <1>3. Elements(s) \subseteq Elements(s \o t)
    <2> SUFFICES ASSUME NEW i \in 1..Len(s) PROVE s[i] \in Elements(s \o t)
      BY DEF Elements
    <2>1. i \in 1..Len(s) + Len(t) /\ (s \o t)[i] = s[i]
      BY <1>1
    <2> QED
      BY <1>1, <2>1 DEF Elements
  <1>4. Elements(t) \subseteq Elements(s \o t)
    <2> SUFFICES ASSUME NEW i \in 1..Len(t) PROVE t[i] \in Elements(s \o t)
      BY DEF Elements
    <2>1. i + Len(s) \in 1..Len(s) + Len(t) /\ (s \o t)[i + Len(s)] = t[i]
      BY <1>1
    <2> QED
      BY <1>1, <2>1 DEF Elements
  <1> QED
    BY <1>1, <1>2, <1>3, <1>4

(* What FlattenSeq concatenates is a function: the prefixes of the         *)
(* sequences have one, since there is no shortest one without.             *)
Flat(f, seqs, k) == \A i \in 1..k : f[i] = IF i = 1 THEN seqs[i] ELSE f[i - 1] \o seqs[i]

HasFlat(S, seqs, k) == \E f \in [1..k -> Seq(S)] : Flat(f, seqs, k)

LEMMA PrefixesHaveFlat ==
  ASSUME NEW S, NEW seqs \in Seq(Seq(S)), NEW k \in 1..Len(seqs),
         k = 1 \/ HasFlat(S, seqs, k - 1)
  PROVE  HasFlat(S, seqs, k)
  <1>1. Len(seqs) \in Nat /\ seqs[k] \in Seq(S)
    OBVIOUS
  <1>2. PICK f \in [1..(k - 1) -> Seq(S)] : Flat(f, seqs, k - 1)
    <2>1. CASE k = 1
      <3>1. PICK f : f = [i \in 1..(k - 1) |-> <<>>]
        OBVIOUS
      <3>2. f \in [1..(k - 1) -> Seq(S)]
        BY <3>1, EmptySeq
      <3>3. 1..(k - 1) = {}
        BY <2>1
      <3> QED
        BY <3>2, <3>3 DEF Flat
    <2>2. CASE k # 1
      BY <2>2 DEF HasFlat
    <2> QED
      BY <2>1, <2>2
  <1>3. PICK tail \in Seq(S) : tail = IF k = 1 THEN seqs[k] ELSE f[k - 1] \o seqs[k]
    <2>1. k # 1 => f[k - 1] \in Seq(S)
      BY <1>1, <1>2
    <2> QED
      BY <1>1, <2>1, ConcatProperties
  <1> DEFINE g == [i \in 1..k |-> IF i < k THEN f[i] ELSE tail]
  <1>4. g \in [1..k -> Seq(S)]
    BY <1>1, <1>2, <1>3
  <1>5. (\A i \in 1..(k - 1) : g[i] = f[i]) /\ g[k] = tail
    BY <1>1
  <1> HIDE DEF g
  <1>6. ASSUME NEW i \in 1..k PROVE g[i] = IF i = 1 THEN seqs[i] ELSE g[i - 1] \o seqs[i]
    <2>1. CASE i = k
      BY <1>1, <1>3, <1>5, <2>1
    <2>2. CASE i # k
      <3>1. i \in 1..(k - 1) /\ (i # 1 => i - 1 \in 1..(k - 1))
        BY <1>1, <2>2
      <3>2. f[i] = IF i = 1 THEN seqs[i] ELSE f[i - 1] \o seqs[i]
        BY <1>2, <3>1 DEF Flat
      <3> QED
        BY <1>5, <3>1, <3>2
    <2> QED
      BY <2>1, <2>2
  <1> QED
    BY <1>4, <1>6 DEF HasFlat, Flat

LEMMA FlattenIsDefined ==
  ASSUME NEW S, NEW seqs \in Seq(Seq(S)), Len(seqs) # 0
  PROVE  \E f \in [1..Len(seqs) -> Seq(S)] :
           f = [i \in 1..Len(seqs) |-> IF i = 1 THEN seqs[i] ELSE f[i - 1] \o seqs[i]]
  <1> DEFINE B == {k \in 1..Len(seqs) : ~HasFlat(S, seqs, k)}
  <1>1. Len(seqs) \in Nat
    OBVIOUS
  <1>2. B = {}
    <2> SUFFICES ASSUME B # {} PROVE FALSE
      OBVIOUS
    <2>1. PICK k \in B : \A m \in B : k <= m
      <3>1. B \in SUBSET (0..Len(seqs))
        OBVIOUS
      <3> HIDE DEF B
      <3> QED
        BY <1>1, <3>1, IntervalHasLeast
    <2>2. k \in 1..Len(seqs) /\ ~HasFlat(S, seqs, k)
      OBVIOUS
    <2>3. k - 1 \in 1..Len(seqs) => k - 1 \notin B
      BY <1>1, <2>1, <2>2
    <2>4. k = 1 \/ HasFlat(S, seqs, k - 1)
      BY <1>1, <2>2, <2>3
    <2> QED
      BY <2>2, <2>4, PrefixesHaveFlat
  <1>3. HasFlat(S, seqs, Len(seqs))
    BY <1>1, <1>2
  <1> QED
    BY <1>3 DEF HasFlat, Flat

LEMMA FlattenIsSequence ==
  ASSUME NEW S, NEW seqs \in Seq(Seq(S))
  PROVE  /\ Commands!FlattenSeq(seqs) \in Seq(S)
         /\ Elements(Commands!FlattenSeq(seqs)) = UNION {Elements(seqs[i]) : i \in 1..Len(seqs)}
  <1> DEFINE n == Len(seqs)
  <1>1. n \in Nat /\ \A i \in 1..n : seqs[i] \in Seq(S)
    OBVIOUS
  <1>2. CASE n = 0
    <2>1. Commands!FlattenSeq(seqs) = seqs /\ seqs = <<>>
      BY <1>2, EmptySeq DEF Commands!FlattenSeq
    <2> QED
      BY <1>2, <2>1, EmptySeq DEF Elements
  <1>3. CASE n # 0
    <2> DEFINE IsFlat(f) == f = [i \in 1..n |-> IF i = 1 THEN seqs[i] ELSE f[i - 1] \o seqs[i]]
    <2>1. PICK flat : flat = CHOOSE f : IsFlat(f)
      OBVIOUS
    <2>2. Commands!FlattenSeq(seqs) = flat[n]
      BY <1>3, <2>1 DEF Commands!FlattenSeq
    <2>3. IsFlat(flat)
      <3>1. \E f : IsFlat(f)
        <4>1. \E f \in [1..n -> Seq(S)] : IsFlat(f)
          BY <1>3, FlattenIsDefined
        <4> QED
          BY <4>1
      <3> HIDE DEF IsFlat
      <3> QED
        BY <2>1, <3>1
    <2>4. \A i \in 1..n : flat[i] = IF i = 1 THEN seqs[i] ELSE flat[i - 1] \o seqs[i]
      BY <2>3
    <2> HIDE DEF IsFlat
    <2> DEFINE Parts(i) == UNION {Elements(seqs[k]) : k \in 1..i}
               Whole(i) == flat[i] \in Seq(S) /\ Elements(flat[i]) = Parts(i)
    <2>5. Whole(1)
      <3>1. flat[1] = seqs[1] /\ seqs[1] \in Seq(S)
        BY <1>1, <1>3, <2>4
      <3>2. Parts(1) = Elements(seqs[1])
        <4>1. 1..1 = {1}
          OBVIOUS
        <4> QED
          BY <4>1
      <3> QED
        BY <3>1, <3>2
    <2>6. ASSUME NEW i \in 2..n, Whole(i - 1) PROVE Whole(i)
      <3>1. flat[i] = flat[i - 1] \o seqs[i] /\ seqs[i] \in Seq(S)
        <4>1. i \in 1..n /\ i # 1
          BY <1>1
        <4> QED
          BY <1>1, <2>4, <4>1
      <3>2. flat[i] \in Seq(S) /\ Elements(flat[i]) = Elements(flat[i - 1]) \cup Elements(seqs[i])
        BY <2>6, <3>1, ConcatElements
      <3>3. Parts(i) = Parts(i - 1) \cup Elements(seqs[i])
        <4>1. 1..i = (1..(i - 1)) \cup {i}
          BY <1>1
        <4> QED
          BY <4>1
      <3> HIDE DEF Parts
      <3> QED
        BY <2>6, <3>2, <3>3
    <2> HIDE DEF Whole
    <2> DEFINE B == {i \in 1..n : ~Whole(i)}
    <2>7. B = {}
      <3> SUFFICES ASSUME B # {} PROVE FALSE
        OBVIOUS
      <3>1. PICK i \in B : \A k \in B : i <= k
        <4>1. B \in SUBSET (0..n)
          OBVIOUS
        <4> HIDE DEF B
        <4> QED
          BY <1>1, <4>1, IntervalHasLeast
      <3>2. i \in 1..n /\ ~Whole(i)
        OBVIOUS
      <3>3. i - 1 \in 1..n => i - 1 \notin B
        BY <1>1, <3>1, <3>2
      <3>4. i # 1 => i \in 2..n /\ Whole(i - 1)
        BY <1>1, <2>5, <3>2, <3>3
      <3> QED
        BY <2>5, <2>6, <3>2, <3>4
    <2>8. Whole(n)
      <3>1. n \in 1..n
        BY <1>1, <1>3
      <3> QED
        BY <2>7, <3>1
    <2> QED
      BY <2>2, <2>8 DEF Whole
  <1> QED
    BY <1>2, <1>3

(* What is parsed of an accepted file.                                     *)
AcceptedContents == {c \in YamlContents : Commands!AcceptsFile(c)}

Configs == {Commands!Parsed(c) : c \in AcceptedContents}

DocumentsOf(e) == {Commands!ParsedDocument(e, d) : d \in Commands!ToSet(e.documents)}

KnownDocuments ==
  UNION {UNION {DocumentsOf(e) : e \in Commands!ToSet(c.sources)} : c \in AcceptedContents}

KnownSources ==
  {Commands!ParsedSource(e) :
     e \in (UNION {Commands!ToSet(c.sources) : c \in AcceptedContents})
             \cup {r.source : r \in {x \in CommandLines : x.op = "add-source"}}}

LEMMA KnownDocumentsHaveKeys ==
  ASSUME Commands!CommandsAssumption, NEW d \in KnownDocuments
  PROVE  /\ d.source \in SourceNames /\ d.source \in Seq(KeyPieces) /\ Len(d.source) = 1
         /\ d.key \in Seq(KeyPieces) /\ d.key # <<>>
  <1>0. PICK c \in AcceptedContents : \E e \in Commands!ToSet(c.sources) : d \in DocumentsOf(e)
    BY DEF KnownDocuments
  <1>1. PICK e \in Commands!ToSet(c.sources) : d \in DocumentsOf(e)
    BY <1>0
  <1>2. PICK j \in DOMAIN e.documents : d = Commands!ParsedDocument(e, e.documents[j])
    BY <1>1 DEF DocumentsOf, Commands!ToSet
  <1>3. d.source = Commands!Trim(e.key) /\ d.key = Commands!Trim(e.documents[j].key)
    BY <1>2 DEF Commands!ParsedDocument
  <1>4. c \in YamlContents /\ Commands!AcceptsFile(c)
    BY DEF AcceptedContents
  <1>5. e.documents[j] \in Commands!ToSet(e.documents)
    BY DEF Commands!ToSet
  <1>6. /\ Commands!Trim(e.key) \in SourceNames
        /\ Commands!Trim(e.documents[j].key) \in Seq(KeyPieces)
    BY <1>4, <1>5 DEF Commands!CommandsAssumption
  <1>7. Commands!AcceptsSource(e)
    BY <1>1, <1>4 DEF Commands!AcceptsFile, Commands!ToSet
  <1>8. Commands!Trim(e.documents[j].key) # <<>>
    BY <1>7 DEF Commands!AcceptsSource, Commands!AcceptsDocument, Commands!ValidStableKey
  <1>9. \A k \in SourceNames : k \in Seq(KeyPieces) /\ Len(k) = 1
    BY DEF Commands!CommandsAssumption
  <1> QED
    BY <1>3, <1>6, <1>8, <1>9

LEMMA ConfigsAreSound ==
  ASSUME Commands!CommandsAssumption, NEW config \in Configs
  PROVE  /\ Len(config.sources) \in Nat \ {0}
         /\ \A i \in 1..Len(config.sources) : config.sources[i].key \in SourceNames
         /\ \A i, j \in 1..Len(config.sources) :
              config.sources[i].key = config.sources[j].key => i = j
         /\ config.documents \in Seq(KnownDocuments)
         /\ \A i \in 1..Len(config.sources) : config.sources[i] \in KnownSources
  <1>1. PICK c \in AcceptedContents : config = Commands!Parsed(c)
    BY DEF Configs
  <1>2. c \in YamlContents /\ Commands!AcceptsFile(c)
    BY DEF AcceptedContents
  <1>3. /\ Len(c.sources) \in Nat
        /\ DOMAIN c.sources = 1..Len(c.sources)
        /\ \A e \in Commands!ToSet(c.sources) :
             /\ Commands!Trim(e.key) \in SourceNames /\ Len(e.documents) \in Nat
             /\ DOMAIN e.documents = 1..Len(e.documents)
    BY <1>2 DEF Commands!CommandsAssumption, Commands!IsSequence
  <1> DEFINE n == Len(c.sources)
             e(i) == c.sources[i]
  <1>4. \A i \in 1..n : e(i) \in Commands!ToSet(c.sources)
    BY <1>3 DEF Commands!ToSet
  <1>5. /\ c.sources # <<>>
        /\ \A i, j \in 1..n : Commands!Trim(e(i).key) = Commands!Trim(e(j).key) => i = j
    BY <1>2, <1>3 DEF Commands!AcceptsFile, Commands!IsInjective
  <1>6. config.sources = [i \in 1..n |-> Commands!ParsedSource(e(i))]
    BY <1>1, <1>3 DEF Commands!Parsed
  <1>7. Len(config.sources) = n /\ \A i \in 1..n : config.sources[i].key = Commands!Trim(e(i).key)
    BY <1>3, <1>6 DEF Commands!ParsedSource
  <1>8. config.documents = Commands!FlattenSeq([i \in 1..n |->
          [j \in 1..Len(e(i).documents) |-> Commands!ParsedDocument(e(i), e(i).documents[j])]])
    BY <1>1, <1>3, <1>4 DEF Commands!Parsed
  <1>9. \A i \in 1..n :
          [j \in 1..Len(e(i).documents) |-> Commands!ParsedDocument(e(i), e(i).documents[j])]
             \in Seq(KnownDocuments)
    <2> SUFFICES ASSUME NEW i \in 1..n
                 PROVE  [j \in 1..Len(e(i).documents) |->
                           Commands!ParsedDocument(e(i), e(i).documents[j])] \in Seq(KnownDocuments)
      OBVIOUS
    <2>1. /\ e(i) \in Commands!ToSet(c.sources) /\ Len(e(i).documents) \in Nat
          /\ DOMAIN e(i).documents = 1..Len(e(i).documents)
      BY <1>3, <1>4
    <2>2. \A j \in 1..Len(e(i).documents) :
            Commands!ParsedDocument(e(i), e(i).documents[j]) \in DocumentsOf(e(i))
      BY <2>1 DEF DocumentsOf, Commands!ToSet
    <2>3. DocumentsOf(e(i)) \subseteq KnownDocuments
      BY <2>1 DEF KnownDocuments
    <2> QED
      BY <2>1, <2>2, <2>3
  <1>10. n # 0
    BY <1>3, <1>5
  <1>12. \A i \in 1..n : config.sources[i] \in KnownSources
    BY <1>3, <1>4, <1>6 DEF KnownSources
  <1> HIDE DEF e
  <1>11. config.documents \in Seq(KnownDocuments)
    <2> DEFINE parts == [i \in 1..n |->
          [j \in 1..Len(e(i).documents) |-> Commands!ParsedDocument(e(i), e(i).documents[j])]]
    <2>1. parts \in Seq(Seq(KnownDocuments))
      BY <1>3, <1>9
    <2>2. config.documents = Commands!FlattenSeq(parts)
      BY <1>8
    <2> HIDE DEF parts
    <2> QED
      BY <2>1, <2>2, FlattenIsSequence
  <1> QED
    BY <1>1, <1>3, <1>4, <1>5, <1>7, <1>10, <1>11, <1>12 DEF e

(* The documents of a scope, as a synchronization finds them.              *)
LEMMA ConfiguredIsSound ==
  ASSUME Commands!CommandsAssumption, NEW config \in Configs, NEW scope
  PROVE  /\ Commands!Configured(config, scope) \in Seq(KnownDocuments)
         /\ \A d : d \in Elements(Commands!Configured(config, scope)) <=>
              d \in Elements(config.documents) /\ Commands!InScope(scope, d.source) /\ d.enabled
  <1> DEFINE s == config.documents
             one(i) == IF Commands!InScope(scope, s[i].source) /\ s[i].enabled THEN <<s[i]>> ELSE <<>>
             parts == [i \in 1..Len(s) |-> one(i)]
  <1>1. s \in Seq(KnownDocuments) /\ Len(s) \in Nat /\ DOMAIN s = 1..Len(s)
    BY ConfigsAreSound, LenProperties
  <1>2. \A i \in 1..Len(s) : s[i] \in KnownDocuments
    BY <1>1
  <1>3. Commands!Configured(config, scope) = Commands!FlattenSeq(parts)
    BY <1>1 DEF Commands!Configured
  <1>4. \A i \in 1..Len(s) : one(i) \in Seq(KnownDocuments)
    BY <1>2, EmptySeq
  <1>5. \A i \in 1..Len(s) :
          Elements(one(i)) = {d \in {s[i]} : Commands!InScope(scope, d.source) /\ d.enabled}
    BY DEF Elements
  <1> HIDE DEF one
  <1>6. parts \in Seq(Seq(KnownDocuments)) /\ Len(parts) = Len(s)
    BY <1>1, <1>4
  <1>7. \A i \in 1..Len(s) : Elements(parts[i]) = Elements(one(i))
    OBVIOUS
  <1> HIDE DEF parts
  <1>8. /\ Commands!FlattenSeq(parts) \in Seq(KnownDocuments)
        /\ Elements(Commands!FlattenSeq(parts)) = UNION {Elements(parts[i]) : i \in 1..Len(s)}
    BY <1>6, FlattenIsSequence
  <1>9. Elements(Commands!FlattenSeq(parts))
          = UNION {{d \in {s[i]} : Commands!InScope(scope, d.source) /\ d.enabled} : i \in 1..Len(s)}
    BY <1>5, <1>7, <1>8
  <1>10. ASSUME NEW d
         PROVE  d \in Elements(Commands!Configured(config, scope)) <=>
                  d \in Elements(s) /\ Commands!InScope(scope, d.source) /\ d.enabled
    <2>1. d \in Elements(s) <=> \E i \in 1..Len(s) : d = s[i]
      BY DEF Elements
    <2>2. d \in Elements(Commands!Configured(config, scope)) <=>
            \E i \in 1..Len(s) :
              d \in {x \in {s[i]} : Commands!InScope(scope, x.source) /\ x.enabled}
      <3> DEFINE pass(i) == {x \in {s[i]} : Commands!InScope(scope, x.source) /\ x.enabled}
      <3>1. Elements(Commands!Configured(config, scope)) = UNION {pass(i) : i \in 1..Len(s)}
        BY <1>3, <1>9
      <3> HIDE DEF pass
      <3>2. d \in Elements(Commands!Configured(config, scope)) <=>
              \E i \in 1..Len(s) : d \in pass(i)
        BY <3>1
      <3> QED
        BY <3>2 DEF pass
    <2> QED
      BY <2>1, <2>2, Zenon
  <1> QED
    BY <1>3, <1>8, <1>10

(* Where a cursor is, and what a synchronization takes after it.           *)
Marks(documents, cursor) ==
  \E i \in 1..Len(documents) :
    documents[i].source = cursor.source /\ documents[i].key = cursor.key

LEMMA IndexIsSound ==
  ASSUME NEW S, NEW documents \in Seq(S), NEW cursor
  PROVE  /\ Commands!IndexOf(documents, cursor) \in 0..Len(documents)
         /\ Commands!IndexOf(documents, cursor) # 0 <=> Marks(documents, cursor)
  <1> DEFINE I == {i \in 1..Len(documents) :
                     documents[i].source = cursor.source /\ documents[i].key = cursor.key}
  <1>1. Len(documents) \in Nat
    OBVIOUS
  <1>2. Commands!IndexOf(documents, cursor) = IF I # {} THEN Commands!Min(I) ELSE 0
    BY DEF Commands!IndexOf, Commands!SelectInSeq
  <1>3. I # {} <=> Marks(documents, cursor)
    BY DEF Marks
  <1>4. I \subseteq 1..Len(documents)
    OBVIOUS
  <1> HIDE DEF I
  <1>5. I # {} => Commands!Min(I) \in I
    <2>1. I # {} => \E x \in I : \A y \in I : x <= y
      <3>1. I \in SUBSET (0..Len(documents))
        BY <1>4
      <3> QED
        BY <1>1, <3>1, IntervalHasLeast
    <2> QED
      BY <2>1 DEF Commands!Min
  <1>6. CASE I # {}
    <2>1. Commands!IndexOf(documents, cursor) \in 1..Len(documents)
      BY <1>2, <1>4, <1>5, <1>6
    <2> QED
      BY <1>1, <1>3, <1>6, <2>1
  <1>7. CASE I = {}
    BY <1>1, <1>2, <1>3, <1>7
  <1> QED
    BY <1>6, <1>7

Following(documents, cursor, limit) ==
  Commands!ApplyLimit(Commands!ApplyResumeCursor(documents, cursor), limit)

PositiveLimit == (Nat \ {0}) \cup {Nothing}

LEMMA SubSeqElements ==
  ASSUME NEW S, NEW s \in Seq(S), NEW m \in 1..(Len(s) + 1), NEW n \in 0..Len(s)
  PROVE  SubSeq(s, m, n) \in Seq(S) /\ Elements(SubSeq(s, m, n)) \subseteq Elements(s)
  <1>1. Len(s) \in Nat /\ \A i \in m..n : s[i] \in S
    OBVIOUS
  <1>2. /\ SubSeq(s, m, n) \in Seq(S)
        /\ Len(SubSeq(s, m, n)) = IF m <= n THEN n - m + 1 ELSE 0
        /\ \A i \in 1..(n - m + 1) : SubSeq(s, m, n)[i] = s[m + i - 1]
    BY <1>1, SubSeqProperties
  <1>3. ASSUME NEW i \in 1..Len(SubSeq(s, m, n)) PROVE SubSeq(s, m, n)[i] \in Elements(s)
    <2>1. i \in 1..(n - m + 1) /\ m + i - 1 \in 1..Len(s)
      BY <1>1, <1>2
    <2> QED
      BY <1>2, <2>1 DEF Elements
  <1> QED
    BY <1>2, <1>3 DEF Elements

LEMMA FollowingIsPart ==
  ASSUME NEW S, NEW documents \in Seq(S), NEW cursor, NEW limit \in PositiveLimit
  PROVE  /\ Commands!ApplyResumeCursor(documents, cursor) \in Seq(S)
         /\ Following(documents, cursor, limit) \in Seq(S)
         /\ Elements(Following(documents, cursor, limit)) \subseteq Elements(documents)
         /\ Len(Following(documents, cursor, limit)) < Len(Commands!ApplyResumeCursor(documents, cursor))
              => Len(Following(documents, cursor, limit)) # 0
  <1> DEFINE n == Commands!IndexOf(documents, cursor)
             rest == Commands!ApplyResumeCursor(documents, cursor)
  <1>1. Len(documents) \in Nat /\ n \in 0..Len(documents)
    BY IndexIsSound
  <1>2. rest = IF cursor = Nothing THEN documents ELSE SubSeq(documents, n + 1, Len(documents))
    BY DEF Commands!ApplyResumeCursor
  <1>3. /\ SubSeq(documents, n + 1, Len(documents)) \in Seq(S)
        /\ Elements(SubSeq(documents, n + 1, Len(documents))) \subseteq Elements(documents)
    <2>1. n + 1 \in 1..(Len(documents) + 1) /\ Len(documents) \in 0..Len(documents)
      BY <1>1
    <2> HIDE DEF n
    <2> QED
      BY <2>1, SubSeqElements
  <1>4. rest \in Seq(S) /\ Elements(rest) \subseteq Elements(documents)
    BY <1>2, <1>3
  <1>5. Following(documents, cursor, limit)
          = IF limit = Nothing \/ Len(rest) <= limit THEN rest ELSE SubSeq(rest, 1, limit)
    BY DEF Following, Commands!ApplyLimit
  <1>8. rest = Commands!ApplyResumeCursor(documents, cursor)
    OBVIOUS
  <1> HIDE DEF rest
  <1>6. CASE limit = Nothing \/ Len(rest) <= limit
    BY <1>4, <1>5, <1>6, <1>8
  <1>7. CASE ~(limit = Nothing \/ Len(rest) <= limit)
    <2>1. limit \in Nat \ {0} /\ Len(rest) \in Nat /\ limit < Len(rest)
      BY <1>4, <1>7 DEF PositiveLimit
    <2>2. /\ SubSeq(rest, 1, limit) \in Seq(S)
          /\ Elements(SubSeq(rest, 1, limit)) \subseteq Elements(rest)
      <3>1. 1 \in 1..(Len(rest) + 1) /\ limit \in 0..Len(rest)
        BY <2>1
      <3> QED
        BY <1>4, <3>1, SubSeqElements
    <2>3. Len(SubSeq(rest, 1, limit)) = limit
      BY <1>4, <2>1
    <2> QED
      BY <1>4, <1>5, <1>7, <1>8, <2>1, <2>2, <2>3
  <1> QED
    BY <1>6, <1>7

-----------------------------------------------------------------------------
KnownRows == [SourceNames -> KnownSources \cup {Nothing}]

Cursors == [source : Seq(KeyPieces), key : Seq(KeyPieces)]

Fingerprints ==
  {Commands!Fingerprint(q[1], q[2]) : q \in Seq(KnownDocuments) \X KnownRows}

Reports == [cursor : Cursors, fingerprint : Fingerprints]

Selections == Seq(KnownDocuments) \cup SUBSET KnownDocuments

CommandSteps ==
  {"idle", "refused", "failed", "CATALOG_RESUME_CONFIGURATION_CHANGED", "CURSOR_NOT_FOUND",
   "loaded", "planned", "synced", "preload", "load", "write", "add", "plan", "sync", "syncing"}

Answers == BOOLEAN

CommandRecord ==
  [pc : CommandSteps, request : CommandLines \cup {Nothing}, config : Configs \cup {Nothing},
   seen : KnownRows \cup {Nothing}, at : Nat, isNew : Answers,
   overwritten : SUBSET SourceNames, given : Reports \cup {Nothing},
   cursor : Cursors \cup {Nothing}, selected : Selections]

(* A report names a document of the configuration that it is about.        *)
ReportIsSound(r) == Marks(r.fingerprint.documents, r.cursor)

(* A command goes the way of its kind.                                     *)
WayIsSound(c) ==
  /\ c.pc # "idle" => c.request \in CommandLines
  /\ c.pc \in {"load", "write", "plan", "planned", "sync", "syncing", "synced"} =>
       c.config \in Configs
  /\ c.pc = "add" => c.request.op = "add-source"
  /\ c.pc = "preload" => c.request.op \in {"load-sources", "dry-run", "sync"}
  /\ c.pc \in {"load", "write"} => c.request.op = "load-sources" /\ c.at \in 1..Len(c.config.sources)
  /\ c.pc \in {"plan", "planned"} => c.request.op = "dry-run"
  /\ c.pc \in {"sync", "syncing", "synced", "CURSOR_NOT_FOUND"} => c.request.op = "sync"

LoadIsSound(c, sources) ==
  c.at # 0 /\ c.request.op = "load-sources" =>
    /\ c.request \in CommandLines /\ c.config \in Configs
    /\ c.at \in 1..(Len(c.config.sources) + 1)
    /\ \A i \in 1..(c.at - 1) : \/ c.config.sources[i].key \in c.overwritten
                                \/ sources[c.config.sources[i].key] = c.config.sources[i]

PlannedDocuments(config, sources, scope) ==
  {d \in Elements(config.documents) :
     /\ sources[d.source] # Nothing /\ Commands!InScope(scope, d.source)
     /\ d.enabled /\ Commands!Enabled(sources, d.source)}

PlanIsSound(c) ==
  c.pc = "planned" => c.selected = PlannedDocuments(c.config, c.seen, c.request.scope)

(* A cursor that was read as it was meant is that of the report.           *)
IsRead(c) ==
  \/ c.cursor = c.given.cursor
  \/ /\ c.request.scope # Nothing
     /\ c.cursor.source = c.request.scope /\ c.cursor.key = c.given.cursor.key

SyncIsSound(c) ==
  LET documents == Commands!Configured(c.config, c.request.scope)
  IN  /\ c.given = Nothing <=> c.cursor = Nothing
      /\ c.given # Nothing => ReportIsSound(c.given) /\ (Commands!Misread(c) \/ IsRead(c))
      /\ c.pc \in {"syncing", "synced"} =>
           /\ c.seen \in KnownRows
           /\ c.selected = Following(documents, c.cursor, c.request.limit)
           /\ c.cursor # Nothing => Marks(documents, c.cursor)
           /\ c.given # Nothing => c.given.fingerprint.documents = documents
           /\ c.given # Nothing => Commands!Misread(c) \/ c.cursor = c.given.cursor
      /\ c.pc = "CURSOR_NOT_FOUND" /\ c.given # Nothing => Commands!Misread(c)

CommandIsSound(c) == WayIsSound(c) /\ PlanIsSound(c) /\ SyncIsSound(c)

CommandInv ==
  /\ yaml \in YamlContents
  /\ sourceRows \in KnownRows
  /\ command \in [Operators -> CommandRecord]
  /\ lastReport \in Reports \cup {Nothing}
  /\ lastReport # Nothing => ReportIsSound(lastReport)
  /\ \A o \in Operators : CommandIsSound(command[o]) /\ LoadIsSound(command[o], sourceRows)

LEMMA CommandInvInit == Commands!CommandsInit => CommandInv
  <1> SUFFICES ASSUME Commands!CommandsInit PROVE CommandInv
    OBVIOUS
  <1> DEFINE idle == Commands!Idle
  <1>1. /\ sourceRows = [k \in SourceNames |-> Nothing] /\ lastReport = Nothing
        /\ command = [o \in Operators |-> idle] /\ yaml \in YamlContents
    BY DEF Commands!CommandsInit
  <1>2. idle \in CommandRecord
    <2>1. <<>> \in Selections
      BY EmptySeq DEF Selections
    <2>2. FALSE \in Answers
      BY DEF Answers
    <2>3. "idle" \in CommandSteps
      BY DEF CommandSteps
    <2> QED
      BY <2>1, <2>2, <2>3 DEF Commands!Idle, CommandRecord
  <1>3. idle.pc = "idle" /\ idle.at = 0 /\ idle.given = Nothing /\ idle.cursor = Nothing
    BY DEF Commands!Idle
  <1> HIDE DEF idle
  <1>4. CommandIsSound(idle) /\ LoadIsSound(idle, sourceRows)
    BY <1>3 DEF CommandIsSound, WayIsSound, PlanIsSound, SyncIsSound, LoadIsSound
  <1>5. sourceRows \in KnownRows
    BY <1>1 DEF KnownRows
  <1> QED
    BY <1>1, <1>2, <1>4, <1>5 DEF CommandInv

SoundCommand(c, sources) == c \in CommandRecord /\ CommandIsSound(c) /\ LoadIsSound(c, sources)

(* One command moves, the catalogue is left as it was, and a report that is*)
(* new is sound.                                                           *)
LEMMA OneMoves ==
  ASSUME CommandInv, NEW o \in Operators, NEW c, SoundCommand(c, sourceRows),
         command' = [command EXCEPT ![o] = c], sourceRows' = sourceRows,
         yaml' \in YamlContents,
         \/ lastReport' \in {lastReport, Nothing}
         \/ lastReport' \in Reports /\ ReportIsSound(lastReport')
  PROVE  CommandInv'
  <1>1. /\ yaml' \in YamlContents /\ sourceRows' \in KnownRows
        /\ lastReport' \in Reports \cup {Nothing} /\ (lastReport' # Nothing => ReportIsSound(lastReport'))
    BY DEF CommandInv
  <1>2. command' \in [Operators -> CommandRecord]
    BY DEF CommandInv, SoundCommand
  <1>3. ASSUME NEW p \in Operators
        PROVE  CommandIsSound(command'[p]) /\ LoadIsSound(command'[p], sourceRows')
    <2>1. CommandIsSound(command[p]) /\ LoadIsSound(command[p], sourceRows)
      BY DEF CommandInv
    <2>2. command'[p] = IF p = o THEN c ELSE command[p]
      BY DEF CommandInv
    <2> QED
      BY <2>1, <2>2 DEF SoundCommand
  <1> QED
    BY <1>1, <1>2, <1>3 DEF CommandInv

LEMMA OneMovesOnly ==
  ASSUME CommandInv, NEW o \in Operators, NEW c, SoundCommand(c, sourceRows),
         command' = [command EXCEPT ![o] = c], sourceRows' = sourceRows, yaml' = yaml,
         lastReport' = lastReport
  PROVE  CommandInv'
  <1>1. yaml' \in YamlContents
    BY DEF CommandInv
  <1> QED
    BY <1>1, OneMoves

(* One command writes a source: the others lose it.                        *)
LEMMA OneWrites ==
  ASSUME Commands!CommandsAssumption, CommandInv, NEW o \in Operators, NEW c,
         NEW source \in KnownSources, source.key \in SourceNames,
         sourceRows' = [sourceRows EXCEPT ![source.key] = source],
         SoundCommand(c, sourceRows'), Commands!Wrote(o, source.key, c),
         yaml' = yaml, lastReport' = lastReport
  PROVE  CommandInv'
  <1> DEFINE key == source.key
             loses(r) == [r EXCEPT !.overwritten = @ \cup {key}]
  <1>1. /\ yaml' \in YamlContents /\ sourceRows' \in KnownRows
        /\ lastReport' \in Reports \cup {Nothing} /\ (lastReport' # Nothing => ReportIsSound(lastReport'))
    BY DEF CommandInv, KnownRows
  <1>2. \A p \in Operators : command'[p] = IF p = o THEN c ELSE loses(command[p])
    BY DEF Commands!Wrote
  <1>3. command' = [p \in Operators |-> command'[p]]
    BY DEF Commands!Wrote
  <1>4. ASSUME NEW p \in Operators, p # o
        PROVE  SoundCommand(loses(command[p]), sourceRows')
    <2> DEFINE r == command[p]
               q == loses(r)
    <2>1. r \in CommandRecord /\ CommandIsSound(r) /\ LoadIsSound(r, sourceRows)
      BY DEF CommandInv
    <2>2. q \in CommandRecord
      BY <2>1 DEF CommandRecord
    <2>3. /\ q.pc = r.pc /\ q.request = r.request /\ q.config = r.config /\ q.seen = r.seen
          /\ q.at = r.at /\ q.given = r.given /\ q.cursor = r.cursor /\ q.selected = r.selected
          /\ q.overwritten = r.overwritten \cup {key}
      BY <2>1 DEF CommandRecord
    <2> HIDE DEF q, r
    <2>4. WayIsSound(q)
      BY <2>1, <2>3 DEF CommandIsSound, WayIsSound
    <2>5. PlanIsSound(q)
      BY <2>1, <2>3 DEF CommandIsSound, PlanIsSound
    <2>6. SyncIsSound(q)
      BY <2>1, <2>3 DEF CommandIsSound, SyncIsSound, Commands!Misread, IsRead
    <2>7. LoadIsSound(q, sourceRows')
      <3> SUFFICES ASSUME q.at # 0, q.request.op = "load-sources"
                   PROVE  /\ q.request \in CommandLines /\ q.config \in Configs
                          /\ q.at \in 1..(Len(q.config.sources) + 1)
                          /\ \A i \in 1..(q.at - 1) :
                               \/ q.config.sources[i].key \in q.overwritten
                               \/ sourceRows'[q.config.sources[i].key] = q.config.sources[i]
        BY DEF LoadIsSound
      <3>1. q.config \in Configs
        BY <2>1, <2>3 DEF LoadIsSound
      <3>2. q.request \in CommandLines /\ q.at \in 1..(Len(q.config.sources) + 1)
        BY <2>1, <2>3 DEF LoadIsSound
      <3>3. ASSUME NEW i \in 1..(q.at - 1)
            PROVE  \/ q.config.sources[i].key \in q.overwritten
                   \/ sourceRows'[q.config.sources[i].key] = q.config.sources[i]
        <4>1. \/ r.config.sources[i].key \in r.overwritten
              \/ sourceRows[r.config.sources[i].key] = r.config.sources[i]
          BY <2>1, <2>3 DEF LoadIsSound
        <4>2. i \in 1..Len(q.config.sources) /\ q.config.sources[i].key \in SourceNames
          <5>1. Len(q.config.sources) \in Nat
            BY <3>1, ConfigsAreSound
          <5>2. i \in 1..Len(q.config.sources)
            BY <3>2, <5>1
          <5> QED
            BY <3>1, <5>2, ConfigsAreSound
        <4>3. \A k \in SourceNames : k # key => sourceRows'[k] = sourceRows[k]
          BY DEF CommandInv, KnownRows
        <4> QED
          BY <2>3, <4>1, <4>2, <4>3
      <3> QED
        BY <3>1, <3>2, <3>3
    <2> QED
      BY <2>2, <2>4, <2>5, <2>6, <2>7 DEF SoundCommand, CommandIsSound, q, r
  <1> HIDE DEF loses
  <1>5. ASSUME NEW p \in Operators
        PROVE  SoundCommand(command'[p], sourceRows')
    BY <1>2, <1>4
  <1>6. command' \in [Operators -> CommandRecord]
    <2>1. \A p \in Operators : command'[p] \in CommandRecord
      BY <1>5 DEF SoundCommand
    <2> QED
      BY <1>3, <2>1
  <1>7. \A p \in Operators : CommandIsSound(command'[p]) /\ LoadIsSound(command'[p], sourceRows')
    BY <1>5 DEF SoundCommand
  <1> QED
    BY <1>1, <1>6, <1>7 DEF CommandInv

-----------------------------------------------------------------------------
(* A command ends without a result.                                        *)
LEMMA CommandEnds ==
  ASSUME NEW r, NEW sources, SoundCommand(r, sources), r.pc # "idle", NEW pc \in {"refused", "failed"}
  PROVE  SoundCommand([r EXCEPT !.pc = pc], sources)
  <1> DEFINE c == [r EXCEPT !.pc = pc]
  <1>1. r \in CommandRecord /\ CommandIsSound(r) /\ LoadIsSound(r, sources)
    BY DEF SoundCommand
  <1>2. c \in CommandRecord
    BY <1>1 DEF CommandRecord, CommandSteps
  <1>3. /\ c.pc = pc /\ c.request = r.request /\ c.config = r.config /\ c.at = r.at
        /\ c.given = r.given /\ c.cursor = r.cursor /\ c.overwritten = r.overwritten
    BY <1>1 DEF CommandRecord
  <1> HIDE DEF c
  <1>4. WayIsSound(c)
    BY <1>1, <1>3 DEF CommandIsSound, WayIsSound
  <1>5. PlanIsSound(c)
    BY <1>3 DEF PlanIsSound
  <1>6. SyncIsSound(c)
    BY <1>1, <1>3 DEF CommandIsSound, SyncIsSound, Commands!Misread, IsRead
  <1>7. LoadIsSound(c, sources)
    BY <1>1, <1>3 DEF LoadIsSound
  <1> QED
    BY <1>2, <1>4, <1>5, <1>6, <1>7 DEF SoundCommand, CommandIsSound, c

(* A load goes on to the next source.                                      *)
LEMMA CommandAdvances ==
  ASSUME Commands!CommandsAssumption, NEW r, NEW sources, NEW earlier, SoundCommand(r, earlier),
         r.pc \in {"load", "write"}, NEW key, key = r.config.sources[r.at].key,
         \A k \in SourceNames : k # key => sources[k] = earlier[k],
         sources[key] = r.config.sources[r.at]
  PROVE  SoundCommand(Commands!Advanced(r, key), sources)
  <1> DEFINE c == Commands!Advanced(r, key)
             n == Len(r.config.sources)
  <1>1. r \in CommandRecord /\ CommandIsSound(r) /\ LoadIsSound(r, earlier)
    BY DEF SoundCommand
  <1>2. /\ r.config \in Configs /\ r.request.op = "load-sources" /\ r.at \in 1..n
        /\ r.request \in CommandLines /\ n \in Nat \ {0}
    BY <1>1, ConfigsAreSound DEF CommandIsSound, WayIsSound
  <1>3. PICK pc \in {"load", "loaded"} : pc = IF r.at = n THEN "loaded" ELSE "load"
    OBVIOUS
  <1>4. PICK at \in 1..(n + 1) : at = r.at + 1
    BY <1>2
  <1> DEFINE moved(isNew) ==
        [r EXCEPT !.at = at, !.overwritten = @ \ {key}, !.isNew = isNew, !.pc = pc]
  <1>5. PICK isNew \in Answers : c = moved(isNew)
    <2>1. FALSE \in Answers
      BY DEF Answers
    <2>2. c = moved(FALSE)
      BY <1>3, <1>4 DEF Commands!Advanced
    <2> HIDE DEF moved, c
    <2> QED
      BY <2>1, <2>2
  <1>6. /\ c.pc = pc /\ c.request = r.request /\ c.config = r.config /\ c.at = at
        /\ c.given = r.given /\ c.cursor = r.cursor /\ c.overwritten = r.overwritten \ {key}
    BY <1>1, <1>5 DEF CommandRecord
  <1>7. c \in CommandRecord
    <2>1. PICK left \in SUBSET SourceNames : left = r.overwritten \ {key}
      BY <1>1 DEF CommandRecord
    <2>2. pc \in CommandSteps /\ at \in Nat
      BY <1>2, <1>3, <1>4 DEF CommandSteps
    <2> DEFINE r1 == [r EXCEPT !.at = at]
               r2 == [r1 EXCEPT !.overwritten = left]
               r3 == [r2 EXCEPT !.isNew = isNew]
    <2>3. r1 \in CommandRecord
      BY <1>1, <2>2 DEF CommandRecord
    <2>4. [r EXCEPT !.at = at, !.overwritten = left, !.isNew = isNew, !.pc = pc]
            = [r3 EXCEPT !.pc = pc]
      OBVIOUS
    <2> HIDE DEF r1
    <2>5. r2 \in CommandRecord
      BY <2>3 DEF CommandRecord
    <2> HIDE DEF r2
    <2>6. r3 \in CommandRecord
      BY <2>5 DEF CommandRecord
    <2> HIDE DEF r3
    <2>7. [r3 EXCEPT !.pc = pc] \in CommandRecord
      BY <2>2, <2>6 DEF CommandRecord
    <2> QED
      BY <1>5, <2>1, <2>4, <2>7
  <1> HIDE DEF c
  <1>8. WayIsSound(c)
    <2>1. pc = "load" => at \in 1..n
      BY <1>2, <1>3, <1>4
    <2> QED
      BY <1>2, <1>3, <1>6, <2>1 DEF WayIsSound
  <1>9. PlanIsSound(c)
    BY <1>3, <1>6 DEF PlanIsSound
  <1>10. SyncIsSound(c)
    BY <1>1, <1>3, <1>6 DEF CommandIsSound, SyncIsSound, Commands!Misread, IsRead
  <1>11. LoadIsSound(c, sources)
    <2>1. ASSUME NEW i \in 1..(c.at - 1)
          PROVE  \/ c.config.sources[i].key \in c.overwritten
                 \/ sources[c.config.sources[i].key] = c.config.sources[i]
      <3>1. i \in 1..n /\ (i = r.at \/ i \in 1..(r.at - 1)) /\ r.config.sources[i].key \in SourceNames
        <4>1. i \in 1..n /\ (i = r.at \/ i \in 1..(r.at - 1))
          BY <1>2, <1>4, <1>6
        <4> QED
          BY <1>2, <4>1, ConfigsAreSound
      <3>2. CASE i = r.at
        BY <1>6, <3>2
      <3>3. CASE i # r.at
        <4>1. r.config.sources[i].key # key
          BY <1>2, <3>1, <3>3, ConfigsAreSound
        <4>2. \/ r.config.sources[i].key \in r.overwritten
              \/ earlier[r.config.sources[i].key] = r.config.sources[i]
          BY <1>1, <1>2, <3>1, <3>3 DEF LoadIsSound
        <4> QED
          BY <1>6, <3>1, <4>1, <4>2
      <3> QED
        BY <3>2, <3>3
    <2> QED
      BY <1>2, <1>4, <1>6, <2>1 DEF LoadIsSound
  <1> QED
    BY <1>7, <1>8, <1>9, <1>10, <1>11 DEF SoundCommand, CommandIsSound, c

(* A sound report names a document, whose source has a key of one piece.   *)
LEMMA ReportedCursor ==
  ASSUME Commands!CommandsAssumption, NEW r \in Reports, ReportIsSound(r)
  PROVE  /\ r.fingerprint.documents \in Seq(KnownDocuments)
         /\ r.cursor \in Cursors
         /\ Len(r.cursor.source) = 1 /\ Len(r.cursor.key) \in Nat \ {0}
  <1>1. PICK q \in Seq(KnownDocuments) \X KnownRows : r.fingerprint = Commands!Fingerprint(q[1], q[2])
    BY DEF Reports, Fingerprints
  <1>2. r.fingerprint.documents = q[1] /\ q[1] \in Seq(KnownDocuments)
    BY <1>1 DEF Commands!Fingerprint
  <1>3. PICK i \in 1..Len(q[1]) : q[1][i].source = r.cursor.source /\ q[1][i].key = r.cursor.key
    BY <1>2 DEF ReportIsSound, Marks
  <1>4. q[1][i] \in KnownDocuments
    BY <1>2
  <1>5. r.cursor \in Cursors
    BY DEF Reports
  <1>6. r.cursor.key # <<>> /\ Len(r.cursor.source) = 1 /\ r.cursor.key \in Seq(KeyPieces)
    BY <1>3, <1>4, KnownDocumentsHaveKeys
  <1> QED
    BY <1>2, <1>5, <1>6

LEMMA HeadAndTail ==
  ASSUME NEW S, NEW a \in Seq(S), NEW b \in Seq(S), Len(a) = 1
  PROVE  /\ a \o b \in Seq(S) /\ Len(a \o b) = 1 + Len(b)
         /\ <<Head(a \o b)>> = a /\ Tail(a \o b) = b
  <1> DEFINE s == a \o b
  <1>1. /\ s \in Seq(S) /\ Len(s) = 1 + Len(b) /\ Len(b) \in Nat
        /\ \A i \in 1..Len(s) : s[i] = IF i <= 1 THEN a[i] ELSE b[i - 1]
    BY ConcatProperties
  <1> HIDE DEF s
  <1>2. s # <<>> /\ s[1] = a[1]
    BY <1>1
  <1>3. /\ Head(s) = a[1] /\ Tail(s) \in Seq(S) /\ Len(Tail(s)) = Len(b)
        /\ \A i \in 1..Len(Tail(s)) : Tail(s)[i] = s[i + 1]
    BY <1>1, <1>2, HeadTailProperties
  <1>4. \A i \in 1..Len(b) : Tail(s)[i] = b[i]
    <2> SUFFICES ASSUME NEW i \in 1..Len(b) PROVE Tail(s)[i] = b[i]
      OBVIOUS
    <2>1. Tail(s)[i] = s[i + 1]
      BY <1>3
    <2>2. i + 1 \in 1..Len(s) /\ ~(i + 1 <= 1) /\ (i + 1) - 1 = i
      BY <1>1
    <2> QED
      BY <1>1, <2>1, <2>2
  <1>5. Tail(s) = b
    BY <1>1, <1>3, <1>4, SeqEqual
  <1>6. <<Head(s)>> = a
    BY <1>3
  <1> QED
    BY <1>1, <1>5, <1>6 DEF s

(* The text of a cursor is read as the cursor, but for the short form of a *)
(* key of several pieces.                                                  *)
LEMMA CursorIsRead ==
  ASSUME Commands!CommandsAssumption, NEW request \in CommandLines, request.resume # "no",
         Commands!AcceptsArguments(request), lastReport \in Reports, ReportIsSound(lastReport)
  PROVE  LET cursor == Commands!ParseResumeAfter(Commands!CursorText(request), request.scope)
         IN  /\ cursor \in Cursors
             /\ \/ request.resume = "short" /\ Len(lastReport.cursor.key) > 1
                \/ cursor = lastReport.cursor
                \/ /\ request.scope # Nothing
                   /\ cursor.source = request.scope /\ cursor.key = lastReport.cursor.key
  <1> DEFINE text == Commands!CursorText(request)
             cursor == Commands!ParseResumeAfter(text, request.scope)
             source == lastReport.cursor.source
             key == lastReport.cursor.key
  <1>1. /\ request.op = "sync" /\ request.scope \in SourceNames \cup {Nothing}
        /\ request.resume \in {"full", "short"}
        /\ Len(text) > 1 \/ request.scope # Nothing
    BY DEF Commands!CommandsAssumption, Commands!AcceptsArguments
  <1>2. /\ lastReport.cursor \in Cursors /\ source \in Seq(KeyPieces) /\ key \in Seq(KeyPieces)
        /\ Len(source) = 1 /\ Len(key) \in Nat \ {0}
    BY ReportedCursor DEF Cursors
  <1>3. cursor = IF Len(text) = 1 THEN [source |-> request.scope, key |-> text]
                 ELSE [source |-> <<Head(text)>>, key |-> Tail(text)]
    BY DEF Commands!ParseResumeAfter
  <1>4. CASE request.resume = "full"
    <2>1. text = source \o key
      BY <1>4 DEF Commands!CursorText
    <2>2. PICK a, b \in Seq(KeyPieces) : a = source /\ b = key
      BY <1>2
    <2>3. /\ a \o b \in Seq(KeyPieces) /\ Len(a \o b) = 1 + Len(b)
          /\ <<Head(a \o b)>> = a /\ Tail(a \o b) = b
      <3>1. Len(a) = 1
        BY <1>2, <2>2
      <3> QED
        BY <3>1, HeadAndTail
    <2>4. text = a \o b
      BY <2>1, <2>2
    <2>7. Len(text) # 1 /\ <<Head(text)>> = source /\ Tail(text) = key
      <3>1. Len(b) \in Nat \ {0}
        BY <1>2, <2>2
      <3>2. Len(text) = 1 + Len(b) /\ <<Head(text)>> = a /\ Tail(text) = b
        BY <2>3, <2>4, Zenon
      <3> QED
        BY <2>2, <3>1, <3>2
    <2>5. cursor = [source |-> source, key |-> key]
      BY <1>3, <2>7
    <2>6. lastReport.cursor = [source |-> source, key |-> key]
      BY <1>2 DEF Cursors
    <2> QED
      BY <1>2, <2>5, <2>6
  <1>5. CASE request.resume = "short"
    <2>1. text = key
      BY <1>5 DEF Commands!CursorText
    <2>2. CASE Len(key) = 1
      <3>1. request.scope \in SourceNames /\ request.scope # Nothing
        BY <1>1, <2>1, <2>2
      <3>2. request.scope \in Seq(KeyPieces)
        BY <3>1 DEF Commands!CommandsAssumption
      <3>3. cursor = [source |-> request.scope, key |-> key]
        BY <1>3, <2>1, <2>2
      <3> QED
        BY <1>2, <3>1, <3>2, <3>3 DEF Cursors
    <2>3. CASE Len(key) # 1
      <3>1. cursor = [source |-> <<Head(key)>>, key |-> Tail(key)]
        BY <1>3, <2>1, <2>3
      <3>2. Head(key) \in KeyPieces /\ Tail(key) \in Seq(KeyPieces) /\ Len(key) > 1
        BY <1>2, <2>3
      <3>3. <<Head(key)>> \in Seq(KeyPieces)
        BY <3>2
      <3>4. cursor \in Cursors
        BY <3>1, <3>2, <3>3 DEF Cursors
      <3> QED
        BY <1>5, <3>2, <3>4
    <2> QED
      BY <2>2, <2>3
  <1> QED
    BY <1>1, <1>4, <1>5

(* A command that starts knows its request and what it resumes.            *)
Started(pc, request, given, cursor) ==
  [pc |-> pc, request |-> request, config |-> Nothing, seen |-> Nothing, at |-> 0,
   isNew |-> FALSE, overwritten |-> {}, given |-> given, cursor |-> cursor,
   selected |-> <<>>]

StartsAs(pc, request, given, cursor) ==
  /\ [Commands!Idle EXCEPT !.pc = pc, !.request = request]
       = Started(pc, request, Nothing, Nothing)
  /\ [Commands!Idle EXCEPT !.pc = pc, !.request = request, !.given = given,
        !.cursor = cursor] = Started(pc, request, given, cursor)

LEMMA StartedCommand ==
  ASSUME NEW pc, NEW request, NEW given, NEW cursor
  PROVE  StartsAs(pc, request, given, cursor)
  <1> DEFINE zero == 0
             no == FALSE
             nobody == {}
             empty == <<>>
             S(p, q, g, k) ==
               [pc |-> p, request |-> q, config |-> Nothing, seen |-> Nothing, at |-> zero,
                isNew |-> no, overwritten |-> nobody, given |-> g, cursor |-> k,
                selected |-> empty]
             c1 == [Commands!Idle EXCEPT !.pc = pc]
             c2 == [c1 EXCEPT !.request = request]
             c3 == [c2 EXCEPT !.given = given]
             c4 == [c3 EXCEPT !.cursor = cursor]
  <1>1. Commands!Idle = S("idle", Nothing, Nothing, Nothing)
    BY Zenon DEF Commands!Idle
  <1> HIDE DEF zero, no, nobody, empty
  <1>2. c1 = S(pc, Nothing, Nothing, Nothing)
    BY <1>1
  <1> HIDE DEF c1
  <1>3. c2 = S(pc, request, Nothing, Nothing)
    BY <1>2
  <1> HIDE DEF c2
  <1>4. c3 = S(pc, request, given, Nothing)
    BY <1>3
  <1> HIDE DEF c3
  <1>5. c4 = S(pc, request, given, cursor)
    BY <1>4
  <1>6. \A g, k : S(pc, request, g, k) = Started(pc, request, g, k)
    BY Zenon DEF Started, zero, no, nobody, empty
  <1> QED
    BY <1>3, <1>5, <1>6, Zenon DEF StartsAs, c1, c2, c3, c4

LEMMA StartedIsSound ==
  ASSUME NEW sources, NEW request \in CommandLines, NEW pc \in {"refused", "add", "preload"},
         pc = "add" => request.op = "add-source",
         pc = "preload" => request.op \in {"load-sources", "dry-run", "sync"},
         NEW given \in Reports \cup {Nothing}, NEW cursor \in Cursors \cup {Nothing},
         given = Nothing <=> cursor = Nothing,
         given # Nothing => ReportIsSound(given),
         given # Nothing =>
           \/ request.resume = "short" /\ Len(given.cursor.key) > 1
           \/ cursor = given.cursor
           \/ /\ request.scope # Nothing
              /\ cursor.source = request.scope /\ cursor.key = given.cursor.key
  PROVE  SoundCommand(Started(pc, request, given, cursor), sources)
  <1> DEFINE c == Started(pc, request, given, cursor)
  <1>1. PICK isNew \in Answers :
          c = [pc |-> pc, request |-> request, config |-> Nothing, seen |-> Nothing, at |-> 0,
               isNew |-> isNew, overwritten |-> {}, given |-> given, cursor |-> cursor,
               selected |-> <<>>]
    <2>1. FALSE \in Answers
      BY DEF Answers
    <2> QED
      BY <2>1, Zenon DEF Started
  <1> HIDE DEF c
  <1>2. c \in CommandRecord
    <2>1. <<>> \in Selections
      BY EmptySeq DEF Selections
    <2>2. pc \in CommandSteps
      BY DEF CommandSteps
    <2> QED
      BY <1>1, <2>1, <2>2 DEF CommandRecord
  <1>3. /\ c.pc = pc /\ c.request = request /\ c.at = 0 /\ c.given = given /\ c.cursor = cursor
    BY <1>1
  <1>4. WayIsSound(c)
    BY <1>3 DEF WayIsSound
  <1>5. PlanIsSound(c) /\ LoadIsSound(c, sources)
    BY <1>3 DEF PlanIsSound, LoadIsSound
  <1>6. SyncIsSound(c)
    BY <1>3 DEF SyncIsSound, Commands!Misread, IsRead
  <1> QED
    BY <1>2, <1>4, <1>5, <1>6 DEF SoundCommand, CommandIsSound, c

LEMMA StartIsSound ==
  ASSUME Commands!CommandsAssumption, CommandInv, NEW o \in Operators,
         NEW request \in CommandLines, Commands!Start(o, request)
  PROVE  CommandInv'
  <1> DEFINE resumed == request.resume # "no"
             begun == [Commands!Idle EXCEPT !.pc = Commands!FirstStep(request), !.request = request,
               !.given = IF request.resume = "no" THEN Nothing ELSE lastReport,
               !.cursor = IF request.resume = "no" THEN Nothing
                          ELSE Commands!ParseResumeAfter(Commands!CursorText(request), request.scope)]
             refused == [Commands!Idle EXCEPT !.pc = "refused", !.request = request]
             c == IF ~Commands!AcceptsArguments(request) THEN refused ELSE begun
  <1>1. /\ command' = [command EXCEPT ![o] = c] /\ (resumed => lastReport # Nothing)
        /\ sourceRows' = sourceRows /\ yaml' = yaml /\ lastReport' = lastReport
    BY DEF Commands!Start
  <1>2. request.op \in {"load-sources", "add-source", "dry-run", "sync"}
    BY DEF Commands!CommandsAssumption
  <1>3. CASE ~Commands!AcceptsArguments(request)
    <2>1. refused = Started("refused", request, Nothing, Nothing)
      <3>1. StartsAs("refused", request, Nothing, Nothing)
        BY StartedCommand
      <3> QED
        BY <3>1, Zenon DEF StartsAs
    <2>2. SoundCommand(Started("refused", request, Nothing, Nothing), sourceRows)
      BY StartedIsSound
    <2>3. c = refused
      BY <1>3
    <2> HIDE DEF c, refused
    <2> QED
      BY <1>1, <2>1, <2>2, <2>3, OneMovesOnly
  <1>4. CASE Commands!AcceptsArguments(request)
    <2>1. PICK pc \in {"add", "preload"} :
            /\ pc = Commands!FirstStep(request) /\ (pc = "add" => request.op = "add-source")
            /\ pc = "preload" => request.op \in {"load-sources", "dry-run", "sync"}
      BY <1>2 DEF Commands!FirstStep
    <2>2. SoundCommand(begun, sourceRows)
      <3>1. CASE ~resumed
        <4>1. begun = [Commands!Idle EXCEPT !.pc = pc, !.request = request,
                         !.given = Nothing, !.cursor = Nothing]
          BY <2>1, <3>1
        <4>2. SoundCommand(Started(pc, request, Nothing, Nothing), sourceRows)
          BY <2>1, StartedIsSound
        <4>3. begun = Started(pc, request, Nothing, Nothing)
          <5>1. StartsAs(pc, request, Nothing, Nothing)
            BY StartedCommand
          <5> HIDE DEF begun
          <5> QED
            BY <4>1, <5>1, Zenon DEF StartsAs
        <4> QED
          BY <4>2, <4>3, Zenon
      <3>2. CASE resumed
        <4> DEFINE cursor ==
              Commands!ParseResumeAfter(Commands!CursorText(request), request.scope)
        <4>1. lastReport \in Reports /\ lastReport # Nothing /\ ReportIsSound(lastReport)
          BY <1>1, <3>2 DEF CommandInv
        <4>2. /\ cursor \in Cursors
              /\ \/ request.resume = "short" /\ Len(lastReport.cursor.key) > 1
                 \/ cursor = lastReport.cursor
                 \/ /\ request.scope # Nothing
                    /\ cursor.source = request.scope /\ cursor.key = lastReport.cursor.key
          BY <1>4, <3>2, <4>1, CursorIsRead
        <4>3. cursor # Nothing
          BY <4>2 DEF Commands!CommandsAssumption, Cursors
        <4>4. begun = [Commands!Idle EXCEPT !.pc = pc, !.request = request,
                         !.given = lastReport, !.cursor = cursor]
          BY <2>1, <3>2
        <4> HIDE DEF cursor, begun
        <4>5. SoundCommand(Started(pc, request, lastReport, cursor), sourceRows)
          BY <2>1, <4>1, <4>2, <4>3, StartedIsSound
        <4>6. [Commands!Idle EXCEPT !.pc = pc, !.request = request, !.given = lastReport,
                 !.cursor = cursor] = Started(pc, request, lastReport, cursor)
          <5>1. StartsAs(pc, request, lastReport, cursor)
            BY StartedCommand
          <5> QED
            BY <5>1, Zenon DEF StartsAs
        <4> QED
          BY <4>4, <4>5, <4>6, Zenon
      <3> QED
        BY <3>1, <3>2
    <2>3. c = begun
      BY <1>4
    <2> HIDE DEF c, begun
    <2> QED
      BY <1>1, <2>2, <2>3, OneMovesOnly
  <1> QED
    BY <1>3, <1>4

LEMMA OneCommand ==
  ASSUME CommandInv, NEW o \in Operators
  PROVE  SoundCommand(command[o], sourceRows)
  BY DEF CommandInv, SoundCommand

LEMMA PreloadIsSound ==
  ASSUME Commands!CommandsAssumption, CommandInv, NEW o \in Operators, Commands!Preload(o)
  PROVE  CommandInv'
  <1> DEFINE r == command[o]
             config == Commands!Parsed(yaml)
             read == [r EXCEPT !.pc = Commands!NextStep(r.request.op), !.config = config, !.at = 1]
             refused == [r EXCEPT !.pc = "refused"]
  <1>1. r.pc = "preload" /\ SoundCommand(r, sourceRows)
    BY OneCommand DEF Commands!Preload
  <1>2. /\ r \in CommandRecord /\ CommandIsSound(r) /\ r.request \in CommandLines
        /\ r.request.op \in {"load-sources", "dry-run", "sync"}
    BY <1>1 DEF SoundCommand, CommandIsSound, WayIsSound
  <1>3. /\ sourceRows' = sourceRows /\ yaml' = yaml /\ lastReport' = lastReport
        /\ command' = [command EXCEPT ![o] = IF Commands!AcceptsFile(yaml) THEN read ELSE refused]
    BY DEF Commands!Preload
  <1>4. CASE ~Commands!AcceptsFile(yaml)
    <2>1. SoundCommand(refused, sourceRows)
      BY <1>1, CommandEnds
    <2>2. command' = [command EXCEPT ![o] = refused]
      BY <1>3, <1>4
    <2> HIDE DEF refused
    <2> QED
      BY <1>3, <2>1, <2>2, OneMovesOnly
  <1>5. CASE Commands!AcceptsFile(yaml)
    <2>1. config \in Configs
      BY <1>5 DEF CommandInv, Configs, AcceptedContents
    <2>2. PICK pc \in {"load", "plan", "sync"} :
            /\ pc = Commands!NextStep(r.request.op)
            /\ pc = "load" => r.request.op = "load-sources"
            /\ pc = "plan" => r.request.op = "dry-run"
            /\ pc = "sync" => r.request.op = "sync"
      BY <1>2 DEF Commands!NextStep
    <2> DEFINE c == [r EXCEPT !.pc = pc, !.config = config, !.at = 1]
    <2>3. c = read
      BY <2>2
    <2> HIDE DEF config, r
    <2>4. c \in CommandRecord
      BY <1>2, <2>1 DEF CommandRecord, CommandSteps
    <2>5. /\ c.pc = pc /\ c.request = r.request /\ c.config = config /\ c.at = 1
          /\ c.given = r.given /\ c.cursor = r.cursor
      BY <1>2 DEF CommandRecord
    <2> HIDE DEF c
    <2>6. Len(config.sources) \in Nat \ {0}
      BY <2>1, ConfigsAreSound
    <2>7. WayIsSound(c)
      BY <1>2, <2>1, <2>2, <2>5, <2>6 DEF WayIsSound
    <2>8. PlanIsSound(c)
      BY <2>5 DEF PlanIsSound
    <2>9. SyncIsSound(c)
      BY <1>2, <2>5 DEF CommandIsSound, SyncIsSound, Commands!Misread, IsRead
    <2>10. LoadIsSound(c, sourceRows)
      BY <1>2, <2>1, <2>5, <2>6 DEF LoadIsSound
    <2>11. SoundCommand(c, sourceRows)
      BY <2>4, <2>7, <2>8, <2>9, <2>10 DEF SoundCommand, CommandIsSound
    <2>12. command' = [command EXCEPT ![o] = c]
      BY <1>3, <1>5, <2>3
    <2> QED
      BY <1>3, <2>11, <2>12, OneMovesOnly
  <1> QED
    BY <1>4, <1>5

-----------------------------------------------------------------------------
(* What a load is about to write.                                          *)
LEMMA DesiredIsKnown ==
  ASSUME Commands!CommandsAssumption, CommandInv, NEW o \in Operators,
         command[o].pc \in {"load", "write"}
  PROVE  /\ Commands!Desired(o) = command[o].config.sources[command[o].at]
         /\ Commands!Desired(o) \in KnownSources /\ Commands!Desired(o).key \in SourceNames
  <1> DEFINE r == command[o]
  <1>1. r.config \in Configs /\ r.at \in 1..Len(r.config.sources)
    BY OneCommand DEF SoundCommand, CommandIsSound, WayIsSound
  <1>2. Commands!Desired(o) = r.config.sources[r.at]
    BY DEF Commands!Desired
  <1> QED
    BY <1>1, <1>2, ConfigsAreSound

LEMMA LookUpIsSound ==
  ASSUME Commands!CommandsAssumption, CommandInv, NEW o \in Operators, Commands!LookUp(o)
  PROVE  CommandInv'
  <1> DEFINE r == command[o]
             source == Commands!Desired(o)
             key == source.key
             found == sourceRows[key] # Nothing /\ Commands!SourceMatches(sourceRows[key], source)
             writes == [r EXCEPT !.pc = "write", !.isNew = (sourceRows[key] = Nothing)]
  <1>1. r.pc = "load" /\ SoundCommand(r, sourceRows)
    BY OneCommand DEF Commands!LookUp
  <1>2. r \in CommandRecord /\ CommandIsSound(r) /\ LoadIsSound(r, sourceRows)
    BY <1>1 DEF SoundCommand
  <1>3. /\ sourceRows' = sourceRows /\ yaml' = yaml /\ lastReport' = lastReport
        /\ command' = [command EXCEPT ![o] = IF found THEN Commands!Advanced(r, key) ELSE writes]
    BY DEF Commands!LookUp
  <1>4. source = r.config.sources[r.at] /\ key \in SourceNames
    BY <1>1, DesiredIsKnown
  <1>5. CASE found
    <2>1. sourceRows[key] = r.config.sources[r.at] /\ key = r.config.sources[r.at].key
      BY <1>4, <1>5 DEF Commands!SourceMatches
    <2>2. command' = [command EXCEPT ![o] = Commands!Advanced(r, key)]
      BY <1>3, <1>5
    <2> HIDE DEF key, source, r
    <2>3. SoundCommand(Commands!Advanced(r, key), sourceRows)
      BY <1>1, <2>1, CommandAdvances
    <2> QED
      BY <1>3, <2>2, <2>3, OneMovesOnly
  <1>6. CASE ~found
    <2>1. PICK isNew \in Answers : writes = [r EXCEPT !.pc = "write", !.isNew = isNew]
      <3>1. (sourceRows[key] = Nothing) \in Answers
        BY Zenon DEF Answers
      <3> QED
        BY <3>1, Zenon
    <2> DEFINE c == [r EXCEPT !.pc = "write", !.isNew = isNew]
    <2>2. command' = [command EXCEPT ![o] = c]
      BY <1>3, <1>6, <2>1
    <2> HIDE DEF r, found, writes
    <2>3. c \in CommandRecord
      BY <1>2 DEF CommandRecord, CommandSteps
    <2>4. /\ c.pc = "write" /\ c.request = r.request /\ c.config = r.config /\ c.at = r.at
          /\ c.given = r.given /\ c.cursor = r.cursor /\ c.overwritten = r.overwritten
      BY <1>2 DEF CommandRecord
    <2> HIDE DEF c
    <2>5. WayIsSound(c)
      BY <1>1, <1>2, <2>4 DEF CommandIsSound, WayIsSound
    <2>6. PlanIsSound(c)
      BY <2>4 DEF PlanIsSound
    <2>7. SyncIsSound(c)
      BY <1>2, <2>4 DEF CommandIsSound, SyncIsSound, Commands!Misread, IsRead
    <2>8. LoadIsSound(c, sourceRows)
      BY <1>2, <2>4 DEF LoadIsSound
    <2>9. SoundCommand(c, sourceRows)
      BY <2>3, <2>5, <2>6, <2>7, <2>8 DEF SoundCommand, CommandIsSound
    <2> QED
      BY <1>3, <2>2, <2>9, OneMovesOnly
  <1> QED
    BY <1>5, <1>6

LEMMA WriteSourceIsSound ==
  ASSUME Commands!CommandsAssumption, CommandInv, NEW o \in Operators, Commands!WriteSource(o)
  PROVE  CommandInv'
  <1> DEFINE r == command[o]
             source == Commands!Desired(o)
             key == source.key
  <1>1. r.pc = "write" /\ SoundCommand(r, sourceRows)
    BY OneCommand DEF Commands!WriteSource
  <1>2. source = r.config.sources[r.at] /\ key \in SourceNames /\ source \in KnownSources
    BY <1>1, DesiredIsKnown
  <1>3. yaml' = yaml /\ lastReport' = lastReport
    BY DEF Commands!WriteSource
  <1>4. CASE r.isNew /\ sourceRows[key] # Nothing
    <2> DEFINE c == [r EXCEPT !.pc = "failed"]
    <2>1. command' = [command EXCEPT ![o] = c] /\ sourceRows' = sourceRows
      BY <1>4 DEF Commands!WriteSource
    <2>2. SoundCommand(c, sourceRows)
      BY <1>1, CommandEnds
    <2> HIDE DEF c
    <2> QED
      BY <1>3, <2>1, <2>2, OneMovesOnly
  <1>5. CASE ~(r.isNew /\ sourceRows[key] # Nothing)
    <2> DEFINE c == Commands!Advanced(r, key)
    <2>1. sourceRows' = [sourceRows EXCEPT ![key] = source] /\ Commands!Wrote(o, key, c)
      BY <1>5 DEF Commands!WriteSource
    <2>2. sourceRows' [key] = source /\ \A k \in SourceNames : k # key => sourceRows'[k] = sourceRows[k]
      BY <1>2, <2>1 DEF CommandInv, KnownRows
    <2> HIDE DEF r, source
    <2>3. SoundCommand(c, sourceRows')
      BY <1>1, <1>2, <2>2, CommandAdvances
    <2> HIDE DEF c
    <2> QED
      BY <1>2, <1>3, <2>1, <2>3, OneWrites
  <1> QED
    BY <1>4, <1>5

LEMMA AddSourceIsSound ==
  ASSUME Commands!CommandsAssumption, CommandInv, NEW o \in Operators, Commands!AddSource(o)
  PROVE  CommandInv'
  <1> DEFINE r == command[o]
             source == Commands!ParsedSource(r.request.source)
             key == Commands!Trim(r.request.source.key)
             ends(pc) == [r EXCEPT !.pc = pc]
  <1>1. r.pc = "add" /\ SoundCommand(r, sourceRows)
    BY OneCommand DEF Commands!AddSource
  <1>2. /\ r \in CommandRecord /\ CommandIsSound(r) /\ LoadIsSound(r, sourceRows)
        /\ r.request \in CommandLines /\ r.request.op = "add-source"
    BY <1>1 DEF SoundCommand, CommandIsSound, WayIsSound
  <1>3. yaml' = yaml /\ lastReport' = lastReport
    BY DEF Commands!AddSource
  <1>4. source.key = key /\ source \in KnownSources /\ key \in SourceNames
    <2>1. r.request.source \in {x.source : x \in {y \in CommandLines : y.op = "add-source"}}
      BY <1>2
    <2>2. source \in KnownSources
      BY <2>1 DEF KnownSources
    <2>3. key \in SourceNames
      BY <1>2 DEF Commands!CommandsAssumption
    <2> QED
      BY <2>2, <2>3 DEF Commands!ParsedSource
  <1>5. \/ \E pc \in {"refused", "failed"} :
             command' = [command EXCEPT ![o] = ends(pc)] /\ sourceRows' = sourceRows
        \/ /\ sourceRows' = [sourceRows EXCEPT ![key] = source]
           /\ Commands!Wrote(o, key, ends("loaded"))
    BY DEF Commands!AddSource
  <1>6. ASSUME NEW pc \in {"refused", "failed"},
               command' = [command EXCEPT ![o] = ends(pc)], sourceRows' = sourceRows
        PROVE  CommandInv'
    <2>1. SoundCommand(ends(pc), sourceRows)
      BY <1>1, CommandEnds
    <2> HIDE DEF ends
    <2> QED
      BY <1>3, <1>6, <2>1, OneMovesOnly
  <1>7. ASSUME sourceRows' = [sourceRows EXCEPT ![key] = source],
               Commands!Wrote(o, key, ends("loaded"))
        PROVE  CommandInv'
    <2> DEFINE c == ends("loaded")
    <2> HIDE DEF r, source, key
    <2>1. c \in CommandRecord
      BY <1>2 DEF CommandRecord, CommandSteps
    <2>2. /\ c.pc = "loaded" /\ c.request = r.request /\ c.config = r.config /\ c.at = r.at
          /\ c.given = r.given /\ c.cursor = r.cursor
      BY <1>2 DEF CommandRecord
    <2>3. Commands!Wrote(o, key, c)
      BY <1>7
    <2> HIDE DEF c, ends
    <2>4. WayIsSound(c)
      BY <1>2, <2>2 DEF WayIsSound
    <2>5. PlanIsSound(c)
      BY <2>2 DEF PlanIsSound
    <2>6. SyncIsSound(c)
      BY <1>2, <2>2 DEF CommandIsSound, SyncIsSound, Commands!Misread, IsRead
    <2>7. LoadIsSound(c, sourceRows')
      BY <1>2, <2>2 DEF LoadIsSound
    <2>8. SoundCommand(c, sourceRows')
      BY <2>1, <2>4, <2>5, <2>6, <2>7 DEF SoundCommand, CommandIsSound
    <2> QED
      BY <1>3, <1>4, <1>7, <2>3, <2>8, OneWrites
  <1> QED
    BY <1>5, <1>6, <1>7

LEMMA PlanIsRight ==
  ASSUME Commands!CommandsAssumption, CommandInv, NEW o \in Operators, Commands!Plan(o)
  PROVE  CommandInv'
  <1> DEFINE r == command[o]
             scope == r.request.scope
             chosen == {k \in SourceNames : sourceRows[k] # Nothing /\ Commands!InScope(scope, k)}
             planned == UNION {Commands!PlannedOf(r.config, sourceRows, k) : k \in chosen}
             failed == [r EXCEPT !.pc = "failed"]
             c == [r EXCEPT !.pc = "planned", !.seen = sourceRows, !.selected = planned]
  <1>1. r.pc = "plan" /\ SoundCommand(r, sourceRows)
    BY OneCommand DEF Commands!Plan
  <1>2. /\ r \in CommandRecord /\ CommandIsSound(r) /\ LoadIsSound(r, sourceRows)
        /\ r.config \in Configs /\ r.request \in CommandLines /\ r.request.op = "dry-run"
    BY <1>1 DEF SoundCommand, CommandIsSound, WayIsSound
  <1>3. /\ yaml' = yaml /\ lastReport' = lastReport /\ sourceRows' = sourceRows
        /\ \/ command' = [command EXCEPT ![o] = failed]
           \/ command' = [command EXCEPT ![o] = c]
    BY DEF Commands!Plan
  <1>4. ASSUME command' = [command EXCEPT ![o] = failed] PROVE CommandInv'
    <2>1. SoundCommand(failed, sourceRows)
      BY <1>1, CommandEnds
    <2> HIDE DEF failed
    <2> QED
      BY <1>3, <1>4, <2>1, OneMovesOnly
  <1>5. ASSUME command' = [command EXCEPT ![o] = c] PROVE CommandInv'
    <2>1. /\ r.config.documents \in Seq(KnownDocuments)
          /\ Commands!ToSet(r.config.documents) = Elements(r.config.documents)
      BY <1>2, ConfigsAreSound DEF Commands!ToSet, Elements
    <2>2. \A d \in Elements(r.config.documents) : d \in KnownDocuments /\ d.source \in SourceNames
      <3>1. \A d \in Elements(r.config.documents) : d \in KnownDocuments
        BY <2>1 DEF Elements
      <3> QED
        BY <3>1, KnownDocumentsHaveKeys
    <2>3. planned = PlannedDocuments(r.config, sourceRows, scope)
      <3>1. ASSUME NEW d
            PROVE  d \in planned <=> d \in PlannedDocuments(r.config, sourceRows, scope)
        <4>1. d \in planned <=>
                \E k \in chosen : d \in Commands!PlannedOf(r.config, sourceRows, k)
          <5> DEFINE some(k) == Commands!PlannedOf(r.config, sourceRows, k)
          <5> HIDE DEF some, chosen
          <5>1. d \in UNION {some(k) : k \in chosen} <=> \E k \in chosen : d \in some(k)
            OBVIOUS
          <5> QED
            BY <5>1 DEF some
        <4>2. \A k : d \in Commands!PlannedOf(r.config, sourceRows, k) <=>
                       /\ d \in Elements(r.config.documents) /\ d.source = k /\ d.enabled
                       /\ Commands!Enabled(sourceRows, k)
          BY <2>1 DEF Commands!PlannedOf
        <4> HIDE DEF planned, r, scope
        <4> QED
          BY <2>2, <4>1, <4>2, Zenon DEF PlannedDocuments
      <3> HIDE DEF planned
      <3> QED
        BY <3>1, Zenon
    <2>4. planned \in Selections
      <3>1. planned \subseteq KnownDocuments
        BY <2>2, <2>3 DEF PlannedDocuments
      <3> HIDE DEF planned
      <3> QED
        BY <3>1 DEF Selections
    <2>5. sourceRows \in KnownRows
      BY DEF CommandInv
    <2> HIDE DEF planned, r, scope
    <2>6. c \in CommandRecord
      BY <1>2, <2>4, <2>5 DEF CommandRecord, CommandSteps
    <2>7. /\ c.pc = "planned" /\ c.request = r.request /\ c.config = r.config /\ c.at = r.at
          /\ c.given = r.given /\ c.cursor = r.cursor /\ c.overwritten = r.overwritten
          /\ c.seen = sourceRows /\ c.selected = planned
      BY <1>2 DEF CommandRecord
    <2> HIDE DEF c
    <2>8. WayIsSound(c)
      BY <1>2, <2>7 DEF WayIsSound
    <2>9. PlanIsSound(c)
      BY <2>3, <2>7 DEF PlanIsSound, scope
    <2>10. SyncIsSound(c)
      BY <1>2, <2>7 DEF CommandIsSound, SyncIsSound, Commands!Misread, IsRead
    <2>11. LoadIsSound(c, sourceRows)
      BY <1>2, <2>7 DEF LoadIsSound
    <2>12. SoundCommand(c, sourceRows)
      BY <2>6, <2>8, <2>9, <2>10, <2>11 DEF SoundCommand, CommandIsSound
    <2> QED
      BY <1>3, <1>5, <2>12, OneMovesOnly
  <1> HIDE DEF failed, c
  <1> QED
    BY <1>3, <1>4, <1>5

-----------------------------------------------------------------------------
(* In the configuration that the report was about, a cursor that was read  *)
(* as it was meant is that of the report: in full, since it names a        *)
(* document; in short, since the documents are those of the scope.         *)
LEMMA CursorIsThatOfTheReport ==
  ASSUME Commands!CommandsAssumption, NEW r \in CommandRecord, r.config \in Configs,
         r.given # Nothing, r.cursor # Nothing, ReportIsSound(r.given), IsRead(r),
         r.given.fingerprint.documents = Commands!Configured(r.config, r.request.scope)
  PROVE  r.cursor = r.given.cursor
  <1> DEFINE documents == Commands!Configured(r.config, r.request.scope)
  <1>1. r.given \in Reports /\ r.cursor \in Cursors /\ r.given.cursor \in Cursors
    BY DEF CommandRecord, Reports
  <1>2. PICK i \in 1..Len(documents) :
          documents[i].source = r.given.cursor.source /\ documents[i].key = r.given.cursor.key
    BY DEF ReportIsSound, Marks
  <1>3. Commands!InScope(r.request.scope, documents[i].source)
    <2>1. documents[i] \in Elements(documents)
      BY DEF Elements
    <2> QED
      BY <2>1, ConfiguredIsSound
  <1>4. r.request.scope # Nothing => r.given.cursor.source = r.request.scope
    BY <1>2, <1>3 DEF Commands!InScope
  <1>5. r.cursor # r.given.cursor => r.cursor.source = r.given.cursor.source
                                     /\ r.cursor.key = r.given.cursor.key
    BY <1>4 DEF IsRead
  <1> QED
    BY <1>1, <1>5 DEF Cursors

LEMMA BeginSyncIsSound ==
  ASSUME Commands!CommandsAssumption, CommandInv, NEW o \in Operators, Commands!BeginSync(o)
  PROVE  CommandInv'
  <1> DEFINE r == command[o]
             documents == Commands!Configured(r.config, r.request.scope)
             verdict == Commands!Verdict(r, documents)
             taken == Following(documents, r.cursor, r.request.limit)
             refused == [r EXCEPT !.pc = verdict, !.seen = sourceRows]
             begun == [r EXCEPT !.pc = verdict, !.seen = sourceRows, !.selected = taken]
  <1>1. r.pc = "sync" /\ SoundCommand(r, sourceRows)
    BY OneCommand DEF Commands!BeginSync
  <1>2. /\ r \in CommandRecord /\ CommandIsSound(r) /\ LoadIsSound(r, sourceRows)
        /\ r.config \in Configs /\ r.request \in CommandLines /\ r.request.op = "sync"
    BY <1>1 DEF SoundCommand, CommandIsSound, WayIsSound
  <1>3. /\ yaml' = yaml /\ lastReport' = lastReport /\ sourceRows' = sourceRows
        /\ command' = [command EXCEPT ![o] = IF verdict # "syncing" THEN refused ELSE begun]
    BY DEF Commands!BeginSync, Following
  <1>4. verdict \in {"failed", "CATALOG_RESUME_CONFIGURATION_CHANGED", "CURSOR_NOT_FOUND", "syncing"}
    BY DEF Commands!Verdict
  <1>5. sourceRows \in KnownRows
    BY DEF CommandInv
  <1>6. documents \in Seq(KnownDocuments) /\ r.request.limit \in PositiveLimit
    BY <1>2, ConfiguredIsSound DEF PositiveLimit, Commands!CommandsAssumption
  <1>7. /\ r.given = Nothing <=> r.cursor = Nothing
        /\ r.given # Nothing => ReportIsSound(r.given) /\ (Commands!Misread(r) \/ IsRead(r))
    BY <1>2 DEF CommandIsSound, SyncIsSound
  <1>8. ASSUME verdict \in {"CURSOR_NOT_FOUND", "syncing"}, r.given # Nothing
        PROVE  /\ r.given.fingerprint.documents = documents
               /\ Commands!Misread(r) \/ (r.cursor = r.given.cursor /\ Marks(documents, r.cursor))
    <2>1. r.given.fingerprint = Commands!Fingerprint(documents, sourceRows)
      BY <1>7, <1>8 DEF Commands!Verdict
    <2>2. r.given.fingerprint.documents = documents
      BY <2>1 DEF Commands!Fingerprint
    <2>3. IsRead(r) => r.cursor = r.given.cursor
      BY <1>2, <1>7, <1>8, <2>2, CursorIsThatOfTheReport
    <2>4. Marks(documents, r.given.cursor)
      BY <1>7, <1>8, <2>2 DEF ReportIsSound
    <2> QED
      BY <1>7, <1>8, <2>2, <2>3, <2>4
  <1>9. r.cursor # Nothing =>
          (verdict = "CURSOR_NOT_FOUND" => ~Marks(documents, r.cursor))
          /\ (verdict = "syncing" => Marks(documents, r.cursor))
    BY <1>6, IndexIsSound DEF Commands!Verdict
  <1> HIDE DEF r, documents, verdict
  <1>10. CASE verdict # "syncing"
    <2> DEFINE c == refused
    <2>1. command' = [command EXCEPT ![o] = c]
      BY <1>3, <1>10
    <2>2. c \in CommandRecord
      BY <1>2, <1>4, <1>5 DEF CommandRecord, CommandSteps
    <2>3. /\ c.pc = verdict /\ c.request = r.request /\ c.config = r.config /\ c.at = r.at
          /\ c.given = r.given /\ c.cursor = r.cursor /\ c.overwritten = r.overwritten
          /\ c.seen = sourceRows
      BY <1>2 DEF CommandRecord
    <2> HIDE DEF c
    <2>4. WayIsSound(c)
      BY <1>2, <1>4, <1>10, <2>3 DEF WayIsSound
    <2>5. PlanIsSound(c)
      BY <1>4, <2>3 DEF PlanIsSound
    <2>6. SyncIsSound(c)
      <3>1. verdict = "CURSOR_NOT_FOUND" /\ r.given # Nothing => Commands!Misread(r)
        BY <1>7, <1>8, <1>9
      <3>2. Commands!Misread(c) <=> Commands!Misread(r)
        BY <2>3 DEF Commands!Misread
      <3>3. IsRead(c) <=> IsRead(r)
        BY <2>3 DEF IsRead
      <3> QED
        BY <1>4, <1>7, <1>10, <2>3, <3>1, <3>2, <3>3 DEF SyncIsSound
    <2>7. LoadIsSound(c, sourceRows)
      BY <1>2, <2>3 DEF LoadIsSound
    <2>8. SoundCommand(c, sourceRows)
      BY <2>2, <2>4, <2>5, <2>6, <2>7 DEF SoundCommand, CommandIsSound
    <2> QED
      BY <1>3, <2>1, <2>8, OneMovesOnly
  <1>11. CASE verdict = "syncing"
    <2> DEFINE c == begun
    <2>1. command' = [command EXCEPT ![o] = c]
      BY <1>3, <1>11
    <2>0. taken \in Selections
      BY <1>6, FollowingIsPart DEF Selections
    <2> HIDE DEF taken
    <2>2. c \in CommandRecord
      BY <1>2, <1>4, <1>5, <2>0 DEF CommandRecord, CommandSteps
    <2>3. /\ c.pc = verdict /\ c.request = r.request /\ c.config = r.config /\ c.at = r.at
          /\ c.given = r.given /\ c.cursor = r.cursor /\ c.overwritten = r.overwritten
          /\ c.seen = sourceRows /\ c.selected = taken
      BY <1>2 DEF CommandRecord
    <2> HIDE DEF c
    <2>4. WayIsSound(c)
      BY <1>2, <1>11, <2>3 DEF WayIsSound
    <2>5. PlanIsSound(c)
      BY <1>11, <2>3 DEF PlanIsSound
    <2>6. SyncIsSound(c)
      <3>1. Commands!Misread(c) <=> Commands!Misread(r)
        BY <2>3 DEF Commands!Misread
      <3>2. IsRead(c) <=> IsRead(r)
        BY <2>3 DEF IsRead
      <3>3. c.selected = Following(documents, c.cursor, c.request.limit)
        BY <2>3 DEF taken
      <3>4. documents = Commands!Configured(c.config, c.request.scope)
        BY <2>3 DEF documents
      <3> QED
        BY <1>5, <1>7, <1>8, <1>9, <1>11, <2>3, <3>1, <3>2, <3>3, <3>4 DEF SyncIsSound
    <2>7. LoadIsSound(c, sourceRows)
      BY <1>2, <2>3 DEF LoadIsSound
    <2>8. SoundCommand(c, sourceRows)
      BY <2>2, <2>4, <2>5, <2>6, <2>7 DEF SoundCommand, CommandIsSound
    <2> QED
      BY <1>3, <2>1, <2>8, OneMovesOnly
  <1> QED
    BY <1>10, <1>11

(* The end of a batch gives a report that names one of its documents.      *)
LEMMA ContinuationIsSound ==
  ASSUME Commands!CommandsAssumption, CommandInv, NEW o \in Operators, command[o].pc = "syncing"
  PROVE  LET r == Commands!ContinuationOf(command[o])
         IN  r = Nothing \/ (r \in Reports /\ ReportIsSound(r))
  <1> DEFINE c == command[o]
             documents == Commands!Configured(c.config, c.request.scope)
             fingerprint == Commands!Fingerprint(documents, c.seen)
             rest == Commands!ApplyResumeCursor(documents, c.cursor)
             r == Commands!ContinuationOf(c)
  <1>1. /\ c \in CommandRecord /\ c.config \in Configs /\ c.request \in CommandLines
        /\ c.request.op = "sync" /\ c.seen \in KnownRows
        /\ c.selected = Following(documents, c.cursor, c.request.limit)
        /\ c.cursor # Nothing => Marks(documents, c.cursor)
    BY OneCommand DEF SoundCommand, CommandIsSound, WayIsSound, SyncIsSound
  <1>2. documents \in Seq(KnownDocuments) /\ c.request.limit \in PositiveLimit
    BY <1>1, ConfiguredIsSound DEF PositiveLimit, Commands!CommandsAssumption
  <1>3. fingerprint \in Fingerprints
    <2>1. fingerprint = Commands!Fingerprint(<<documents, c.seen>>[1], <<documents, c.seen>>[2])
      OBVIOUS
    <2>2. <<documents, c.seen>> \in Seq(KnownDocuments) \X KnownRows
      BY <1>1, <1>2
    <2> HIDE DEF fingerprint, documents
    <2> QED
      BY <2>1, <2>2 DEF Fingerprints
  <1>4. fingerprint.documents = documents
    BY DEF Commands!Fingerprint
  <1>5. Commands!Limited(c) <=> Len(c.selected) < Len(rest)
    BY DEF Commands!Limited
  <1>6. r = CASE Commands!Limited(c) ->
                   [cursor |-> Commands!CursorFor(Commands!Last(c.selected)), fingerprint |-> fingerprint]
              [] ~Commands!Limited(c) /\ c.cursor # Nothing ->
                   [cursor |-> c.cursor, fingerprint |-> fingerprint]
              [] OTHER -> Nothing
    BY DEF Commands!ContinuationOf
  <1>7. CASE Commands!Limited(c)
    <2> DEFINE d == Commands!Last(c.selected)
    <2>1. /\ c.selected \in Seq(KnownDocuments) /\ Elements(c.selected) \subseteq Elements(documents)
          /\ Len(c.selected) # 0
      BY <1>1, <1>2, <1>5, <1>7, FollowingIsPart
    <2>2. d = c.selected[Len(c.selected)] /\ Len(c.selected) \in 1..Len(c.selected)
      BY <2>1 DEF Commands!Last
    <2>3. d \in KnownDocuments /\ d \in Elements(documents)
      BY <2>1, <2>2 DEF Elements
    <2>4. d.source \in Seq(KeyPieces) /\ d.key \in Seq(KeyPieces)
      BY <2>3, KnownDocumentsHaveKeys
    <2>5. PICK i \in 1..Len(documents) : d = documents[i]
      BY <2>3 DEF Elements
    <2>6. r = [cursor |-> Commands!CursorFor(d), fingerprint |-> fingerprint]
      BY <1>6, <1>7
    <2> HIDE DEF d, r, fingerprint, documents
    <2>7. /\ Commands!CursorFor(d) \in Cursors
          /\ Commands!CursorFor(d).source = d.source /\ Commands!CursorFor(d).key = d.key
      BY <2>4 DEF Commands!CursorFor, Cursors
    <2>8. r \in Reports
      BY <1>3, <2>6, <2>7 DEF Reports
    <2>9. r.cursor = Commands!CursorFor(d) /\ r.fingerprint = fingerprint
      BY <2>6
    <2> QED
      BY <1>4, <2>5, <2>7, <2>8, <2>9 DEF ReportIsSound, Marks, r
  <1>8. CASE ~Commands!Limited(c) /\ c.cursor # Nothing
    <2>1. r = [cursor |-> c.cursor, fingerprint |-> fingerprint]
      BY <1>6, <1>8
    <2>2. c.cursor \in Cursors
      BY <1>1, <1>8 DEF CommandRecord
    <2> HIDE DEF r, fingerprint, documents
    <2>3. r \in Reports
      BY <1>3, <2>1, <2>2 DEF Reports
    <2>4. r.cursor = c.cursor /\ r.fingerprint = fingerprint
      BY <2>1
    <2> QED
      BY <1>1, <1>4, <1>8, <2>3, <2>4 DEF ReportIsSound, r
  <1>9. CASE ~Commands!Limited(c) /\ c.cursor = Nothing
    BY <1>6, <1>9
  <1> QED
    BY <1>7, <1>8, <1>9

LEMMA EndSyncIsSound ==
  ASSUME Commands!CommandsAssumption, CommandInv, NEW o \in Operators, Commands!EndSync(o)
  PROVE  CommandInv'
  <1> DEFINE r == command[o]
             c == [r EXCEPT !.pc = "synced"]
  <1>1. r.pc = "syncing" /\ SoundCommand(r, sourceRows)
    BY OneCommand DEF Commands!EndSync
  <1>2. r \in CommandRecord /\ CommandIsSound(r) /\ LoadIsSound(r, sourceRows)
    BY <1>1 DEF SoundCommand
  <1>3. /\ command' = [command EXCEPT ![o] = c] /\ sourceRows' = sourceRows
        /\ yaml' \in YamlContents /\ lastReport' = Commands!ContinuationOf(r)
    BY DEF Commands!EndSync, CommandInv
  <1>4. c \in CommandRecord
    BY <1>2 DEF CommandRecord, CommandSteps
  <1>5. /\ c.pc = "synced" /\ c.request = r.request /\ c.config = r.config /\ c.at = r.at
        /\ c.given = r.given /\ c.cursor = r.cursor /\ c.overwritten = r.overwritten
        /\ c.seen = r.seen /\ c.selected = r.selected
    BY <1>2 DEF CommandRecord
  <1>6. \/ lastReport' \in {lastReport, Nothing}
        \/ lastReport' \in Reports /\ ReportIsSound(lastReport')
    BY <1>1, <1>3, ContinuationIsSound
  <1> HIDE DEF r, c
  <1>7. WayIsSound(c)
    BY <1>1, <1>2, <1>5 DEF CommandIsSound, WayIsSound
  <1>8. PlanIsSound(c)
    BY <1>5 DEF PlanIsSound
  <1>9. SyncIsSound(c)
    <2>1. Commands!Misread(c) <=> Commands!Misread(r)
      BY <1>5 DEF Commands!Misread
    <2>2. IsRead(c) <=> IsRead(r)
      BY <1>5 DEF IsRead
    <2> QED
      BY <1>1, <1>2, <1>5, <2>1, <2>2 DEF CommandIsSound, SyncIsSound
  <1>10. LoadIsSound(c, sourceRows)
    BY <1>2, <1>5 DEF LoadIsSound
  <1>11. SoundCommand(c, sourceRows)
    BY <1>4, <1>7, <1>8, <1>9, <1>10 DEF SoundCommand, CommandIsSound
  <1> QED
    BY <1>3, <1>6, <1>11, OneMoves

LEMMA StopIsSound ==
  ASSUME Commands!CommandsAssumption, CommandInv, NEW o \in Operators, Commands!Stop(o)
  PROVE  CommandInv'
  <1> DEFINE c == [command[o] EXCEPT !.pc = "failed"]
  <1>1. /\ command' = [command EXCEPT ![o] = c] /\ sourceRows' = sourceRows
        /\ yaml' = yaml /\ lastReport' = lastReport /\ command[o].pc # "idle"
    BY DEF Commands!Stop
  <1>2. SoundCommand(c, sourceRows)
    BY <1>1, OneCommand, CommandEnds
  <1> HIDE DEF c
  <1> QED
    BY <1>1, <1>2, OneMovesOnly

LEMMA CommandStutter ==
  CommandInv /\ UNCHANGED sourceVars => CommandInv'
  BY DEF CommandInv, sourceVars

LEMMA CommandStep ==
  ASSUME Commands!CommandsAssumption, CommandInv, Commands!CommandsNext
  PROVE  CommandInv'
  <1>1. ASSUME NEW content \in YamlContents, Commands!EditFile(content)
        PROVE  CommandInv'
    BY <1>1 DEF CommandInv, Commands!EditFile
  <1>2. ASSUME NEW o \in Operators, NEW request \in CommandLines, Commands!Start(o, request)
        PROVE  CommandInv'
    BY <1>2, StartIsSound
  <1>3. ASSUME NEW o \in Operators, Commands!Preload(o) PROVE CommandInv'
    BY <1>3, PreloadIsSound
  <1>4. ASSUME NEW o \in Operators, Commands!LookUp(o) PROVE CommandInv'
    BY <1>4, LookUpIsSound
  <1>5. ASSUME NEW o \in Operators, Commands!WriteSource(o) PROVE CommandInv'
    BY <1>5, WriteSourceIsSound
  <1>6. ASSUME NEW o \in Operators, Commands!AddSource(o) PROVE CommandInv'
    BY <1>6, AddSourceIsSound
  <1>7. ASSUME NEW o \in Operators, Commands!Plan(o) PROVE CommandInv'
    BY <1>7, PlanIsRight
  <1>8. ASSUME NEW o \in Operators, Commands!BeginSync(o) PROVE CommandInv'
    BY <1>8, BeginSyncIsSound
  <1>9. ASSUME NEW o \in Operators, Commands!EndSync(o) PROVE CommandInv'
    BY <1>9, EndSyncIsSound
  <1>10. ASSUME NEW o \in Operators, Commands!Stop(o) PROVE CommandInv'
    BY <1>10, StopIsSound
  <1> QED
    BY <1>1, <1>2, <1>3, <1>4, <1>5, <1>6, <1>7, <1>8, <1>9, <1>10 DEF Commands!CommandsNext

-----------------------------------------------------------------------------
LEMMA LoadsReconcileHolds ==
  CommandInv => Commands!LoadsReconcile
  <1> SUFFICES ASSUME CommandInv, NEW o \in Operators,
                      command[o].request.op = "load-sources", NEW i \in 1..(command[o].at - 1)
               PROVE  \/ command[o].config.sources[i].key \in command[o].overwritten
                      \/ sourceRows[command[o].config.sources[i].key] = command[o].config.sources[i]
    BY DEF Commands!LoadsReconcile
  <1>1. command[o] \in CommandRecord /\ LoadIsSound(command[o], sourceRows)
    BY OneCommand DEF SoundCommand
  <1>2. command[o].at \in Nat /\ command[o].at # 0
    BY <1>1 DEF CommandRecord
  <1> QED
    BY <1>1, <1>2 DEF LoadIsSound

LEMMA PlanForetells ==
  Commands!CommandsAssumption /\ CommandInv => Commands!PlanForetellsTheSync
  <1> SUFFICES ASSUME Commands!CommandsAssumption, CommandInv,
                      NEW o \in Operators, NEW p \in Operators,
                      command[o].pc = "planned", command[p].pc = "synced",
                      command[o].config = command[p].config, command[o].seen = command[p].seen,
                      command[o].request.scope = command[p].request.scope
               PROVE  /\ Commands!Fetched(command[p]) \subseteq command[o].selected
                      /\ command[p].request.limit = Nothing /\ command[p].cursor = Nothing
                           => Commands!Fetched(command[p]) = command[o].selected
    BY DEF Commands!PlanForetellsTheSync
  <1> DEFINE plan == command[o]
             sync == command[p]
             scope == sync.request.scope
             documents == Commands!Configured(sync.config, scope)
  <1>1. plan.selected = PlannedDocuments(sync.config, sync.seen, scope)
    BY OneCommand DEF SoundCommand, CommandIsSound, PlanIsSound
  <1>2. /\ sync.config \in Configs /\ sync.request \in CommandLines /\ sync.request.op = "sync"
        /\ sync.selected = Following(documents, sync.cursor, sync.request.limit)
    BY OneCommand DEF SoundCommand, CommandIsSound, WayIsSound, SyncIsSound
  <1>3. documents \in Seq(KnownDocuments) /\ sync.request.limit \in PositiveLimit
    BY <1>2, ConfiguredIsSound DEF PositiveLimit, Commands!CommandsAssumption
  <1>4. /\ sync.selected \in Seq(KnownDocuments)
        /\ Elements(sync.selected) \subseteq Elements(documents)
    BY <1>2, <1>3, FollowingIsPart
  <1>5. Commands!Fetched(sync)
          = {d \in Elements(sync.selected) : Commands!Enabled(sync.seen, d.source)}
    BY <1>4 DEF Commands!Fetched, Commands!ToSet, Elements
  <1>6. {d \in Elements(documents) : Commands!Enabled(sync.seen, d.source)}
          = PlannedDocuments(sync.config, sync.seen, scope)
    <2>1. \A d : d \in Elements(documents) <=>
            d \in Elements(sync.config.documents) /\ Commands!InScope(scope, d.source) /\ d.enabled
      BY <1>2, ConfiguredIsSound
    <2>2. \A d : Commands!Enabled(sync.seen, d.source) => sync.seen[d.source] # Nothing
      BY DEF Commands!Enabled
    <2> HIDE DEF sync, scope, documents
    <2> QED
      BY <2>1, <2>2, Zenon DEF PlannedDocuments
  <1>7. sync.request.limit = Nothing /\ sync.cursor = Nothing => sync.selected = documents
    BY <1>2 DEF Following, Commands!ApplyLimit, Commands!ApplyResumeCursor
  <1> HIDE DEF sync, plan, scope, documents
  <1>8. /\ Commands!Fetched(sync) \subseteq plan.selected
        /\ sync.request.limit = Nothing /\ sync.cursor = Nothing
             => Commands!Fetched(sync) = plan.selected
    BY <1>1, <1>4, <1>5, <1>6, <1>7
  <1> QED
    BY <1>8 DEF sync, plan

LEMMA BatchesFollow ==
  Commands!CommandsAssumption /\ CommandInv => Commands!BatchesFollowTheCursor
  <1> SUFFICES ASSUME Commands!CommandsAssumption, CommandInv, NEW o \in Operators,
                      command[o].given # Nothing, ~Commands!Misread(command[o])
               PROVE  LET c == command[o]
                          documents == c.given.fingerprint.documents
                          named == Commands!IndexOf(documents, c.given.cursor)
                      IN  /\ c.pc # "CURSOR_NOT_FOUND"
                          /\ c.pc \in {"syncing", "synced"} =>
                               named > 0 /\ c.selected = Commands!ApplyLimit(
                                 SubSeq(documents, named + 1, Len(documents)), c.request.limit)
    BY DEF Commands!BatchesFollowTheCursor
  <1> DEFINE c == command[o]
             documents == c.given.fingerprint.documents
             named == Commands!IndexOf(documents, c.given.cursor)
  <1>1. c \in CommandRecord /\ WayIsSound(c) /\ SyncIsSound(c)
    BY OneCommand DEF SoundCommand, CommandIsSound
  <1>2. c.pc # "CURSOR_NOT_FOUND"
    BY <1>1 DEF SyncIsSound
  <1>3. ASSUME c.pc \in {"syncing", "synced"}
        PROVE  named > 0 /\ c.selected = Commands!ApplyLimit(
                 SubSeq(documents, named + 1, Len(documents)), c.request.limit)
    <2>1. /\ c.config \in Configs
          /\ documents = Commands!Configured(c.config, c.request.scope)
          /\ c.cursor = c.given.cursor /\ c.cursor # Nothing
          /\ Marks(documents, c.cursor)
          /\ c.selected = Following(documents, c.cursor, c.request.limit)
      BY <1>1, <1>3 DEF WayIsSound, SyncIsSound
    <2>2. documents \in Seq(KnownDocuments)
      BY <2>1, ConfiguredIsSound
    <2>3. named \in 0..Len(documents) /\ named # 0 /\ Len(documents) \in Nat
      BY <2>1, <2>2, IndexIsSound
    <2>4. named > 0
      BY <2>3
    <2>5. c.selected = Commands!ApplyLimit(SubSeq(documents, named + 1, Len(documents)),
                                           c.request.limit)
      BY <2>1 DEF Following, Commands!ApplyResumeCursor
    <2> QED
      BY <2>4, <2>5
  <1> QED
    BY <1>2, <1>3
=============================================================================
