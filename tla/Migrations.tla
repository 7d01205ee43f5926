----------------------------- MODULE Migrations -----------------------------
(***************************************************************************)
(* The opening of a database by several processes: the cache, the history  *)
(* and the catalogue each have a runner that brings the schema up to the   *)
(* migrations shipped with the process, within one BEGIN IMMEDIATE, and a  *)
(* ledger of what ran.  Old files have ledgers without checksums.          *)
(***************************************************************************)
EXTENDS Integers, Sequences, FiniteSets, SequencesExt

CONSTANTS Opener,       \* the processes that open the file
          Files,        \* the migration directories of the builds, sets of files
          OldFiles,     \* the files on disk
          MigrationName, MigrationText,
          None,         \* an SQL NULL, or nothing
          MaxOpenings   \* bound: openings in a behaviour

VARIABLES file,       \* the committed database; unsigned, the rows that had no checksum
          writer,     \* who has the write reservation
          tx,         \* what the writer sees and has written
          step,       \* where each process is
          shipped,    \* the migrations of its build
          next,       \* the next one to look at
          openings

migrationVars == <<file, writer, tx, step, shipped, next, openings>>

Kinds == {"cache", "catalog", "history"}

(* A file is a migration when its name has the prefix of the database and  *)
(* three digits; they are applied in the order of those.                   *)
LoadMigrations(kind, directory) ==
  CHOOSE s \in SetToSeqs({f \in directory : f.prefix = kind}) :
    \A i, j \in DOMAIN s : i < j => s[i].version < s[j].version

ChecksumOfBytes(f) == <<f.text, f.ending>>

(* Line ends do not count: a checkout with other ones is the same.         *)
Checksum(f) == f.text

(* The columns that the first version of each ledger had, and now has.     *)
Columns(kind) == {"version", "name", "checksum"}
MayLack(kind) == CASE kind = "cache" -> {"name", "checksum"}
                   [] kind = "catalog" -> {"checksum"}
                   [] kind = "history" -> {}

Version == {f.version : f \in UNION Files}
NoRow == [name |-> None, checksum |-> None, there |-> FALSE]
Recorded(f) == [name |-> f.name, checksum |-> Checksum(f), there |-> TRUE]

(* A database, whose ledger tells what its schema is: the first migrations *)
(* ran, in order, and a row that has its checksum has the one of the text  *)
(* that ran.  Unsigned are the rows that had none when the file was found. *)
Database ==
  [kind : Kinds, columns : SUBSET {"version", "name", "checksum"},
   ledger : [Version -> [name : MigrationName \cup {None}, checksum : MigrationText \cup {None},
                         there : BOOLEAN]],
   schema : Seq([version : Version, text : MigrationText]), unsigned : SUBSET Version]

TellsItsSchema(db) ==
  /\ \A i \in DOMAIN db.schema : db.schema[i].version = i
  /\ {v \in Version : db.ledger[v].there} = DOMAIN db.schema
  /\ \A v \in DOMAIN db.schema \ db.unsigned : db.ledger[v].checksum = db.schema[v].text

(* The migrations of a build are numbered from one, without a gap, as those*)
(* of the three directories are.                                           *)
MigrationsAssumption ==
  /\ None \notin Opener \cup MigrationText
  /\ MaxOpenings \in Nat
  /\ \A directory \in Files : \A f \in directory :
       f.version \in Nat \ {0} /\ f.name \in MigrationName /\ f.text \in MigrationText
  /\ \A directory \in Files, kind \in Kinds :
       LET migrations == {f \in directory : f.prefix = kind}
       IN  /\ IsFiniteSet(migrations)
           /\ {f.version : f \in migrations} = 1..Cardinality(migrations)
           /\ \A f, g \in migrations : f.version = g.version => f = g
  /\ \A db \in OldFiles : db \in Database /\ TellsItsSchema(db)

-----------------------------------------------------------------------------
MigrationsInit ==
  /\ file \in OldFiles
  /\ writer = None
  /\ tx = file
  /\ step = [p \in Opener |-> "closed"]
  /\ shipped = [p \in Opener |-> <<>>]
  /\ next = [p \in Opener |-> 1]
  /\ openings = 0

(* A process starts, with the build installed by then.                     *)
Open(p) ==
  /\ step[p] = "closed"
  /\ openings < MaxOpenings
  /\ openings' = openings + 1
  /\ \E directory \in Files :
       shipped' = [shipped EXCEPT ![p] = LoadMigrations(file.kind, directory)]
  /\ step' = [step EXCEPT ![p] = "waiting"]
  /\ next' = [next EXCEPT ![p] = 1]
  /\ UNCHANGED <<file, writer, tx>>

BeginDeferred(p) ==
  /\ step[p] = "waiting"
  /\ writer' = p
  /\ tx' = file
  /\ step' = [step EXCEPT ![p] = "ledger"]
  /\ UNCHANGED <<file, shipped, next, openings>>

(* BEGIN IMMEDIATE: the reservation is taken before anything is read.      *)
Begin(p) ==
  /\ step[p] = "waiting"
  /\ writer = None
  /\ writer' = p
  /\ tx' = file
  /\ step' = [step EXCEPT ![p] = "ledger"]
  /\ UNCHANGED <<file, shipped, next, openings>>

(* Another process keeps the reservation longer than the busy timeout.     *)
Busy(p) ==
  /\ step[p] = "waiting"
  /\ writer # None
  /\ step' = [step EXCEPT ![p] = "closed"]
  /\ UNCHANGED <<file, writer, tx, shipped, next, openings>>

(* CREATE TABLE IF NOT EXISTS, then ALTER TABLE for the columns an older   *)
(* ledger lacks: they are NULL in its rows.                                *)
PrepareLedger(p) ==
  /\ step[p] = "ledger"
  /\ tx' = [tx EXCEPT !.columns = IF @ = {} THEN Columns(tx.kind) ELSE @ \cup MayLack(tx.kind)]
  /\ step' = [step EXCEPT ![p] = "migrating"]
  /\ UNCHANGED <<file, writer, shipped, next, openings>>

Matches(row, f) ==
  /\ row.name \in {None, f.name}
  /\ row.checksum \in {None, Checksum(f)}

(* A row of the ledger that agrees is completed where it has a NULL.       *)
KeepMigration(p) ==
  LET f == shipped[p][next[p]]
      row == tx.ledger[f.version]
  IN  /\ row.there
      /\ Matches(row, f)
      /\ tx' = [tx EXCEPT !.ledger[f.version] = Recorded(f)]

(* The SQL of a migration without a row runs, and its row is written.      *)
RunMigration(p) ==
  LET f == shipped[p][next[p]]
  IN  /\ ~tx.ledger[f.version].there
      /\ tx' = [tx EXCEPT !.schema = Append(@, [version |-> f.version, text |-> f.text]),
                          !.ledger[f.version] = Recorded(f)]

Apply(p) ==
  /\ step[p] = "migrating"
  /\ next[p] <= Len(shipped[p])
  /\ KeepMigration(p) \/ RunMigration(p)
  /\ next' = [next EXCEPT ![p] = @ + 1]
  /\ UNCHANGED <<file, writer, step, shipped, openings>>

Commit(p) ==
  /\ step[p] = "migrating"
  /\ next[p] > Len(shipped[p])
  /\ file' = tx
  /\ writer' = None
  /\ step' = [step EXCEPT ![p] = "open"]
  /\ UNCHANGED <<tx, shipped, next, openings>>

RollBack(p, to) ==
  /\ writer' = IF writer = p THEN None ELSE writer
  /\ tx' = IF writer = p THEN file ELSE tx
  /\ step' = [step EXCEPT ![p] = to]
  /\ UNCHANGED <<file, shipped, next, openings>>

(* A row of the ledger names another migration, or another text.           *)
Refuse(p) ==
  /\ step[p] = "migrating"
  /\ next[p] <= Len(shipped[p])
  /\ LET f == shipped[p][next[p]]
     IN  tx.ledger[f.version].there /\ ~Matches(tx.ledger[f.version], f)
  /\ RollBack(p, "refused")

(* A statement fails, or the process ends, in the middle or later.         *)
Stop(p) ==
  /\ step[p] \in {"ledger", "migrating", "open", "refused"}
  /\ RollBack(p, "closed")

MigrationsNext ==
  \E p \in Opener :
    \/ Open(p) \/ Begin(p) \/ Busy(p) \/ PrepareLedger(p)
    \/ Apply(p) \/ Commit(p) \/ Refuse(p) \/ Stop(p)

-----------------------------------------------------------------------------
Executed == {file.schema[i].version : i \in DOMAIN file.schema}

(* Whatever processes open the file at once, and wherever one of them      *)
(* stops, every migration runs once and in order, and the ledger has a row *)
(* for exactly those that ran.                                             *)
RunOnceInOrder ==
  /\ \A i, j \in DOMAIN file.schema :
       i < j => file.schema[i].version < file.schema[j].version
  /\ Executed = {v \in Version : file.ledger[v].there}

(* A process that has the file open finds the schema of its own build,     *)
(* each migration having run with the text it ships, unless an old ledger  *)
(* could not tell.                                                         *)
OpenIsUpToDate ==
  \A p \in Opener : step[p] = "open" =>
    \A i \in DOMAIN shipped[p] :
      LET f == shipped[p][i]
      IN  \E n \in DOMAIN file.schema :
            /\ file.schema[n].version = f.version
            /\ file.schema[n].text # f.text => f.version \in file.unsigned

(* A build is refused only when one of its migrations was edited or        *)
(* renamed since it ran, or since an old ledger was completed.             *)
OnlyEditsAreRefused ==
  \A p \in Opener : step[p] = "refused" =>
    \E i \in DOMAIN shipped[p] :
      LET row == file.ledger[shipped[p][i].version]
      IN  row.there /\ (row.name # shipped[p][i].name \/ row.checksum # shipped[p][i].text)

(* The three of them, for the ledgers of the cache, the history and the    *)
(* catalogue.                                                              *)
LedgerIsTrue == RunOnceInOrder /\ OpenIsUpToDate /\ OnlyEditsAreRefused
=============================================================================
