------------------------------ MODULE MCStorage -------------------------------
(***************************************************************************)
(* Small instances of what is stored: Migrations, CatalogBackup,           *)
(* CatalogMaintenance and SearchHistory.  MCComponents puts them side by   *)
(* side.                                                                   *)
(***************************************************************************)
EXTENDS Migrations, TLC

CONSTANTS p1, p2, p3, b1, b2, f1, f2, q1, q2,
          Copier, Final, Requests, MaxRevision,
          Cycle, Inputs, InitialRuns, InitialEvents, ReleaseAttempts, MaxTime,
          Caller, Client, Searches, Listings, Retention, MaxEntries, MaxQueryLength,
          SecretLength, MaskLength, MaxPageSize, LastDay

VARIABLES revision, catalogue, data, flushed, entries, onDisk, temporary, backupStep,
          name, failure, answers,
          owner, runs, events, now, asked, cycleStep, cycleFailure, before, tries, late, told,
          history, today, call, walk, appended

Backups == INSTANCE CatalogBackup WITH Backup <- Copier, step <- backupStep
Cycles == INSTANCE CatalogMaintenance WITH step <- cycleStep, failure <- cycleFailure
Histories == INSTANCE SearchHistory WITH
  Call <- Caller, Walk <- Client, MaxTime <- LastDay, now <- today

ASSUME StorageAssumptions ==
  /\ MigrationsAssumption /\ Backups!BackupAssumption
  /\ Cycles!MaintenanceAssumption /\ Histories!HistoryAssumption

backupVars == <<revision, catalogue, data, flushed, entries, onDisk, temporary, backupStep,
                name, failure, answers>>
cycleVars == <<owner, runs, events, now, asked, cycleStep, cycleFailure, before, tries, late,
               told>>
storedVars == <<history, today, call, walk, appended>>

Migration(kind, version, text, ending) ==
  [prefix |-> kind, version |-> version, name |-> version, text |-> text, ending |-> ending]

Build(versions, text, ending) ==
  {Migration(k, v, text, ending) : k \in Kinds, v \in versions}

(* A first build, a checkout of it with other line ends, the next one, and *)
(* one that edited a migration that shipped.                               *)
Builds == {Build(1..2, "a", "lf"), Build(1..2, "a", "crlf"), Build(1..3, "a", "lf"),
           Build({1, 3}, "a", "lf") \cup Build({2}, "b", "lf")}

Empty(kind) ==
  [kind |-> kind, columns |-> {}, ledger |-> [v \in 1..3 |-> NoRow], schema |-> <<>>,
   unsigned |-> {}]

(* A file of the first versions of each runner, and one of an edited text. *)
Old(kind, lacking, text) ==
  [kind |-> kind, columns |-> Columns(kind) \ lacking,
   ledger |-> [v \in 1..3 |->
     IF v = 1 THEN [name |-> IF "name" \in lacking THEN None ELSE 1, checksum |-> None,
                    there |-> TRUE]
     ELSE NoRow],
   schema |-> <<[version |-> 1, text |-> text]>>, unsigned |-> {1}]

AllOldFiles ==
  {Empty(k) : k \in Kinds}
    \cup {Old(k, MayLack(k), text) : k \in Kinds \ {"history"}, text \in {"a", "c"}}

Input(keep, age, vacuum, stale) == [keep |-> keep, age |-> age, vacuum |-> vacuum, stale |-> stale]
SomeInputs == {Input(1, 0, TRUE, 1), Input(0, 1, FALSE, 1), Input(1, 0, FALSE, 0)}

(* A finished run with an event, and one that is at work.                  *)
SomeRuns == {[id |-> 1, started |-> -2, running |-> FALSE],
             [id |-> 2, started |-> -1, running |-> TRUE]}
SomeEvents == {[event |-> -2, run |-> 1], [event |-> -1, run |-> 2]}

(* A search that is answered in part, one that is refused, and one whose   *)
(* query is longer once its secret is masked.                              *)
Search(tool, plain, secrets, valid, status) ==
  [tool |-> tool, plain |-> plain, secrets |-> secrets, valid |-> valid, status |-> status]
SomeSearches ==
  {Search("search_web", 1, 0, TRUE, "partial"), Search("search_docs", 2, 1, TRUE, "success"),
   Search("search_docs", 0, 0, FALSE, "failed")}

(* Everything one by one, a filter, and dates in the wrong order.          *)
Listing(tool, status, from, to, limit) ==
  [tool |-> tool, status |-> status, from |-> from, to |-> to, limit |-> limit]
SomeListings ==
  {Listing(None, None, None, None, 1), Listing("search_web", "partial", 1, 2, 1),
   Listing(None, None, 2, 1, 1)}
=============================================================================
