---------------------------- MODULE MCComponents ----------------------------
(***************************************************************************)
(* The components that work alone, side by side: a behaviour is one of a   *)
(* single instance of MCStorage, of MCDocuments or of MCCommands.          *)
(***************************************************************************)
EXTENDS MCStorage, MCCommands

VARIABLE part

storageVars == <<migrationVars, backupVars, cycleVars, storedVars>>
documentVars == <<poolVars, pageVars, choiceVars, snippetVars>>

Components == {"migrations", "backups", "cycles", "history", "pool", "html", "selection",
               "snippets", "commands"}

ASSUME DocumentAssumptions ==
  /\ Pool!PoolAssumption /\ Html!HtmlAssumption /\ Selection!SelectionAssumption
  /\ Extracts!SnippetAssumption /\ Commands!CommandsAssumption

(* The variables of the parts that do not move.                            *)
NoMigration ==
  /\ file = Nothing /\ writer = Nothing /\ tx = Nothing /\ step = Nothing
  /\ shipped = Nothing /\ next = Nothing /\ openings = Nothing

NoBackup ==
  /\ revision = Nothing /\ catalogue = Nothing /\ data = Nothing
  /\ flushed = Nothing /\ entries = Nothing /\ onDisk = Nothing
  /\ temporary = Nothing /\ backupStep = Nothing /\ name = Nothing
  /\ failure = Nothing /\ answers = Nothing

NoCycle ==
  /\ owner = Nothing /\ runs = Nothing /\ events = Nothing /\ now = Nothing
  /\ asked = Nothing /\ cycleStep = Nothing /\ cycleFailure = Nothing
  /\ before = Nothing /\ tries = Nothing /\ late = Nothing /\ told = Nothing

NoHistory ==
  /\ history = Nothing /\ today = Nothing /\ call = Nothing /\ walk = Nothing
  /\ appended = Nothing

NoPool ==
  /\ clock = Nothing /\ slots = Nothing /\ workers = Nothing
  /\ inbox = Nothing /\ extracts = Nothing

NoPage ==
  /\ nesting = Nothing /\ ended = Nothing /\ metadata = Nothing
  /\ sanitizer = Nothing /\ render = Nothing /\ doubled = Nothing

NoSelection ==
  /\ document = Nothing /\ selection = Nothing /\ candidates = Nothing
  /\ selected = Nothing /\ remaining = Nothing /\ full = Nothing
  /\ truncated = Nothing

NoSnippet ==
  /\ passage = Nothing /\ sought = Nothing /\ anchor = Nothing /\ best = Nothing
  /\ snippet = Nothing

NoCommand ==
  /\ yaml = Nothing /\ sourceRows = Nothing /\ command = Nothing
  /\ lastReport = Nothing /\ spent = Nothing

MCInit ==
  /\ part \in Components
  /\ \/ part = "migrations" /\ MigrationsInit
     \/ part # "migrations" /\ NoMigration
  /\ \/ part = "backups" /\ Backups!BackupInit
     \/ part # "backups" /\ NoBackup
  /\ \/ part = "cycles" /\ Cycles!MaintenanceInit /\ asked[q1].vacuum /\ ~asked[q2].vacuum
     \/ part # "cycles" /\ NoCycle
  /\ \/ part = "history" /\ Histories!HistoryInit
     \/ part # "history" /\ NoHistory
  /\ \/ part = "pool" /\ Pool!PoolInit
     \/ part # "pool" /\ NoPool
  /\ \/ part = "html" /\ Html!HtmlInit
     \/ part # "html" /\ NoPage
  /\ \/ part = "selection" /\ Selection!SelectionInit
     \/ part # "selection" /\ NoSelection
  /\ \/ part = "snippets" /\ Extracts!SnippetInit
     \/ part # "snippets" /\ NoSnippet
  /\ \/ part = "commands" /\ Commands!CommandsInit
     \/ part # "commands" /\ NoCommand

(* The callers are interchangeable: they start in their order.             *)
InOrder == \A c, d \in Caller : c < d /\ call[c].pc = "idle" => call[d].pc = "idle"

(* And the operators.                                                      *)
FirstOperatorFirst ==
  \A o, p \in Operators : o < p /\ command[o].pc = "idle" => command[p].pc = "idle"

Storing ==
  \/ part = "migrations" /\ MigrationsNext /\ UNCHANGED <<backupVars, cycleVars, storedVars>>
  \/ part = "backups" /\ Backups!BackupNext /\ UNCHANGED <<migrationVars, cycleVars, storedVars>>
  \/ part = "cycles" /\ Cycles!MaintenanceNext
       /\ UNCHANGED <<migrationVars, backupVars, storedVars>>
  \/ part = "history" /\ Histories!HistoryNext /\ InOrder'
       /\ UNCHANGED <<migrationVars, backupVars, cycleVars>>

Reading ==
  \/ part = "pool" /\ Pool!PoolNext /\ UNCHANGED <<pageVars, choiceVars, snippetVars>>
  \/ part = "html" /\ Html!HtmlNext /\ UNCHANGED <<poolVars, choiceVars, snippetVars>>
  \/ part = "selection" /\ Selection!SelectionNext
       /\ UNCHANGED <<poolVars, pageVars, snippetVars>>
  \/ part = "snippets" /\ Extracts!SnippetNext
       /\ UNCHANGED <<poolVars, pageVars, choiceVars>>

MCNext ==
  /\ \/ Storing /\ UNCHANGED <<documentVars, sourceVars>>
     \/ Reading /\ UNCHANGED <<storageVars, sourceVars>>
     \/ part = "commands" /\ Commands!CommandsNext /\ FirstOperatorFirst'
       /\ UNCHANGED <<storageVars, documentVars>>
  /\ UNCHANGED part

MCSpec == MCInit /\ [][MCNext]_<<part, storageVars, documentVars, sourceVars>>

-----------------------------------------------------------------------------
(* The ledger tells what the schema of a file is (Migrations).             *)
LedgersAreTrue == part = "migrations" => LedgerIsTrue

(* A backup is whole at every moment, and what it answered stays true      *)
(* (CatalogBackup).                                                        *)
BackupsHold == part = "backups" => Backups!BackupsAreWhole /\ Backups!AnswersAreKept

(* One maintenance at a time, and references kept (CatalogMaintenance).    *)
MaintenanceIsExclusive == part = "cycles" => Cycles!MaintenanceIsExclusive

(* The history keeps the newest searches, and a walk through it shows every*)
(* row once (SearchHistory).                                               *)
HistoryIsTrue ==
  part = "history" => Histories!WalkIsExact /\ Histories!HistoryKeepsTheNewest

(* No slot of the pool of PDF workers is lost (PdfPool).                   *)
SlotsComeBack == part = "pool" => Pool!SlotsComeBack

(* What is shown of a page is its content (HtmlExtraction).                *)
OnlyContentIsShown == part = "html" => Html!OnlyContentIsShown

(* A selection tells what it leaves out (ContentSelection).                *)
SelectionIsHonest == part = "selection" => Selection!SelectionIsHonest

(* A snippet shows the best of its windows (Snippets).                     *)
SnippetShowsTheBestMatch == part = "snippets" => Extracts!SnippetShowsTheBestMatch

(* Loads, plans and batches agree on catalog-sources.yml (SourceCommands). *)
CommandsAgree ==
  part = "commands" => /\ Commands!LoadsReconcile
                       /\ Commands!PlanForetellsTheSync
                       /\ Commands!BatchesFollowTheCursor
=============================================================================
