# Verification of mcp-search-net

mcp-search-net is an MCP server over STDIO. It searches the web through a
SearXNG instance, fetches public pages, and keeps a local documentation
catalogue that a command line synchronizes, purges, verifies and backs up. All
its durable state is in SQLite files that several processes open at once: the
servers, `catalog sync`, `catalog maintain`, `catalog ingest-text`, and whatever
an operator's scheduler starts beside them.

This directory holds TLA+ models of that code, TLC configurations that check
them on small instances, and theorems that TLAPS proves for every value of the
constants. `PROJECT.json` is the index: components, runs, the lines each
definition stands for, hazards, findings and theorems.

To repeat the checks: `tlc -workers 2 -config <run>.cfg <MC module>.tla` (§3) and
`tlapm <Module>Proofs.tla`.

## 1. Inventory

State, operations, interactions, what is hard, and what correctness means.
Paths are relative to `src/src/`. The modules of each component are in §2.

### Synchronization runs
`infrastructure/catalog/sqlite-catalog-sync-store.ts`,
`infrastructure/process-identity.ts`, migrations C005, C013, C014.
- *State*: the `sync_runs` table (kind, scope, status, owner token, PID, host,
  process identity, heartbeat), shared by all processes; `ownedRuns`, the handles
  each store keeps in memory.
- *Operations*: `start` (recover abandoned runs, then insert), the heartbeat in
  every transaction that carries an observation, `complete`,
  `recoverAbandonedRuns` at opening and before each start; retention of finished
  runs by the maintenance runner.
- *Hard*: owners die between any two statements, PIDs are reused, another host's
  processes cannot be probed, the clock may be set back, ids are given again after
  retention (the table has no AUTOINCREMENT), and the owner of a fenced run may
  live and go on writing.
- *Correct*: runs over a common source never overlap; a run is fenced only when
  its owner is dead or its lease has expired; nothing of a fenced run is persisted
  after its successor wrote; finished runs stay; dead owners are released.

### Maintenance lock
`infrastructure/locking/file-lease-lock.ts`, and its use by
`infrastructure/catalog/sqlite-catalog-maintenance.ts`.
- *State*: the file at the lock path, the heartbeat file of each owner, the
  quarantine a stale lock is renamed to.
- *Operations*: `acquire` (two attempts, with recovery of a stale lock between),
  `renew` before each piece of work, `release` with retries, roll-back of a
  failed acquisition.
- *Hard*: the file system has no compare-and-delete, so every check is separate
  from the rename or unlink it guards; crashes and failing calls anywhere; PID
  reuse; other hosts.
- *Correct*: one cycle at a time; no lock of a live owner is taken for stale; a
  dead one does not block for good; no file is left behind.

### Maintenance cycle
`sqlite-catalog-maintenance.ts`, `application/use-cases/maintain-catalog.ts`.
- *State*: what the cycle has done so far, the runs and staleness events it prunes.
- *Operations*: migrations and retention of runs, optimization, checkpoint and
  VACUUM, each after a renewal of the lock; the release.
- *Hard*: a step fails, or the lock is lost between a renewal and the work it
  allows, while synchronizations start, finish and note events that name runs.
- *Correct*: after it lost its lock a cycle does at most one more thing and does
  not report that it maintained the catalogue; events keep the run they name.

### Catalogue revisions
`sqlite-catalog-revision-writer.ts`, `catalog-sql.ts`,
`sqlite-catalog-repository.ts`, `sqlite-catalog-source-store.ts`,
`catalog-integrity.ts`, `sqlite-catalog-version-purger.ts`,
`sqlite-catalog-search.ts`, `application/use-cases/load-catalog-sources.ts`,
`purge-catalog-versions.ts`.
- *State*: sources, documents with a pointer to their current version, versions
  with their `is_current` and pending flags, sections, and the full-text index.
- *Operations*: commit of a revision, upsert of a document, deprecated staging of
  versions and sections, loading of sources, rebuild of the index, purge of old
  versions, verification, search.
- *Hard*: the same fact is stored in four places that each call updates in its
  own order; section ids are reused; a change of a source or a status moves
  documents in and out of the index; a purge and the next search are separate; the
  verification, also that of an opening, is many statements without a transaction.
- *Correct*: pointers, flags, sections and index always agree; a verification
  reports what was wrong all the while it ran, and of a sound catalogue nothing but
  what another process writes between two of its statements (§5); purges take only
  the oldest versions and no search sees them.

### Catalogue reads
`sqlite-catalog-read-model.ts`, `sqlite-catalog-search.ts`,
`presentation/mcp/catalog-tools-registration.ts`, `catalog-resources.ts`.
- *State*: none that lasts; a client keeps offsets and section ids between calls.
- *Operations*: `list_docs`, `search_docs`, `read_doc_section`, the paged
  resources and those by id, the summary, the choice of a snippet.
- *Hard*: a page and its total are two statements, a walk is by offset, and other
  processes commit, load and purge between any two; budgets shrink pages; the id a
  search gave may be another section's when it is read.
- *Correct*: a walk misses nothing that stayed in its list; a section read is the
  one found; a snippet shows the best window, cut between characters.

### Synchronization use case
`application/use-cases/sync-catalog-documents.ts`, `cli/catalog-ingest-text.ts`,
the conditional requests of `infrastructure/fetch/crawl4ai-content-fetcher.ts`.
- *State*: per run, what it read of the document at hand, the answer of its page,
  its selection and cursor; the catalogue and the lease; the report an operator
  resumes from.
- *Operations*: per document two reads, a conditional fetch and one write
  transaction under the lease; skipping, failing, aborting, completing; limits
  and resumption; ingestion of a text outside every run.
- *Hard*: seconds go by between read and write, in which the run may be fenced
  and a text ingested; a 304 says something about the version that was read and
  is applied to the one that is current; configurations change between batches.
- *Correct*: validators stay beside the content they came with; a row describes
  its version; replacements are recorded; batches cover the configuration;
  once pages rest the catalogue holds their content.

### Source commands
`cli/catalog-source-config.ts`, `cli/catalog.ts`,
`application/use-cases/load-catalog-sources.ts`, `plan-catalog-sync.ts`.
- *State*: `catalog-sources.yml`, the sources in the catalogue, the report (cursor
  and fingerprint) an operator holds.
- *Operations*: `load-sources`, `add-source`, `sync --dry-run`, `sync` with a
  scope, a limit and a cursor; edits of the file.
- *Hard*: two loads interleave source by source, one is killed halfway; the file
  changes between a plan or a batch and the next; keys and cursors have colons.
- *Correct*: a load leaves what the file says; a dry run foretells the
  synchronization; a resumed batch goes on where the report stopped or is refused.

### Backup
`infrastructure/catalog/sqlite-catalog-backup.ts`.
- *State*: the temporary snapshot, the backup directory, what of both is flushed.
- *Operations*: copy, verification, flush, publication by hard link, flush of the
  directory, withdrawal, clean-up.
- *Hard*: a crash or a power loss at each of them, a flush that fails, a name that
  another process takes, writes while the copy is made.
- *Correct*: a name in the directory is always a whole verified snapshot; what was
  answered stays true.

### Migrations
`catalog-migration-runner.ts`, `infrastructure/cache/migrations.ts` and
`sqlite-cache-repository.ts`, `infrastructure/history/history-migration-runner.ts`.
- *State*: the ledger of applied migrations and the schema, in one file.
- *Operations*: load of the files of the build, `BEGIN IMMEDIATE`, comparison with
  the ledger, completion of old ledgers, application, commit or roll-back.
- *Hard*: processes of several builds open a new or an old file at once, and one
  stops in the middle.
- *Correct*: each migration runs once and in order; an opening leaves the schema of
  its build; only an edited or renamed migration is refused.

### Web cache
`infrastructure/cache/sqlite-cache-repository.ts`, `safe-cache-repository.ts`.
- *State*: two tables with expiry, retention and last use, counters kept by
  triggers, the circuit breaker of each server.
- *Operations*: read (select, then touch or delete), write (upsert, pruning and
  eviction in one transaction), refresh.
- *Hard*: other servers replace a row between the two statements of a read; an
  entry may be larger than the whole cache and evict itself; a failing file.
- *Correct*: counters are those of the rows, the limits hold after each write.

### fetch_url and search_web
`application/use-cases/fetch-url.ts`, `search-web.ts`,
`infrastructure/search/searxng-search-provider.ts`, the registry of official
sources.
- *State*: per call, its deadline, the entry it read, what it has gathered; per
  server, the registry it started with.
- *Operations*: approval, cached answer, conditional download, extraction,
  storage, stale fallback; passes over official sources, the English pass, ranking,
  policy filter, cached and stale results.
- *Hard*: two calls for one page, where a 304 refreshes an entry that the other
  replaced; redirecting pages with equal tags; a cache shared by servers with
  different registries; deadlines in every await.
- *Correct*: an answer is as recent as its warnings say; with `strict` nothing
  unverified is answered, and no verified result gives way to another.

### PDF worker pool
`infrastructure/fetch/recovering-worker-pool.ts`, `pdf-text-extractor.ts`.
- *State*: the slots, the worker or the repair of each, reservations, pending
  requests of each worker.
- *Operations*: reservation by polling, extraction with a deadline, termination,
  replacement with a delay between attempts.
- *Hard*: a worker dies while it is reserved, repaired or answering; late answers.
- *Correct*: no slot is lost, no worker has two tasks, no text is another's.

### Search history
`infrastructure/history/sqlite-search-history-repository.ts`,
`application/services/search-history-sanitization.ts`,
`presentation/mcp/search-history-tool.ts`.
- *State*: one table, with a retention and a maximum.
- *Operations*: append with pruning in one transaction; pages by descending id.
- *Hard*: processes append and prune between the two statements of a page and
  between pages; redaction changes the length of a query.
- *Correct*: a walk shows every kept row once; only old or surplus rows go.

### Extraction and selection
`infrastructure/fetch/html-document-extractor.ts`,
`domain/services/content-selection.ts`.
- *State*: three automata over the tags of a page; budget and ranking of sections.
- *Hard*: elements that hide nest in each other in every order; fences, links and
  ticks left open by a cut; sections that fit neither whole nor cut; headings that
  are cut before they are ranked.
- *Correct*: what is shown is the content and all of it; a selection says what it
  leaves out, but for the end of a long heading (§5).

### Secure HTTP gateway
`infrastructure/fetch/secure-http-gateway.ts`.
- *State*: the semaphore and its waiters, the promise chain and last request time
  of each origin, a robots.txt cache per download.
- *Operations*: `download`, `follow` (approval, robots.txt, throttle, request,
  redirect), each under one deadline.
- *Hard*: a deadline may pass in every await, also while a permit or a turn is
  being handed over; the maps are bounded or cleaned up by the calls themselves.
- *Correct*: permits are conserved, queues keep nothing of ended calls, the first
  requests to an origin are spaced; those repeated at further addresses are not (§5).

### Not modelled
- *URL policy and DNS*: a pure decision on a URL and its addresses, an outcome in
  the gateway and in `FetchUrl`.
- *`application.yml` and the environment*: a schema applied once at start; its
  values are the constants of the models.
- *Bootstrap and shutdown*: wiring; the order of its `close` calls
  (`bootstrap/main.ts:24-33`) lets running calls fail with errors and loses nothing.
- *Ranking of `search_docs`, reranking by vectors*: numbers from a formula; the
  reads keep any of the hits within the limit.
- *Tokenization of tags, attributes and entities; pages that are not well nested*:
  strings put together character by character, without state between them.
- *Registration, schemas, usage and wording of tools and commands; logging.*
- *Packaging, scripts and benchmarks*: not part of the running program.

### How the components interact
`catalog sync` reads the source file, starts a run (sync runs), and for each
document reads the catalogue, fetches through the gateway, and commits a revision
in one transaction that first renews the lease. `catalog maintain` holds the file
lock while it migrates, deletes finished runs (sync runs) and compacts the file; purges
and backups are commands of their own. `ingest-text` commits a revision without a
lease. The server only reads the catalogue, and uses the gateway, the PDF pool, the
extraction, the cache and the history. Processes share nothing but the SQLite files, the
backup directory and the lock file; within a process calls interleave at each
`await`, while better-sqlite3 and the `node:fs` calls used here are synchronous.

## 2. Modules

| module | models | composes |
|---|---|---|
| `SyncScopeLease` | abstract: leases over scopes, a write goes to a holder only | |
| `CatalogSyncRuns` | `sync_runs`, C014, every store and its process | implements `SyncScopeLease` |
| `FileLeaseLock` | the lock file of a maintenance cycle, one action per system call | |
| `CatalogMaintenance` | the steps of a cycle, retention of runs, release | sees the lock as `owner` |
| `CatalogRevisions` | catalogue tables and index, one action per transaction | |
| `CatalogVerification` | the verification, one action per statement, beside the writes of others | extends `CatalogRevisions` |
| `CatalogReads` | lists, searches, sections and resources, one action per statement | extends `CatalogRevisions` |
| `Snippets` | the snippet of a result | |
| `CatalogSync` | runs, their documents, answers and reports | sees the lease as `holder`, a revision as one write |
| `SourceCommands` | the source file and the commands that read it | |
| `CatalogBackup` | snapshot and publication, with crashes and power losses | |
| `Migrations` | ledgers of the cache, the history and the catalogue | |
| `SecureHttpGateway` | downloads, permits, origins' queues | |
| `WebCache` | tables, counters, circuit breakers | |
| `FetchUrl`, `SearchWeb` | the two web tools, one action per segment between awaits | extend `WebCache` |
| `OfficialSources` | what the registry accepts, verifies and detects | |
| `WebTools` | several servers and calls over one cache | `FetchUrl` and `SearchWeb` |
| `PdfPool` | slots, workers, requests, timers, messages | |
| `SearchHistory` | recording, pruning, walks | |
| `HtmlExtraction`, `ContentSelection` | from HTML to Markdown, from Markdown to sections | |
| `MC…` | instances for TLC | |
| `…Proofs` | theorems and proofs | |

**CatalogSyncRuns.** `runs` is the table; `owned`, `pc`, `request`, `scanned` and
`abandoned` are one store's memory. A store is synchronous, so its calls do not
interleave with each other, but other processes run between two SQLite
statements: `Scan` (the SELECT), `Probe` (one row judged), `Recover` (the UPDATE
transaction, guarded by the very lease that was read), `Insert` (guarded by the
trigger). `PersistObservation` is any catalogue transaction that carries an
observation; `lastWriter` is history. A process lifetime is a constant, so that
PID reuse is a function (`PidOf`), and a process that dies never returns.
Statuses PARTIAL and CANCELLED behave as SUCCESS and FAILED. `SyncScopeLease`
says what the store promises: leases of overlapping scopes exclude each other,
tokens grow, and only a leaseholder writes. The refinement maps the EXECUTION
rows to leases.

**FileLeaseLock.** The lock file is named by the process that created it, since a
process runs one cycle. Each `pc` value is a point between two system calls. Ages
are told as far as `staleAfterMs` tells them (`Expire`). `displaced` is history: the
owners whose file another process moved without having examined it, or removed
as a consequence.

**CatalogMaintenance.** Each step of a cycle is an action, `RenewLock` before it,
and `LoseLock` (what `FileLeaseLock` shows to be possible) between any two.
Synchronizations start, note events and finish beside it. `late` is history: what a
cycle did to the catalogue after it lost its lock.

**CatalogRevisions.** A version is a pair of a document and a content hash, a
section has an id that may be given again, an index row has a rowid, a text and a
title. One action is one SQLite transaction, with all the statements of the
call. `Spec` has the calls the application makes; `SpecStaged` adds the deprecated
staging calls, `Replacements` the in-place replacement of current sections, which
damages the index (`sqlite-catalog-revision-writer.ts:255`: sections go before the
index rows that are found through them). `IntegrityIssues` is what the queries of
the verifier find in one state, a named set for each. `newer` keeps the order in which
versions were last inserted, in place of timestamps.

**CatalogVerification.** `verifyCatalogIntegrity` is a sequence of statements, each on
the tables as they are when it runs (`Select`): no transaction holds them together,
neither at the opening of the repository (`sqlite-catalog-repository.ts:86-91`, for
the server and for most commands), nor at that of the purger
(`sqlite-catalog-version-purger.ts:75`), nor for `catalog verify`. Other processes
write between two of them (`Watch`). The rows that the index should have are written
to a temporary table (`FillExpected`, `catalog-integrity.ts:247-270`) that a later
statement compares (`CompareWithExpected`, 279-320); the comparison may throw, which
is reported too (`CannotCompare`). `standing`, `seen` and `rewritten` are history: the
issues that were there all along, those that were there at some time, and the
documents written between the filling and the comparison. Words are not modelled: an
index row has a text, and the comparison is of texts. `integrity_check` and
`foreign_key_check` are SQLite's own statements and are left out. The verification of a
backup is of a snapshot that nobody writes, so it is one state's.

**CatalogReads.** A reader's call is a sequence of statements over the state of
`CatalogRevisions`; a walk (`IsWalk`) goes on from page to page by offset until the
total is reached. Sizes in characters are operators, and budgets drop items of a
page as the code does. `steady` is history: whether every write since the walk began
has kept the rows of its list (`KeepsRows`): none left it, and no version was fetched
again, which moves it to the front of the versions of its document. Which hits the
limit keeps is open, as the ranking is not modelled.

**Snippets.** `ScoreWindow` is one round of the loop over the occurrences of the
terms, `ShowSnippet` the choice of what is shown. Positions are UTF-16 units, and a
word says whether its characters are surrogate pairs, so that a window may begin
between the two. `Score` is a function of a window, and the property compares what
the loop has kept with all windows.

**CatalogSync.** For each run: `step`, `plan` (selection, cursor, fingerprint),
`seen` (row and version as read), `answer`. The lease is `holder`, which
`RecoverLease` may take away at any time: that this is what the run store does is
the subject of `CatalogSyncRuns` (a write is persisted only by the latest
leaseholder). A page holds a content and gives out validators that are true of it;
a redirection makes the stored validators unusable for the next request, as
`createFetchContext` has it. Creating the plan and starting the run are one
action; both come before the first read of a document. Documents in `Ingested`
may also be written by `ingest-text`.

**SourceCommands.** The content of the file is parsed (`AcceptsFile` and `Parsed`: keys,
duplicates, languages in canonical form) when a command starts; a load then reads
and writes one source at a time. `overwritten` and `seen` are history. A key is the
sequence of its pieces between colons, so that the text of a cursor is parsed as
the code does, at its first colon.

**CatalogBackup.** The backup directory is `entries`, what survives a power loss is
`onDisk` and `flushed`. `Copy` yields the catalogue of a moment, since SQLite starts
again when another process writes. A flush fails or not.

**Migrations.** One module for three runners, whose differences (`kind`) are the
handling of ledgers without checksums. `tx` is what the writer has written and
nobody else sees. Each process has the files of its build, whose names and texts
are members of two sets. `MigrationsAssumption` says of a build that its migrations
are numbered from one without a gap, as the files in the three directories are, and
of the old files that their ledgers tell what ran in them.

**SecureHttpGateway.** One action per segment between two awaits. `chain[o]` is
the set of unreleased slots the tail promise of origin `o` still waits for, `last`
the call that set that tail, `ahead[p]` what is left of the predecessor of `p`.
Deadlines and spacing are measured on one clock. Requests for robots.txt go
through the same queues. A request goes to the approved addresses one after the other
(`TakeAddresses`, `left`): after a failed connection or an aborted response `Retry`
repeats it at the next one, with no throttle before it (`requestPinned`,
`secure-http-gateway.ts:248-278`), and `Finish` may also be the failure of the last.
The URL policy, the byte budget and the matching of rules are outcomes (`Finish`).
`sent` and `forsaken` are history.

**WebCache, FetchUrl, SearchWeb, WebTools.** A read of the cache is two actions
(select, then touch or delete), a write one, with pruning and eviction by the
counters. `failedAt` is each server's breaker. A call is a record with its step,
deadline and what it has so far; the content of each page changes, and so does
where it redirects; the ETag of a page is that of its content, so two pages may
have equal ones. `served` is history: when a page last answered a content,
against which the age of an answer is measured. Time passes only while each call waits for something outside
(`WebTools!Tick`). `SearchWeb` keeps of a query its terms, policy, language,
domains and limit; the score of a result is computed from its signals.

**PdfPool.** A slot holds a worker or is being repaired; `Settle` is the end of an
attempt. Messages of workers are in `inbox` and may come after the timeout or the
death of their worker. What a worker parses is only whether an answer comes.

**SearchHistory.** A query is what its lengths tell apart, since the only computed
property of it is whether its masked form still fits the schema. Counting, reading
and pruning are separate statements. The table is a set of rows, and
`ORDER BY id DESC LIMIT n` is `Newest`: the rows with fewer than n above them. A
walk remembers its pages in order. Ids are one more than the largest there is.

**HtmlExtraction.** The passes of the code (metadata, sanitization, rendering) are
automata over the tags, and here they read each tag side by side. `nesting` is the
page's own structure, which the code does not have and the property is about.
`HtmlAssumption` leaves out `embed`, which is both an active container and void, so
that the sanitizer waits for an end that never comes and drops the rest.

**ContentSelection.** A document is a sequence of lines with their lengths and terms.
It is split at its first headings outside of fences; a section is the set of its
lines, and its length, its code and its first terms are numbers of places in them.
The loop of `selectRelevantContent` takes the best section that is left, whole
(`TakeWhole`) or cut (`TakeCut`), or finds no room (`NoRoom`). A heading that starts a
section is rendered and searched as what `scanMarkdownHeadings` keeps of it (`Kept`):
a title longer than `MAX_EXTERNAL_HEADING_CHARACTERS` loses its end, and its last word
is another one, as the ellipsis sticks to it (`IsKept`). Lines after the first 20,000
(`MAX_MARKDOWN_STRUCTURAL_LINES`) are one line in the code; the model has no such limit.

**MC modules.** TLC checks small components in one run each: a variable `part`,
chosen at the start, says which instance moves, and the variables of the others
keep one value. A property of such a module is that of the instance, or the
conjunction of two or three of one instance. `MCLiveness` has two parts,
`MCComponents` nine, whose instances are in `MCStorage`, `MCDocuments` and
`MCCommands`. The four parts of `MCCatalog` and the two of `MCCatalogSync` are
different instances of the same variables instead: each has its calls and its bounds
(`IsWithin`, `IsDamaged`; `TwoRuns` and `OneRun`), and the reads begin with a catalogue that a
synchronization has just left (`Populated`). `MCWebTools` starts in one of several
cases instead (which client calls which tool), `MCCatalogSyncRuns`,
`MCFileLeaseLock` and `MCSecureHttpGateway` only name constants.

## 3. Runs

Every run checks deadlock except where the system may stop: processes die, calls
end, clocks and ids are bounded (`CHECK_DEADLOCK FALSE`). Deadlock is checked in
`sync_fenced` and `liveness`.

| run | module | instance | shows |
|---|---|---|---|
| `sync_runs_leases` | `MCCatalogSyncRuns` | 2 processes on 2 hosts, 1 run id used again after retention, 2 tokens, clock 0..2 that may go back, `AbandonedAfter` 1 | `LeaseInv`, handles, justified fencing, fencing tokens, frozen rows |
| `sync_runs_recovery` | `MCCatalogSyncRuns` | 3 processes on 1 host, p3 with the PID of p1, runs on a source, on all, and plans; 2 ids | scope exclusion, refinement of `SyncScopeLease`, dead owners released |
| `lock_races` | `MCFileLeaseLock` | 4 interchangeable processes, every call may fail | `LockInv`, with no live owner ever recovered; exclusion barring displaced owners |
| `lock_two_holders` | `MCFileLeaseLock` | 4 processes (violation) | §5 |
| `catalog` | `MCCatalog` | *writes*, calls of the application: 2 documents in 2 sources, 3 contents, 2 titles, up to 2 sections, ids 1..4; *opening*, a verification among such calls: 2 contents, 1 section, ids 1..2; *legacy*, a verification among the deprecated calls: 1 document, 2 contents, ids 1..3; *reads*: 3 documents of which 2 exist at first, 3 writes, 1 client, pages of 1, 2 and 9, budgets 2 and 3, ids 1..5 | `CatalogInv`; what a verification reports, statement by statement; purges; complete walks |
| `section_reused` | `MCCatalog` | 4 writes beside one reader (violation) | §5 |
| `sync_fenced` | `MCCatalogSync` | 2 runs on 1 document, 2 contents, all answers but "gone", direct or permanently redirected; and 1 run at a time over 3 documents, 3 configurations, limits 1, 2, 4 | nothing stale over a successor's work; changes are recorded; batches cover the configuration |
| `liveness` | `MCLiveness` | 1 run at a time, 1 document, 2 contents, failures, crashes, fencing, ingestion; and 3 processes over a lock, 2 with one PID, 1 on another host | convergence, a 304 is about the content kept; dead locks recovered, no heartbeat file left |
| `gateway` | `MCSecureHttpGateway` | 3 downloads, 2 permits, 2 origins, 2 addresses each, limits of 2 and 3, history of 1, 1 redirect, robots.txt, clock 0..3 | permits, queues, spacing of first requests |
| `gateway_delay` | `MCSecureHttpGateway` | 3 downloads of 1 origin (violation) | §5 |
| `web_tools` | `MCWebTools` | 2 servers, 2 calls, 2 pages of which one may redirect to the other, 2 contents (one larger than the cache), 2 entries, 3 bytes, clock 0..2, 1 event, 2 registries, 2 results | bounded cache, recent answers, source policy |
| `components` | `MCComponents` | see below | one property per part |

The parts of `components`:

| part | instance | property |
|---|---|---|
| migrations | 3 openings by processes of 4 builds, a new file and old files of each ledger | `LedgersAreTrue`: each migration once and in order, openings up to date, only edits refused |
| backups | 2 processes, 2 names, 1 change of the catalogue, crashes, a power loss at any moment | `BackupsHold`: a name is a whole snapshot, answers stay true |
| cycles | 2 cycles, one with VACUUM, synchronizations, clock 0..1, 2 attempts of release | `MaintenanceIsExclusive`: at most one thing after the loss of the lock, and no success told; events name their runs |
| history | 3 calls, 1 walk, retention 1, 2 entries, days 0..2 | `HistoryIsTrue`: walks show each kept row once; only old or surplus rows are pruned |
| pool | 2 slots, 2 documents, 3 workers, clock 0..2 | `SlotsComeBack`: no slot is lost, a reserved worker has one call, a text is of its document |
| html | depth 4, 15 kinds of elements | `OnlyContentIsShown` |
| selection | up to 4 lines of 7 kinds, one of them a heading that is cut, 3 selections | `SelectionIsHonest`: limits, better sections first, truncation told exactly but for headings |
| snippets | up to 5 words of 4 kinds, radius 2 | `SnippetShowsTheBestMatch`: the best window, cut between characters, with its occurrence in it |
| commands | 2 operators, 3 commands, 2 sources, 3 contents of the file | `CommandsAgree`: loads reconcile, plans foretell, batches follow the cursor |

**Bounds.** `MaxRunId` 1 with retention makes the reuse of an id reachable at once,
`MaxRunId` 2 lets two runs coexist. `MaxTime` 2 with `AbandonedAfter` 1 is the
smallest clock on which a lease expires (the comparison is strict) and on which
time can also be set back. Three processes are what one dead owner, one recovery
and one racing process need; four are needed for two recoveries of one lock and
a third process that finds the path free. Three contents give a purge two old
versions to choose from. One write during a verification (`MaxDuring`) falls between
any two of its statements; one verification is enough, since it leaves nothing to the
next and several do not meet. In *legacy* it begins with what the writes can damage
(`IsDamaged`): an index row that does not match, or a document without versions. Two
runs suffice for fencing, since a third is to the
second what the second is to the first; the proofs need no such bound. A page that
is gone differs from a missing one in the status it leaves and is left to `liveness`
(`NoneIsGone`). The clock
of the gateway lets one call wait for a spacing, one behind it give up and a
third arrive. Two permits and three downloads make one wait; two addresses make one
request repeated. On the clock of
`web_tools` an entry expires at 1 and leaves its retention at 2, so that fresh, stale
and lost entries occur, and a write by one server falls between the read and
the answer of the other. Its one event is a failure of the cache file, a change of a
page or a restart. A first build, the next one, a
checkout with other line ends and a build that edited a shipped file are the
relations two builds can have. A third worker dies in place of
one of two slots; a third call of the history overflows two entries during a walk.
Depth 4 has each pair of hiding elements in each other, with content inside and
between. Two lines more than a section and its fence make a selection choose. Five
words are longer than a window of radius 2, so windows overlap, and are moved back
from the end. Three writes beside a walk add a row, remove one and fetch a version
again. Three
commands are a load or a batch, an edit, and what follows from both.

**Symmetry** is used where the processes, contents, titles or downloads are
interchangeable, never with a liveness property. In `components` the callers of the
history and the operators start in their order, which is the same reduction.

**Fairness.** `CatalogSyncRuns`: weak fairness of each store's recovery steps,
because `recoverAbandonedRuns` is synchronous code that runs on once begun; nothing
is assumed of starts, observations or completions, nor that processes live.
`FileLeaseLock`: weak fairness of acquisition and recovery, synchronous calls
likewise; `Die` may stop them at any point, and the property excepts dead
processes. `CatalogSync`: an operator or a scheduler synchronizes again and again
(`Starts`), an abandoned lease is recovered (what `DeadOwnersAreReleased` and
expiry give), a live run proceeds, and the reads, the answer and the write of a
document succeed some of the time if they are attempted for ever. This last is
strong fairness and an assumption on the world rather than on the code: a page
that always fails is never synchronized. `Quiet` names the rest of the hypothesis:
pages and configuration settle, texts are no longer ingested, and working runs are
no longer fenced. `MCLiveness` assumes both, each while its part moves. Of the other
modules only safety is checked.

## 4. Proofs

All by TLAPS, for any constants that meet the named assumptions of the modules
(`ProcAssumption`, `CacheAssumption`, `SearchAssumption`, `PoolAssumption`, …): the
special values are not members, limits are naturals, and what the code validates at
its entry (a registry, a configuration, a page size) has been validated. TLC
evaluates them in the runs.

| proof module | theorems | inductive invariant |
|---|---|---|
| `CatalogSyncRunsProofs` | `RunsExcludeEachOther`, `FencedRunsNeverWrite`, `FinishedRunsStay`, `RunsImplementScopeLease` | `LeaseInv` |
| | `LiveOwnersCanComplete`, `OnlyAbandonedRunsAreFenced` | `OwnerInv` |
| `FileLeaseLockProofs` | `LockIsExclusiveUnlessDisplaced` | `LockInv` |
| | `NoHeartbeatStays` | `HeartbeatsAreOwned` |
| `CatalogRevisionsProofs` | `CatalogInvariant`, `PurgesAreInvisible` | `StagedInv`, `CatalogInv` |
| | `SoundCataloguesOpen`, `VerificationsAreTrue` | `VerifyInv` |
| | `PurgesTakeTheOldest` | `TablesInv`, `LegacyInv`, `OrderInv` |
| | `CatalogStaysWhole`, `VerificationIsTrusted`, `PurgesKeepTheNewest`, `PurgesStayInvisible` | `PartInv` |
| | `WalksMissNothing` | `ReadsInv` |
| `CatalogSyncProofs` | `RowsDescribeTheirVersions`, `WritesAreWhatThePageHad`, `ReplacementsAreRecorded` | `SyncInv` |
| | `BatchesFollowOneConfiguration` | `BatchInv` |
| | `LocksAreSoundBesideSyncs` | those of `FileLeaseLockProofs` |
| `SecureHttpGatewayProofs` | `PermitsInvariant`, `QueuesInvariant`, `DelayTheorem` | types, queues and chains |
| `WebToolsProofs` | `CacheStaysBounded`, `AnswersStayRecent`, `PolicyIsFollowed` | `WebInv` |
| `StorageProofs` | (lemmas) | `MigrationInv`, `BackupInv`, `CycleInv`, `HistoryInv`, `CommandInv` |
| `ComponentsProofs` | `LedgersStayTrue`, `BackupsHoldAlways`, `MaintenanceStaysExclusive`, `HistoryStaysTrue`, `CommandsAlwaysAgree` | those |
| | `SlotsAlwaysComeBack`, `ContentAloneIsShown`, `SelectionsStayHonest`, `SnippetsShowTheBest` | `PoolInv`, `HtmlInv`, `SelectionInv`, `SnippetInv` |

Why what the runs check is not inductive by itself, and what is added:

- *Leases.* `WritersInTokenOrder` depends on what stores hold in memory: a token in
  memory that equals the token of a RUNNING row names this process's run under the
  same id and for the same request (`HandlesMatchRows`; ids are reused, tokens are
  not), tokens are issued in increasing order (`TokensAreMinted`), and nobody who
  came after a run in execution has written to its sources
  (`LeaseholderIsLatestWriter`). Fencing needs that the owner of a row has been
  launched, that a store between two statements is alive, and that the verdict
  "abandoned" on a row stays true until it is used (`VerdictsStand`): an owner that
  is gone does not return, and a heartbeat makes the guard of the UPDATE fail.
- *Lock.* A holder's file is at the lock path unless a race displaced it; what is in
  the rename and clean-up steps belonged to a dead process; the file cleaned up is
  the one examined. When no call fails, the owner of a heartbeat file holds the lock,
  is at a step of the release that still has to remove the file, or died with it
  (`HeartbeatsAreOwned`).
- *Revisions.* Removing and inserting the rows of one document keeps the index exact
  provided section ids are unique, so that is part of the invariant. What the
  verifier's queries find in one state is compared with what they are for on every state
  that the tables can be in, with the index rows of older builds, extra ones included;
  this needs the types and the unique keys only. `newer` is a strict total order on the versions of
  one document (`OrderInv`), which new fetches, promotions and purges keep: of what a
  purge may take, a version with as many newer ones as it keeps is older than all it
  keeps.
- *Verification.* Each statement sees one state, so what it reports was there then
  (`seen`), and what was there all along it finds; only the comparison looks at two,
  and of a document that nobody wrote between them the expected rows are those that
  the state of the comparison would give (`VerifyInv`). Among the calls of the
  application `seen` stays empty, which is `CatalogInv`.
- *Walks.* A list is a finite set of rows in a strict total order, and the rank of a
  row is how many come before it: the page at an offset has the rows of its ranks.
  While no row leaves the list, no rank falls, so what a walk has not shown of the
  rows it began with stays behind its offset (`SteadyWalk`); and a list to whose end
  rows are added shows none twice (`FreshWalk`). That documents and sources are such
  lists rests on their ids, which are `1..n` without a hole as rows are never
  deleted (`IdsInv`); that versions are ordered, on `OrderInv`.
- *Synchronization.* While a run holds the lease, what it read still stands
  (`ReadsStand`), up to texts ingested meanwhile, whose validators are unusable; an
  answer's validator is true of its content (`AnswersStand`). A chain of batches is
  about a sequence: what the run processed followed by what it selected is the
  fingerprinted configuration up to the cursor (`BatchInv`), so the next batch, which
  starts behind the cursor, can skip none and repeat none. It rests on the documents
  of a configuration being distinct, which its parser checks.
- *Gateway.* Queues without repetition come first, then cardinalities. The spacing
  rests on the shape of a chain (`Line`): the calls of an origin that is not
  forsaken are all in its chain (`Covered`), its tail waits for all the others
  (`TailsWaitForAll`), of any two one waits for the other (`Ordered`), so that a call
  that is let through is alone. A repetition at a further address is not let through by
  anyone and leaves the queues as they are. A call that gives up behind a waiting one breaks
  `Covered` and nothing else: that is what `forsaken` records.
- *Cache and web tools.* The counters are sums over the rows, kept by each statement
  (`CacheIsBounded` is inductive with the types). An answer is recent because an
  entry expires a lifetime and a call after its page answered its body
  (`EntriesAreSound`), which a 304 keeps true only because a tag is that of its content
  (`TagIsTrue`) and a refresh compares tags; and because what a call has so far was
  served since it started. The policy of a cached search is checked again at its
  answer, against the registry of the server that answers it.
- *Migrations.* While a process writes, its transaction continues the file that
  everybody sees (`Continues`), the migrations before its own have run
  (`HasRun`) and the rows of the others are as it found them. The ledger and the
  schema have the same versions, which are `1..n`, so the one that has no row is the
  next.
- *Backups.* Before a process has linked a name, no name is its file's, now or after a
  power loss, and the file is whole and flushed (`NamesAreSafe`, `StepIsSound`): this
  is what the flush of the directory and the order of the steps are for.
- *Cycles.* A cycle that has lost its lock has done one thing at most, and stands
  before a renewal that will fail (`LatenessIsNoticed`).
- *Pool.* A reserved worker is held by one call, a call that waits is the one its
  worker works for, and an answer under way that bears the number of the last
  request is about its document (`AnswersAreCurrent`).
- *History.* The row of the largest id is never deleted, so ids are given once. A walk
  has shown what is still there down to its cursor and nothing below (`WalkIsSound`):
  what matched at its start still matches, as rows do not change and only expire.
- *Source commands.* A load has left, of the sources before its position, what the
  file said, or another wrote them since (`LoadIsSound`; the keys of a file are
  unique, so a later source of the same load is none of them). A report names a
  document of its fingerprint (`ReportIsSound`), and a fingerprint holds the
  documents, so equal fingerprints give the cursor its place: in full since the key
  of a source has one piece, in short since the documents of a scope are those of one
  source (`CursorIsThatOfTheReport`).
- *HTML.* The state of each of the three passes is a function of the elements that
  are open: whether one that it removes is around (`Skips`), whether one whose end
  matters is (`IsOpen`), and what is rendered inside of that, unless an active
  container was inside one of its name, which `doubled` records (§5). So the passes
  agree on what is content although each has its own rule for the end of an element.
- *Selection.* What was taken, with what is left, is the limit; every taken section is
  better than those taken after it and than those that are not (`SelectionInv`). The
  loop leaves a candidate out only without room or at `maxSections`, and both are
  told. That a line with a term of the query is shown follows by numbering the
  sections up to its own and the terms before it; the terms of a heading that are not
  cut off stand in what is kept of it where they stood (`KeptTypes`).
- *Snippets.* The window kept is the best of those scored so far, which are those of
  the occurrences up to `anchor` (`SnippetInv`). That its occurrence is shown takes
  the arithmetic of positions: a window reaches back at most a radius, its start moves
  by one unit at a pair and one at a space, and the cut leaves all but one of as many
  characters as two radii.

Inductions over finite sets (sums, extremes, numberings) are by a smallest
counterexample in the well-founded order of strict subsets, since the induction
theorems of the library take an operator. That `FlattenSeq`, a recursive function,
is defined on every sequence of sequences (`FlattenIsSequence`) is by a least length
for which it would not be. The transactions of `MCComponents` need no
frame conditions beyond one lemma: a behaviour is one of a single component
(`OneComponentMoves`), and each theorem says "if the behaviour is one of this
component".

Some models changed because a proof asked for it. The alternatives of a `CASE` in the
search passes overlapped, which TLC settles by taking the first one; they are now
disjoint. The history was a sequence that was always sorted; it is a set of rows
with ids, as the table is. The documents of a scope were chosen with `SelectSeq`,
which the prover knows nothing of; they are a flattened sequence of pieces. The
sections of a page and the windows of a snippet were folds over text; they are sets
of lines and of positions, whose numbers say the same. And a walk was called
`steady` when no row had left its list: the proof failed on a version that is fetched
again during a walk through the versions of its document. It moves to the front,
where the walk has been, and pushes rows back that the walk then shows again, but it
is missed itself when the walk had not reached it. `KeepsRows` excepts that case by
name, and it occurs in the run.

Some theorems are about the `MCSpec` of a run, for any values of the constants. The
bounds that an MC module itself sets (`IsWithin`) are used in no proof. A module with several
parts gives its variables to one of them; `PartStep` and `OneComponentMoves` say that
a step is one of that part. Where a module is proved by itself, the instance inherits
its theorem: `LockFacts` in `CatalogSyncProofs` is `FileLeaseLockProofs` for the lock
of `liveness`.

Only model-checked: liveness (`DeadOwnersAreReleased`, `DeadLockIsRecovered`,
`SynchronizationsConverge`), which the prover does not reach. Every other property of
the passing runs is stated by a theorem. The three violations of §5 are
counterexamples of TLC's, so there is nothing to prove of them but what does hold
instead.

## 5. Where the code departs from what is said of it

- `lock_two_holders`: two maintenance cycles at once. A recovery reads a stale
  lock, another process recovers it first and creates its own, the first renames
  that new lock to its quarantine, and before it is put back a third process finds
  the path free. The operations guide (`docs/reference/catalog-operations-v2.md:136`)
  promises one cycle. It takes three commands within moments of one another after
  a crash. `ExclusiveUnlessDisplaced` is what does hold, and `MaintenanceIsExclusive`
  bounds what the displaced cycle still does. A release has the same gap, between
  the check of its token and its `unlink`.
- `gateway_delay`: two requests to an origin at once. A throttle call that times
  out behind a waiting one deletes the tail of the queue although its predecessor
  still waits; the next call does not wait. A test title
  (`tests/infrastructure/audit-p2-p3-remediation.test.ts:165`) promises
  serialization. `FirstRequestsAreSpaced` is what does hold, of the first request at
  the addresses of a host.
- `section_reused`: `read_doc_section` answers another section than the one found. The
  tools reference (`docs/reference/tools.md:150`) says that the `sectionId` of a
  result reads that very section; but the id is a rowid, which SQLite gives
  again as the table has no AUTOINCREMENT. In the run a purge and a content that is
  committed again, both beside the client, free the largest ids before the next
  sections take them.

Without a run, since the models have the case and their properties except it by name:
- A verification refuses a sound catalogue when another process commits between the
  filling of the expected index and the comparison (`catalog-integrity.ts:247-270`,
  279-320): a `FTS_ENTRY_CONTENT_MISMATCH` ("has stale indexed content") of a document
  that is indexed as it should be, and an opening that fails
  (`sqlite-catalog-repository.ts:86-91`).
  `docs/reference/catalog-operations-v2.md:38-40` has the start fail closed for a drift
  of the index, which this is not. `rewritten` in `VerificationIsTrue`.
- Requests repeated at further addresses of a host follow each other at once
  (`secure-http-gateway.ts:248-278`), with no delay between them nor before the next
  first request, while `docs/reference/configuration.md:76`, `security.md:39` and
  `catalog-sync-v2.md:143-144` tell of a minimum delay of requests to an origin.
  `FirstRequestsAreSpaced` is of first requests.
- A heading is cut to 256 characters before it is searched and shown
  (`markdown-structure.ts:49`, `content-selection.ts:135-139`), and the answer does not
  say so, although `docs/reference/tools.md:119` has each section tell whether it was
  truncated. A term past the cut finds nothing. `IsCutOff` in `SelectionIsHonest`.
- A cursor in short form whose stable key has a colon is taken for a full one
  (`cli/catalog.ts:552`), although `docs/reference/catalog-sync-v2.md:118-121` offers
  the short form; `Misread` excepts it from `BatchesFollowTheCursor`.
- An active container inside one of the same name ends with the inner end, so the
  rest of the outer one is shown (`doubled` in `OnlyContentIsShown`).

Behaviour that no document settles, and that the models keep as it is: a 304 on a
document that was STALE leaves it STALE, so it is not searched until its content
changes (`sync-catalog-documents.ts:235`); a run that resumes without a limit
reports the old cursor again; a 404 that races with `ingest-text` writes back the
title read before (`RowDescribesItsVersion` excepts ingested documents); a lock
file left empty by a crash between its creation and its write is never recovered;
a query whose masks make it longer than the schema turns its whole page of the
history into an INTERNAL_ERROR; a write of the cache that evicts its own entry
still answers that it stored it.

## 6. Plan

The plan of this development is carried out: every property of the passing runs
that is not a liveness property has its theorem. What would extend it:
1. An abstract specification of the lock, with displacement as one of its steps, that
   `FileLeaseLock` implements, as `CatalogSyncRuns` implements `SyncScopeLease`.
2. The ranking of `search_docs`, of which only the set of hits is modelled, and the
   parsing of `application.yml`.
3. The tokenization of tags and attributes, for pages that are not well nested.
