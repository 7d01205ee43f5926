--------------------------- MODULE SearchHistory ----------------------------
(***************************************************************************)
(* The local history of searches: every answered search_web and search_docs*)
(* call leaves a row, list_search_history reads the rows page by page, and *)
(* each append prunes what is too old or too many.  Several server         *)
(* processes share the file, so the pages of a walk and the two statements *)
(* of a page are separate steps, and an append waits for the others between*)
(* reading the clock and writing.                                          *)
(*                                                                         *)
(* A query is what its lengths tell apart: the characters that are kept and*)
(* the secrets, each of which is written as a mask of MaskLength.          *)
(***************************************************************************)
EXTENDS Integers, Sequences, FiniteSets, FiniteSetsExt

CONSTANTS Call,           \* calls of search_web and search_docs
          Walk,           \* clients that page through list_search_history
          Searches,       \* the searches a call may make, and how each ends
          Listings,       \* the filters and page sizes of a walk
          Retention,      \* retentionDays
          MaxEntries,     \* maxEntries
          MaxQueryLength, \* the 500 characters of the output schema
          SecretLength, MaskLength,
          MaxPageSize,    \* the 50 entries of a page
          MaxTime,        \* bound: days that pass
          None

HistoryAssumption ==
  /\ Retention \in Nat \ {0} /\ MaxEntries \in Nat \ {0} /\ None \notin Nat
  /\ \A s \in Searches : /\ s.plain + s.secrets * SecretLength <= MaxQueryLength
                          /\ s.status \in {"success", "partial", "failed"}
                          /\ s.status = "partial" => s.tool = "search_web"
  /\ \A l \in Listings : l.limit \in Int

VARIABLES history,  \* the rows of search_history
          now,      \* the clock, in days
          call,     \* the searches in progress
          walk,     \* the listings in progress, with the pages they have seen
          appended  \* history of the model: every row ever inserted

historyVars == <<history, now, call, walk, appended>>

HistoryInit ==
  /\ history = {}
  /\ now = 0
  /\ call = [c \in Call |-> [pc |-> "idle"]]
  /\ walk = [w \in Walk |-> [pc |-> "idle"]]
  /\ appended = {}

(* The ids are those of an INTEGER PRIMARY KEY: one more than the largest. *)
NextId == IF history = {} THEN 1 ELSE Max({row.id : row \in history}) + 1

-----------------------------------------------------------------------------
(* Refused before the record: a request search_web cannot normalize, a     *)
(* blank query of search_docs.                                             *)
RefuseSearch(c) ==
  /\ call[c].pc = "idle"
  /\ \E s \in Searches :
       /\ ~s.valid
       /\ call' = [call EXCEPT ![c] = [pc |-> "refused"]]
  /\ UNCHANGED <<history, now, walk, appended>>

(* The search runs; what it answers or throws is settled before the record.*)
RunSearch(c) ==
  /\ call[c].pc = "idle"
  /\ \E s \in Searches :
       s.valid /\ call' = [call EXCEPT ![c] = [pc |-> "recording", search |-> s]]
  /\ UNCHANGED <<history, now, walk, appended>>

(* Sanitized: each secret becomes a mask, which may be longer than it.     *)
StoredLength(s) == s.plain + s.secrets * MaskLength

AppendReadsClock(c) ==
  /\ call[c].pc = "recording"
  /\ call' = [call EXCEPT ![c] =
       [pc |-> "writing", search |-> @.search, at |-> now]]
  /\ UNCHANGED <<history, now, walk, appended>>

NewRow(c) ==
  [id |-> NextId, tool |-> call[c].search.tool, status |-> call[c].search.status, at |-> call[c].at,
   length |-> StoredLength(call[c].search)]

Unexpired(rows, time) == {row \in rows : row.at >= time - Retention}

(* ORDER BY id DESC LIMIT n.                                               *)
Newest(rows, n) == {row \in rows : Cardinality({r \in rows : r.id > row.id}) < n}

(* What one transaction leaves: the row inserted, the expired ones deleted,*)
(* and then those beyond the MaxEntries newest.                            *)
Pruned(c) == Newest(Unexpired(history \cup {NewRow(c)}, call[c].at), MaxEntries)

(* The transaction commits.  The permissions of the files are set after it,*)
(* and when that fails the append answers false although its row is there. *)
AppendCommits(c) ==
  /\ call[c].pc = "writing"
  /\ history' = Pruned(c)
  /\ appended' = appended \cup {NewRow(c)}
  /\ \E stored \in BOOLEAN : call' = [call EXCEPT ![c] = [pc |-> "answered", stored |-> stored]]
  /\ UNCHANGED <<now, walk>>

(* A busy or broken file: logged, and the search is answered all the same. *)
AppendFails(c) ==
  /\ call[c].pc = "writing"
  /\ call' = [call EXCEPT ![c] = [pc |-> "answered", stored |-> FALSE]]
  /\ UNCHANGED <<history, now, walk, appended>>

-----------------------------------------------------------------------------
(* The WHERE clause: the retention first, then the filters that are given. *)
Passes(row, filter, time) ==
  /\ row.at >= time - Retention
  /\ filter.tool \in {None, row.tool}
  /\ filter.status \in {None, row.status}
  /\ filter.from = None \/ row.at >= filter.from
  /\ filter.to = None \/ row.at <= filter.to

(* Mutant: the row of the cursor is read again.                            *)
MatchingFromCursor(filter, before, time) ==
  {row \in history : Passes(row, filter, time) /\ (before = None \/ row.id <= before)}

Matching(filter, before, time) ==
  {row \in history : Passes(row, filter, time) /\ (before = None \/ row.id < before)}

ValidListing(l) ==
  /\ l.limit \in 1..MaxPageSize
  /\ (l.from # None /\ l.to # None) => l.from <= l.to

RefuseListing(w) ==
  /\ walk[w].pc = "idle"
  /\ \E l \in Listings :
       ~ValidListing(l) /\ walk' = [walk EXCEPT ![w] = [pc |-> "INVALID_ARGUMENT"]]
  /\ UNCHANGED <<history, now, call, appended>>

(* The first page: the total is counted, and what the model remembers is   *)
(* what matches then.                                                      *)
CountFirst(w) ==
  /\ walk[w].pc = "idle"
  /\ \E l \in Listings :
       LET rows == Matching(l, None, now)
       IN  /\ ValidListing(l)
           /\ walk' = [walk EXCEPT ![w] =
                [pc |-> "paging", listing |-> l, before |-> None, time |-> now,
                 total |-> Cardinality(rows), seen |-> <<>>, matched |-> rows]]
  /\ UNCHANGED <<history, now, call, appended>>

(* A later page reads the clock and counts again, without the cursor.      *)
CountNext(w) ==
  /\ walk[w].pc = "next"
  /\ walk' = [walk EXCEPT ![w].pc = "paging", ![w].time = now,
                          ![w].total = Cardinality(Matching(walk[w].listing, None, now))]
  /\ UNCHANGED <<history, now, call, appended>>

(* The response is checked against the output schema: a stored query that  *)
(* its masks made too long fails the page that holds it.                   *)
PageOutcome(page, hasMore) ==
  IF \E row \in page : row.length > MaxQueryLength THEN "INTERNAL_ERROR"
  ELSE IF hasMore THEN "next" ELSE "done"

(* One row more than the limit tells whether there is another page.        *)
ReadPage(w) ==
  /\ walk[w].pc = "paging"
  /\ LET rows == Matching(walk[w].listing, walk[w].before, walk[w].time)
         page == Newest(rows, walk[w].listing.limit)
         hasMore == page # rows
     IN  walk' = [walk EXCEPT ![w].pc = PageOutcome(page, hasMore),
                              ![w].before = IF hasMore THEN Min({row.id : row \in page}) ELSE None,
                              ![w].seen = Append(@, page)]
  /\ UNCHANGED <<history, now, call, appended>>

(* list fails as a whole: an empty, partial answer.                        *)
ListUnavailable(w) ==
  /\ walk[w].pc = "paging"
  /\ walk' = [walk EXCEPT ![w].pc = "HISTORY_UNAVAILABLE"]
  /\ UNCHANGED <<history, now, call, appended>>

Tick ==
  /\ now < MaxTime
  /\ now' = now + 1
  /\ UNCHANGED <<history, call, walk, appended>>

HistoryNext ==
  \/ \E c \in Call : \/ RefuseSearch(c) \/ RunSearch(c) \/ AppendReadsClock(c)
                     \/ AppendCommits(c) \/ AppendFails(c)
  \/ \E w \in Walk : \/ RefuseListing(w) \/ CountFirst(w) \/ CountNext(w)
                     \/ ReadPage(w) \/ ListUnavailable(w)
  \/ Tick

-----------------------------------------------------------------------------
(* A walk shows the rows from the newest to the oldest and none twice, and *)
(* one that ended has shown every row that matched when it began and that  *)
(* is still kept and unexpired, whatever other processes appended and      *)
(* pruned between its pages (sqlite-search-history-repository.ts, list).   *)
WalkIsExact ==
  \A w \in Walk : walk[w].pc \in {"next", "done", "INTERNAL_ERROR"} =>
    LET seen == walk[w].seen
    IN  /\ \A i, j \in DOMAIN seen : i < j =>
             \A newer \in seen[i], older \in seen[j] : newer.id > older.id
        /\ walk[w].pc = "done" =>
             \A row \in walk[w].matched \cap Unexpired(history, now) :
               \E i \in DOMAIN seen : row \in seen[i]

(* A row that was appended is missing only when a later append found it too*)
(* old or MaxEntries newer ones are there, an id is given once, and the row*)
(* of the last append stays (append, whichever process makes it).          *)
HistoryKeepsTheNewest ==
  /\ Cardinality(history) <= MaxEntries
  /\ \A r, s \in appended : r.id = s.id => r = s
  /\ \A row \in appended \ history :
       LET newer == {r \in appended : r.id > row.id}
       IN  (\E r \in newer : row.at < r.at - Retention) \/ Cardinality(newer) >= MaxEntries
=============================================================================
