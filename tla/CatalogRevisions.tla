-------------------------- MODULE CatalogRevisions --------------------------
(***************************************************************************)
(* The documents of the catalogue: their versions, the sections of each    *)
(* version and the full-text index of the sections.  Every call of the     *)
(* repository is one SQLite transaction, so it is one action, whichever    *)
(* process makes it.                                                       *)
(*                                                                         *)
(* A column is a function or a set: a version is the pair of its document  *)
(* and content hash, isCurrent and pendingCurrent are the sets of versions *)
(* whose flag is 1, and newer orders the versions of a document by         *)
(* (fetched_at, id), the clock going forward between two fetches.          *)
(***************************************************************************)
EXTENDS Integers, FiniteSets

CONSTANTS Source, Document, Hash, Title,
          SourceOf,      \* the source of each document
          None,          \* an SQL NULL
          MaxSections,   \* bound: sections of a version
          MaxSectionId   \* bound: the largest rowid of a section

ASSUME RevisionAssumption ==
  /\ SourceOf \in [Document -> Source]
  /\ None \notin Hash \cup Title
  /\ MaxSections \in Nat
  /\ MaxSectionId \in Nat

VARIABLES sources,         \* catalog_sources.enabled, or that there is no row
          status, title, currentVersion,           \* columns of documents
          stored, isCurrent, pendingCurrent, newer, \* of document_versions
          sections,        \* rows of document_sections
          fts              \* rows of document_section_fts

documentRows == <<status, title, currentVersion>>
versionRows == <<stored, isCurrent, pendingCurrent, newer>>
vars == <<sources, documentRows, versionRows, sections, fts>>

Version == Document \X Hash
VersionsOf(d) == {d} \X Hash
Status == {"ACTIVE", "STALE", "REDIRECTED", "REMOVED"}
HasRow(d) == status[d] # "ABSENT"

Section == [id : 1..MaxSectionId, version : Version, ordinal : 1..MaxSections]

(* An index row carries the text of the section and the document's title.  *)
Entry(s, t) ==
  [rowid |-> s.id, text |-> <<s.version, s.ordinal>>, title |-> t]

SectionsIn(rows, vs) == {s \in rows : s.version \in vs}
Ids(rows) == {s.id : s \in rows}
Without(index, rows) == {e \in index : e.rowid \notin Ids(rows)}

(* What the index should hold of the current version of d.                 *)
Searchable(d, on, st, ti, cur, rows) ==
  IF on[SourceOf[d]] = "ENABLED" /\ st[d] = "ACTIVE" /\ cur[d] # None
  THEN {Entry(s, ti[d]) : s \in SectionsIn(rows, {<<d, cur[d]>>})}
  ELSE {}

ExpectedIndex(on) ==
  UNION {Searchable(d, on, status, title, currentVersion, sections)
           : d \in {x \in Document : <<x, currentVersion[x]>> \in isCurrent}}

(* SQLite gives a new row the rowid after the largest one in use.          *)
IsNextId(n, rows) ==
  /\ \A s \in rows : s.id < n
  /\ n = 1 \/ \E s \in rows : s.id = n - 1

NewSections(v, n, first) ==
  {[id |-> first + i - 1, version |-> v, ordinal |-> i] : i \in 1..n}

(* The sections of v become n new rows.                                    *)
ReplaceSectionRows(v, n) ==
  LET kept == sections \ SectionsIn(sections, {v})
  IN  \E first \in 1..(MaxSectionId + 1) :
        /\ IsNextId(first, kept)
        /\ first + n - 1 <= MaxSectionId
        /\ sections' = kept \cup NewSections(v, n, first)

(* The version is inserted or written again: it is the last one fetched.   *)
UpsertVersion(d, h) ==
  /\ stored' = stored \cup {<<d, h>>}
  /\ newer' = [newer EXCEPT ![d] =
                 {p \in @ : p[1] # h}
                   \cup {<<g, h>> : g \in {x \in Hash \ {h} : <<d, x>> \in stored}}]

-----------------------------------------------------------------------------
Init ==
  /\ sources = [s \in Source |-> "ABSENT"]
  /\ status = [d \in Document |-> "ABSENT"]
  /\ title = [d \in Document |-> None]
  /\ currentVersion = [d \in Document |-> None]
  /\ stored = {}
  /\ isCurrent = {}
  /\ pendingCurrent = {}
  /\ newer = [d \in Document |-> {}]
  /\ sections = {}
  /\ fts = {}

AddSource(s, enabled) ==
  /\ sources[s] = "ABSENT"
  /\ sources' = [sources EXCEPT ![s] = enabled]
  /\ UNCHANGED <<documentRows, versionRows, sections, fts>>

UpdateWithoutRebuild(s, enabled) ==
  /\ sources[s] # "ABSENT"
  /\ sources' = [sources EXCEPT ![s] = enabled]
  /\ UNCHANGED <<fts, documentRows, versionRows, sections>>

(* The source is written and the whole index rebuilt in one transaction.   *)
UpdateSource(s, enabled) ==
  /\ sources[s] # "ABSENT"
  /\ sources' = [sources EXCEPT ![s] = enabled]
  /\ fts' = ExpectedIndex(sources')
  /\ UNCHANGED <<documentRows, versionRows, sections>>

RebuildSearchIndex ==
  /\ fts' = ExpectedIndex(sources)
  /\ UNCHANGED <<sources, documentRows, versionRows, sections>>

UpsertDocumentRow(d, t, st) ==
  /\ sources[SourceOf[d]] # "ABSENT"
  /\ title' = [title EXCEPT ![d] = t]
  /\ status' = [status EXCEPT ![d] = st]

(* The index rows of d are deleted by the ids its sections have at that    *)
(* time, and those of its current version inserted.                        *)
Reindexed(d, old) ==
  Without(fts, SectionsIn(old, VersionsOf(d)))
    \cup Searchable(d, sources, status', title', currentVersion', sections')

CommitAndReindexLast(d, h, n, t, st) ==
  /\ n # 0
  /\ UpsertDocumentRow(d, t, st)
  /\ currentVersion' = [currentVersion EXCEPT ![d] = h]
  /\ isCurrent' = (isCurrent \ VersionsOf(d)) \cup {<<d, h>>}
  /\ pendingCurrent' = pendingCurrent \ {<<d, h>>}
  /\ UpsertVersion(d, h)
  /\ ReplaceSectionRows(<<d, h>>, n)
  /\ fts' = Reindexed(d, sections')
  /\ UNCHANGED sources

(* A whole revision: the document, its version, the sections, the index    *)
(* and last the pointer.  Nothing of it remains when a statement fails.    *)
CommitDocumentRevision(d, h, n, t, st) ==
  /\ n # 0
  /\ UpsertDocumentRow(d, t, st)
  /\ currentVersion' = [currentVersion EXCEPT ![d] = h]
  /\ isCurrent' = (isCurrent \ VersionsOf(d)) \cup {<<d, h>>}
  /\ pendingCurrent' = pendingCurrent \ {<<d, h>>}
  /\ UpsertVersion(d, h)
  /\ ReplaceSectionRows(<<d, h>>, n)
  /\ fts' = Reindexed(d, sections)
  /\ UNCHANGED sources

UpsertDocument(d, t, st) ==
  /\ UpsertDocumentRow(d, t, st)
  /\ UNCHANGED <<sources, currentVersion, versionRows, sections>>
  /\ fts' = Reindexed(d, sections)

(* Kept for internal compatibility: a version of its own, which becomes    *)
(* current only when it receives sections.                                 *)
AddDocumentVersion(d, h, wantsCurrent) ==
  /\ HasRow(d)
  /\ UpsertVersion(d, h)
  /\ pendingCurrent' =
       IF wantsCurrent /\ <<d, h>> \notin isCurrent
       THEN pendingCurrent \cup {<<d, h>>}
       ELSE pendingCurrent \ {<<d, h>>}
  /\ UNCHANGED <<sources, documentRows, isCurrent, sections, fts>>

(* Sections for a version that is pending: it is promoted.                 *)
PromoteWithSections(d, h, n) ==
  /\ <<d, h>> \in stored \cap pendingCurrent
  /\ n # 0
  /\ ReplaceSectionRows(<<d, h>>, n)
  /\ isCurrent' = (isCurrent \ VersionsOf(d)) \cup {<<d, h>>}
  /\ pendingCurrent' = pendingCurrent \ {<<d, h>>}
  /\ currentVersion' = [currentVersion EXCEPT ![d] = h]
  /\ UNCHANGED <<sources, status, title, stored, newer>>
  /\ fts' = Reindexed(d, sections')

(* Sections for the current version, in place: the rows are replaced       *)
(* before the index rows of the document are deleted by id.                *)
ReplaceCurrentSections(d, h, n) ==
  /\ <<d, h>> \in (stored \cap isCurrent) \ pendingCurrent
  /\ n # 0
  /\ ReplaceSectionRows(<<d, h>>, n)
  /\ UNCHANGED <<sources, documentRows, versionRows>>
  /\ fts' = Reindexed(d, sections')

ReplaceOldSections(d, h, n) ==
  /\ <<d, h>> \in stored \ (isCurrent \cup pendingCurrent)
  /\ ReplaceSectionRows(<<d, h>>, n)
  /\ UNCHANGED <<sources, documentRows, versionRows, fts>>

CandidatesFromTheNewest(scope, keep) ==
  LET old == stored \ (isCurrent \cup pendingCurrent)
      OlderThan(v) == {w \in old : w[1] = v[1] /\ <<w[2], v[2]>> \in newer[v[1]]}
  IN  {v \in old : SourceOf[v[1]] \in scope /\ Cardinality(OlderThan(v)) >= keep}

(* Versions of the scope that are neither current nor pending and have at  *)
(* least keep newer ones like them.                                        *)
Candidates(scope, keep) ==
  LET old == stored \ (isCurrent \cup pendingCurrent)
      NewerThan(v) == {w \in old : w[1] = v[1] /\ <<v[2], w[2]>> \in newer[v[1]]}
  IN  {v \in old : SourceOf[v[1]] \in scope /\ Cardinality(NewerThan(v)) >= keep}

PurgeDocumentsFromIndex(scope, keep) ==
  LET purged == Candidates(scope, keep)
      Purged(v) == {v[1]} \X Hash
  IN  /\ purged # {}
      /\ \A d \in Document : <<d, currentVersion[d]>> \notin purged
      /\ fts' = Without(fts, SectionsIn(sections, UNION {Purged(v) : v \in purged}))
      /\ sections' = sections \ SectionsIn(sections, purged)
      /\ stored' = stored \ purged
      /\ newer' = [d \in Document |->
                     {p \in newer[d] : <<d, p[1]>> \notin purged /\ <<d, p[2]>> \notin purged}]
      /\ UNCHANGED <<sources, documentRows, isCurrent, pendingCurrent>>

(* The trigger of C007 refuses to delete a version a document points to.   *)
PurgeOldDocumentVersions(scope, keep) ==
  LET purged == Candidates(scope, keep)
  IN  /\ purged # {}
      /\ \A d \in Document : <<d, currentVersion[d]>> \notin purged
      /\ fts' = Without(fts, SectionsIn(sections, purged))
      /\ sections' = sections \ SectionsIn(sections, purged)
      /\ stored' = stored \ purged
      /\ newer' = [d \in Document |->
                     {p \in newer[d] : <<d, p[1]>> \notin purged /\ <<d, p[2]>> \notin purged}]
      /\ UNCHANGED <<sources, documentRows, isCurrent, pendingCurrent>>

-----------------------------------------------------------------------------
(* The calls of the application: the synchronization commits revisions and *)
(* changes the status of documents it knows.                               *)
Commits ==
  \E d \in Document, h \in Hash, n \in 1..MaxSections, t \in Title :
    \E st \in {"ACTIVE", "REDIRECTED"} : CommitDocumentRevision(d, h, n, t, st)

Observations ==
  \E d \in Document, t \in Title, st \in {"STALE", "REDIRECTED", "REMOVED"} :
    HasRow(d) /\ UpsertDocument(d, t, st)

SourceLoads ==
  \E s \in Source, enabled \in {"ENABLED", "DISABLED"} :
    AddSource(s, enabled) \/ UpdateSource(s, enabled)

Purges ==
  \E scope \in {Source} \cup {{s} : s \in Source}, keep \in 0..Cardinality(Hash) :
    PurgeOldDocumentVersions(scope, keep)

Next == Commits \/ Observations \/ SourceLoads \/ RebuildSearchIndex \/ Purges

Spec == Init /\ [][Next]_vars

(* The deprecated calls as well, which create documents without a version. *)
Creations ==
  \E d \in Document, t \in Title :
    ~HasRow(d) /\ UpsertDocument(d, t, "ACTIVE")

Stagings ==
  \E d \in Document, h \in Hash, wantsCurrent \in BOOLEAN :
    AddDocumentVersion(d, h, wantsCurrent)

Promotions ==
  \E d \in Document, h \in Hash, n \in 0..MaxSections :
    PromoteWithSections(d, h, n) \/ ReplaceOldSections(d, h, n)

Replacements ==
  \E d \in Document, h \in Hash, n \in 0..MaxSections :
    ReplaceCurrentSections(d, h, n)

NextStaged == Next \/ Creations \/ Stagings \/ Promotions

SpecStaged == Init /\ [][NextStaged]_vars

SpecLegacy == Init /\ [][NextStaged \/ Replacements]_vars

-----------------------------------------------------------------------------
(* What is wrong with the catalogue in one state, and the code under which *)
(* a statement of the verification reports it.                             *)
Issues(code, subjects) == {code} \X subjects

Pointed(d) == <<d, currentVersion[d]>>
Pointing == {d \in Document : currentVersion[d] # None}

Unpointed == {d \in Document \ Pointing : status[d] = "ACTIVE"}
Dangling == {d \in Pointing : Pointed(d) \notin stored}
Unmarked == {d \in Pointing : Pointed(d) \in stored \ isCurrent}
Sectionless == {d \in Pointing : /\ Pointed(d) \in stored
                                 /\ SectionsIn(sections, {Pointed(d)}) = {}}
Misflagged == {d \in Document : \E h \in Hash :
                 <<d, h>> \in stored \cap isCurrent /\ currentVersion[d] # h}

DocumentIssues ==
  Issues("ACTIVE_DOCUMENT_WITHOUT_CURRENT_VERSION", Unpointed)
    \cup Issues("CURRENT_VERSION_MISSING_OR_WRONG_DOCUMENT", Dangling)
    \cup Issues("CURRENT_VERSION_NOT_MARKED_CURRENT", Unmarked)
    \cup Issues("CURRENT_VERSION_WITHOUT_SECTIONS", Sectionless)
    \cup Issues("CURRENT_VERSION_FLAG_NOT_POINTED", Misflagged)

JoinedOfAnySource(s) ==
  /\ s.version \in isCurrent
  /\ currentVersion[s.version[1]] = s.version[2]
  /\ status[s.version[1]] = "ACTIVE"

(* The section of a current version that a search may return.              *)
Joined(s) ==
  /\ s.version \in isCurrent
  /\ currentVersion[s.version[1]] = s.version[2]
  /\ status[s.version[1]] = "ACTIVE"
  /\ sources[SourceOf[s.version[1]]] = "ENABLED"

(* What an index holds under a rowid.                                      *)
TextIn(index, id) ==
  {[text |-> e.text, title |-> e.title] : e \in {x \in index : x.rowid = id}}

ExpectedText(s) == {[text |-> <<s.version, s.ordinal>>, title |-> title[s.version[1]]]}

Unindexed == {s \in sections : Joined(s) /\ TextIn(fts, s.id) = {}}
Mismatched == {s \in sections : /\ Joined(s)
                                /\ TextIn(fts, s.id) \notin {{}, ExpectedText(s)}}
Orphaned == {e \in fts : \A s \in sections : s.id = e.rowid => ~Joined(s)}

SectionIssues ==
  Issues("CURRENT_SECTION_MISSING_FROM_FTS", Unindexed)
    \cup Issues("FTS_ENTRY_CONTENT_MISMATCH", Mismatched)
    \cup Issues("FTS_ENTRY_ORPHANED", Orphaned)

IntegrityIssues == DocumentIssues \cup SectionIssues

(* What a search matches: an index row, joined with the section it names.  *)
Hits == {p \in fts \X sections : p[1].rowid = p[2].id /\ Joined(p[2])}

-----------------------------------------------------------------------------
IndexRow ==
  [rowid : 1..MaxSectionId, text : Version \X (1..MaxSections), title : Title]

TablesTypeOK ==
  /\ sources \in [Source -> {"ABSENT", "ENABLED", "DISABLED"}]
  /\ status \in [Document -> Status \cup {"ABSENT"}]
  /\ title \in [Document -> Title \cup {None}]
  /\ currentVersion \in [Document -> Hash \cup {None}]
  /\ stored \subseteq Version
  /\ isCurrent \subseteq Version
  /\ pendingCurrent \subseteq Version
  /\ newer \in [Document -> SUBSET (Hash \X Hash)]
  /\ sections \subseteq Section

TypeOK == TablesTypeOK /\ fts \subseteq IndexRow

(* The pointer of a document and the flags of its versions tell the same   *)
(* (SET_DOCUMENT_CURRENT_VERSION_SQL and CLEAR_CURRENT_DOCUMENT_VERSIONS_   *)
(* SQL): one flagged version where there is a pointer, none where there is *)
(* none, and a pointer is never left to a version that was purged.         *)
PointerIsConsistent ==
  /\ isCurrent \subseteq stored
  /\ \A d \in Document, h \in Hash : <<d, h>> \in isCurrent <=> currentVersion[d] = h

(* A reader never sees a current version without its sections, and every   *)
(* section belongs to a version that exists.                               *)
CurrentHasSections ==
  /\ \A s \in sections : s.version \in stored
  /\ \A v \in isCurrent : \E s \in sections : s.version = v

(* A section id and an ordinal of a version name one row, although ids of  *)
(* deleted rows are given again to new ones.                               *)
SectionKeysAreUnique ==
  \A r, s \in sections :
    r.id = s.id \/ (r.version = s.version /\ r.ordinal = s.ordinal) => r = s

(* The index holds exactly the sections of the current versions of the     *)
(* active documents of the enabled sources, each with its own text and the *)
(* title of its document, after any sequence of commits, status changes,   *)
(* source updates, rebuilds and purges.                                    *)
IndexIsExact ==
  fts = UNION {Searchable(d, sources, status, title, currentVersion, sections)
                 : d \in Document}

(* The foreign keys, and no title or pointer without a row.                *)
RowsAreComplete ==
  /\ \A d \in Document : HasRow(d) => sources[SourceOf[d]] # "ABSENT"
  /\ \A d \in Document : HasRow(d) <=> title[d] # None
  /\ \A d \in Document : ~HasRow(d) => currentVersion[d] = None
  /\ \A v \in stored : HasRow(v[1])

(* What holds after any sequence of calls that stages versions and promotes*)
(* them with their sections, the deprecated ones included.                 *)
StagedInv ==
  /\ TypeOK
  /\ RowsAreComplete
  /\ PointerIsConsistent
  /\ isCurrent \cap pendingCurrent = {}
  /\ CurrentHasSections
  /\ SectionKeysAreUnique
  /\ IndexIsExact

(* The application commits whole revisions: no document is without one, and*)
(* none is staged.                                                         *)
CatalogInv ==
  /\ StagedInv
  /\ pendingCurrent = {}
  /\ \A d \in Document : HasRow(d) => currentVersion[d] # None

(* Between two calls there is nothing for a verification to report.        *)
IntegrityHolds == IntegrityIssues = {}

(* What the verification looks for is what matters, on damaged states too: *)
(* in one state there is an issue where the pointers, the sections or the  *)
(* index are wrong, and only there.                                        *)
VerifierIsExact ==
  IntegrityIssues = {} <=>
    /\ PointerIsConsistent
    /\ CurrentHasSections
    /\ IndexIsExact
    /\ \A d \in Document : status[d] = "ACTIVE" => currentVersion[d] # None

(* A purge removes versions that are neither current nor waiting to be     *)
(* promoted, the oldest of each document: what it keeps is newer.          *)
PurgeKeepsTheNewest ==
  [][\A v \in stored \ stored' :
       /\ v \notin isCurrent \cup pendingCurrent
       /\ \A w \in stored' \ (isCurrent \cup pendingCurrent) :
            w[1] = v[1] => <<v[2], w[2]>> \in newer[v[1]]]_vars

(* A purge changes nothing a search can find.                              *)
PurgeIsInvisible ==
  [][stored \ stored' # {} => Hits' = Hits]_vars
=============================================================================
