---------------------------- MODULE CatalogReads ----------------------------
(***************************************************************************)
(* What a client reads of the catalogue: list_docs and the paged resources,*)
(* the summary, search_docs and read_doc_section, and the resources read by*)
(* id, while other processes commit and purge.  An SQL statement is a step:*)
(* the items of a page and its total are two, as are the two searches, and *)
(* nothing holds a snapshot from one page of a walk to the next.           *)
(***************************************************************************)
EXTENDS CatalogRevisions, Sequences, FiniteSetsExt

CONSTANTS Reader,         \* the calls of the clients
          Requests,       \* the requests a reader may make
          Size(_),        \* serialized characters of a source, document, version, section
          CompactSize(_), \* those of a document in list_docs
          Length,         \* characters of a section, by its ordinal
          ListBudget,     \* MAX_LIST_DOCS_DATA_CHARACTERS
          ResourceBudget, \* MAX_CATALOG_RESOURCE_CHARACTERS
          ResourceLimit,  \* CATALOG_RESOURCE_PAGE_LIMIT
          MaxPageSize, MaxPageOffset,
          MaxWrites       \* bound: writes of the other processes

ReadsAssumption ==
  /\ \A ordinal \in 1..MaxSections : Length[ordinal] \in Nat
  /\ {MaxPageSize, MaxPageOffset} \subseteq Nat
  /\ ResourceLimit \in 1..MaxPageSize

VARIABLES sourceId, documentId, \* their rowids, 0 before there is a row
          writes,   \* writes so far
          call,     \* what each reader is doing
          steady    \* history of the model: no row has left the list being walked

rowIds == <<sourceId, documentId>>
readVars == <<rowIds, writes, call, steady>>

-----------------------------------------------------------------------------
(* The lists a page is cut from, and the order of each in its statement.   *)
MatchesFilter(d, filter) ==
  /\ filter.source \in {None, SourceOf[d]}
  /\ filter.status \in {None, status[d]}

Documents(filter) == {d \in Document : HasRow(d) /\ MatchesFilter(d, filter)}

Sources(enabled) == {s \in Source : sources[s] # "ABSENT" /\ enabled \in {None, sources[s]}}

Versions(d) == stored \cap VersionsOf(d)

(* Whatever the status of the document, and its source enabled or not.     *)
IsCurrentSection(s) ==
  s.version \in isCurrent /\ currentVersion[s.version[1]] = s.version[2]

CurrentSections(filter) ==
  {s \in sections : IsCurrentSection(s) /\ MatchesFilter(s.version[1], filter)}

Everything == [source |-> None, status |-> None]

Rows(request) ==
  CASE request.list = "documents" -> Documents(request.filter)
    [] request.list = "sources" -> Sources(None)
    [] request.list = "versions" -> Versions(request.of)
    [] request.list = "sections" -> CurrentSections(Everything)

(* By id, but the versions: the last fetched first.                        *)
Before(request, x, y) ==
  CASE request.list = "documents" -> documentId[x] < documentId[y]
    [] request.list = "sources" -> sourceId[x] < sourceId[y]
    [] request.list = "versions" -> <<y[2], x[2]>> \in newer[request.of]
    [] request.list = "sections" -> x.id < y.id

RowsBefore(request, x) == {y \in Rows(request) : Before(request, y, x)}

Position(request, x) == Cardinality(RowsBefore(request, x))

Page(request, offset, limit) ==
  {x \in Rows(request) : Position(request, x) \in offset..(offset + limit - 1)}

-----------------------------------------------------------------------------
(* Walks: list_docs and the paged resources.                               *)
IsWalk(request) ==
  \/ request.op = "list_docs"
  \/ request.op = "resource" /\ request.kind = "page"

ValidPage(offset, limit) == offset \in 0..MaxPageOffset /\ limit \in 1..MaxPageSize

Refuse(r) ==
  /\ call[r].pc = "page"
  /\ ~ValidPage(call[r].offset, call[r].request.limit)
  /\ call' = [call EXCEPT ![r].pc = "INVALID_ARGUMENT"]
  /\ UNCHANGED <<vars, rowIds, writes, steady>>

(* The statement of the items.  The first page begins the walk.            *)
SelectItems(r) ==
  LET request == call[r].request
  IN  /\ call[r].pc = "page"
      /\ ValidPage(call[r].offset, request.limit)
      /\ call' = [call EXCEPT ![r].pc = "total",
                              ![r].items = Page(request, call[r].offset, request.limit),
                              ![r].began = IF @ = {} THEN {Rows(request)} ELSE @]
      /\ UNCHANGED <<vars, rowIds, writes, steady>>

NextOffset(offset, accepted, total) ==
  IF offset + Cardinality(accepted) < total THEN {offset + Cardinality(accepted)} ELSE {}

NextOffsetByLimit(r, total) ==
  IF call[r].offset + call[r].request.limit < total
  THEN {call[r].offset + call[r].request.limit} ELSE {}

(* Documents as list_docs writes them, up to one of the page.              *)
UpTo(r, x) ==
  {y \in call[r].items : y = x \/ Before(call[r].request, y, x)}

DocumentsFit(documents) == MapThenSumSet(CompactSize, documents) <= ListBudget

(* list_docs keeps the documents its budget allows, in order.              *)
Accepted(r) ==
  {x \in call[r].items : \A y \in UpTo(r, x) : DocumentsFit(UpTo(r, y))}

ResourceFits(items) == MapThenSumSet(Size, items) <= ResourceBudget

(* A page answered, and the next one to ask for.                           *)
Goes(r, next, page) ==
  call' = [call EXCEPT ![r].pc = IF next = {} THEN "done" ELSE "page",
                       ![r].offset = IF next = {} THEN @ ELSE CHOOSE n \in next : TRUE,
                       ![r].items = {}, ![r].pages = Append(@, page)]

AnswerTooLarge(r) == call' = [call EXCEPT ![r].pc = "RESPONSE_TOO_LARGE", ![r].items = {}]

ListDocsByLimit(r) ==
  /\ call[r].pc = "total" /\ call[r].request.op = "list_docs"
  /\ Goes(r, NextOffsetByLimit(r, Cardinality(Rows(call[r].request))), Accepted(r))
  /\ UNCHANGED <<vars, rowIds, writes, steady>>

(* The statement of the total, the budget and the answer.                  *)
ListDocs(r) ==
  LET accepted == Accepted(r)
      total == Cardinality(Rows(call[r].request))
  IN  /\ call[r].pc = "total" /\ call[r].request.op = "list_docs"
      /\ IF accepted = {} /\ call[r].items # {} THEN AnswerTooLarge(r)
         ELSE Goes(r, NextOffset(call[r].offset, accepted, total), accepted)
      /\ UNCHANGED <<vars, rowIds, writes, steady>>

(* A resource is never cut: beyond its budget it is an error.              *)
ReadResource(r) ==
  LET items == call[r].items
      total == Cardinality(Rows(call[r].request))
  IN  /\ call[r].pc = "total" /\ call[r].request.op = "resource"
      /\ IF ResourceFits(items)
         THEN Goes(r, NextOffset(call[r].offset, items, total), items)
         ELSE AnswerTooLarge(r)
      /\ UNCHANGED <<vars, rowIds, writes, steady>>

-----------------------------------------------------------------------------
(* The summary: five counts, a statement each.                             *)
SummaryCount(n) ==
  CASE n = 1 -> Cardinality(Sources(None))
    [] n = 2 -> Cardinality(Sources("ENABLED"))
    [] n = 3 -> Cardinality(Documents(Everything))
    [] n = 4 -> Cardinality(Documents([Everything EXCEPT !.status = "ACTIVE"]))
    [] n = 5 -> Cardinality(CurrentSections(Everything))

Summarize(r) ==
  /\ call[r].pc = "summary"
  /\ LET counts == Append(call[r].counts, SummaryCount(Len(call[r].counts) + 1))
     IN  call' = [call EXCEPT ![r].counts = counts,
                              ![r].pc = IF Len(counts) = 5 THEN "done" ELSE @]
  /\ UNCHANGED <<vars, rowIds, writes, steady>>

(* search_docs: the index first.  A hit is an index row whose text has the *)
(* words, joined with a current section of a searchable document.          *)
WordHits(q) ==
  {p[2] : p \in {x \in Hits : x[1].text[1][2] \in q.words
                                 /\ q.source \in {None, SourceOf[x[2].version[1]]}}}

TextHits(q) ==
  {s \in sections : /\ Joined(s) /\ s.version[2] \in q.phrase
                    /\ q.source \in {None, SourceOf[s.version[1]]}}

(* The ranking is not modelled: the limit keeps any of the hits.           *)
Best(hits, limit) == kSubset(Min({limit, Cardinality(hits)}), hits)

Found(r, hits) == call' = [call EXCEPT ![r].pc = "found", ![r].found = hits]

SearchWithFts(r) ==
  LET q == call[r].request
  IN  /\ call[r].pc = "fts"
      /\ \/ /\ WordHits(q) # {}
            /\ \E hits \in Best(WordHits(q), q.limit) : Found(r, hits)
         \/ WordHits(q) = {} /\ call' = [call EXCEPT ![r].pc = "like"]
      /\ UNCHANGED <<vars, rowIds, writes, steady>>

(* Nothing in the index: the sections that contain the text, in a second   *)
(* statement.                                                              *)
SearchWithLike(r) ==
  /\ call[r].pc = "like"
  /\ \E hits \in Best(TextHits(call[r].request), call[r].request.limit) : Found(r, hits)
  /\ UNCHANGED <<vars, rowIds, writes, steady>>

(* The text shown of a section, and whether it was cut.                    *)
ShownOf(s, max) ==
  LET characters == Min({Length[s.ordinal], max})
  IN  [section |-> s, count |-> characters, truncated |-> characters < Length[s.ordinal]]

(* read_doc_section, and the resource of a section, by an id the search    *)
(* answered.                                                               *)
ReadDocSection(r) ==
  /\ call[r].pc = "found"
  /\ \E hit \in call[r].found :
       LET current == {s \in sections : s.id = hit.id /\ IsCurrentSection(s)}
       IN  call' = [call EXCEPT ![r].pc = "read", ![r].asked = {hit},
                                ![r].answer = {ShownOf(s, call[r].request.max) : s \in current}]
  /\ UNCHANGED <<vars, rowIds, writes, steady>>

(* A source, document, version or section resource read by its id.         *)
HasSource(id) == \E s \in Source : sourceId[s] = id
HasDocument(id) == \E d \in Document : documentId[d] = id
HasVersion(version, d) == version \in stored /\ version[1] = d
HasSection(id) == \E s \in sections : s.id = id /\ IsCurrentSection(s)

IsThere(request) ==
  CASE request.kind = "source" -> HasSource(request.id)
    [] request.kind = "document" -> HasDocument(request.id)
    [] request.kind = "version" -> HasVersion(request.version, request.of)
    [] request.kind = "section" -> HasSection(request.id)

(* An identifier that is not a number fails the read.                      *)
ReadById(r) ==
  /\ call[r].pc = "by_id"
  /\ IF call[r].request.valid
     THEN call' = [call EXCEPT ![r].pc = "done", ![r].there = IsThere(call[r].request)]
     ELSE call' = [call EXCEPT ![r].pc = "INVALID_URI"]
  /\ UNCHANGED <<vars, rowIds, writes, steady>>

-----------------------------------------------------------------------------
ToolStep(tool) == IF tool = "list_docs" THEN "page" ELSE "fts"

ResourceStep(kind) == IF kind \in {"page", "summary"} THEN kind ELSE "by_id"

FirstStep(request) ==
  IF request.op = "resource" THEN ResourceStep(request.kind) ELSE ToolStep(request.op)

(* A new source or document takes the next id: no row of theirs is deleted.*)
NextSourceId == Cardinality({s \in Source : sources[s] # "ABSENT"}) + 1

NextDocumentId == Cardinality({d \in Document : HasRow(d)}) + 1

Inserts ==
  /\ sourceId' = [s \in Source |->
       IF sources[s] = "ABSENT" /\ sources'[s] # "ABSENT" THEN NextSourceId ELSE sourceId[s]]
  /\ documentId' = [d \in Document |->
       IF status[d] = "ABSENT" /\ status'[d] # "ABSENT" THEN NextDocumentId ELSE documentId[d]]

(* A content that is stored has the sections it was cut into.              *)
CutInto(d, h) ==
  LET rows == SectionsIn(sections, {<<d, h>>})
  IN  IF rows = {} THEN 1..MaxSections ELSE {Cardinality(rows)}

Walks(r) == IsWalk(call[r].request) /\ call[r].began # {}

(* No row leaves the list, and no version in it is fetched again, which    *)
(* would put it first.                                                     *)
KeepsRows(request) ==
  /\ Rows(request) \subseteq Rows(request)'
  /\ request.list = "versions" => newer[request.of] \subseteq newer'[request.of]

(* What the other processes do: the synchronization, ingest-text, loads of *)
(* the sources and purges.                                                 *)
Write ==
  /\ writes < MaxWrites
  /\ writes' = writes + 1
  /\ \/ \E d \in Document, h \in Hash, t \in Title : \E n \in CutInto(d, h) :
          CommitDocumentRevision(d, h, n, t, "ACTIVE")
     \/ Observations \/ SourceLoads \/ Purges
  /\ Inserts
  /\ UNCHANGED call
  /\ steady' = [r \in Reader |-> steady[r] /\ (Walks(r) => KeepsRows(call[r].request))]

Asked(request) ==
  [request |-> request, pc |-> FirstStep(request), offset |-> 0, items |-> {}, pages |-> <<>>,
   began |-> {}, counts |-> <<>>, found |-> {}, asked |-> {}, answer |-> {}, there |-> FALSE]

(* The walks, the searches and the reads begin.                            *)
ReadsInit ==
  /\ writes = 0
  /\ steady = [r \in Reader |-> TRUE]
  /\ call \in [Reader -> {Asked(request) : request \in Requests}]

ReadsNext ==
  \/ Write
  \/ \E r \in Reader :
       \/ Refuse(r) \/ SelectItems(r) \/ ListDocs(r) \/ ReadResource(r)
       \/ Summarize(r) \/ SearchWithFts(r) \/ SearchWithLike(r)
       \/ ReadDocSection(r) \/ ReadById(r)

-----------------------------------------------------------------------------
Visited(r) == UNION {call[r].pages[i] : i \in DOMAIN call[r].pages}

(* A walk that ended visited every row its list had when it began, unless a*)
(* row left the list meanwhile or a version was fetched again; a walk of   *)
(* the documents or of the sources, to which rows are only added, visited  *)
(* none twice (list_docs and the paged resources:                          *)
(* docs/reference/tools.md:186-190 and                                     *)
(* docs/reference/catalog-schema-v2.md:356).                               *)
ListWalkMissesNothing ==
  \A r \in Reader : IsWalk(call[r].request) /\ call[r].pc = "done" =>
    LET request == call[r].request
        pages == call[r].pages
    IN  /\ steady[r] => \A rows \in call[r].began : rows \subseteq Visited(r)
        /\ \/ request.list = "sources"
           \/ request.list = "documents" /\ request.filter.status = None
           => \A i, j \in DOMAIN pages : i # j => pages[i] \cap pages[j] = {}

(* docs/reference/tools.md:150: the sectionId of a result is what to give  *)
(* to read_doc_section to read that very section.  It should read it or    *)
(* nothing, not another section.                                           *)
SectionReadIsTheOneFound ==
  \A r \in Reader : call[r].pc = "read" =>
    \A shown \in call[r].answer, hit \in call[r].asked :
      shown.section.version = hit.version /\ shown.section.ordinal = hit.ordinal
=============================================================================
