----------------------- MODULE CatalogRevisionsProofs -----------------------
(***************************************************************************)
(* Theorems about CatalogRevisions and about the parts of MCCatalog, for   *)
(* every set of documents, versions and titles and every bound, and about  *)
(* the walks of CatalogReads through a catalogue that is written meanwhile.*)
(***************************************************************************)
EXTENDS MCCatalog, FiniteSetTheorems, TLAPS

LEMMA ExactIsUnion == IndexIsExact <=> fts = UNION {Shown(d) : d \in Document}
  BY DEF IndexIsExact, Shown

(* The index rows of a document name rows of document_sections that belong *)
(* to its current version.                                                 *)
LEMMA ShownNamesSections ==
  ASSUME NEW d \in Document, NEW e \in Shown(d)
  PROVE  /\ currentVersion[d] # None
         /\ \E s \in sections : /\ s.version = <<d, currentVersion[d]>>
                                /\ e = Entry(s, title[d])
                                /\ e.rowid = s.id
  <1>1. currentVersion[d] # None
    BY DEF Shown, Searchable
  <1>2. PICK s \in SectionsIn(sections, {<<d, currentVersion[d]>>}) : e = Entry(s, title[d])
    BY DEF Shown, Searchable
  <1>3. s \in sections /\ s.version = <<d, currentVersion[d]>> /\ e.rowid = s.id
    BY <1>2 DEF SectionsIn, Entry
  <1> QED
    BY <1>1, <1>2, <1>3

(* A document whose row and current sections a step leaves alone shows the *)
(* same after it.                                                          *)
LEMMA ShownStays ==
  ASSUME NEW d \in Document,
         sources' = sources,
         status'[d] = status[d], title'[d] = title[d],
         currentVersion'[d] = currentVersion[d],
         {s \in sections' : s.version = <<d, currentVersion[d]>>}
           = {s \in sections : s.version = <<d, currentVersion[d]>>}
  PROVE  Shown(d)' = Shown(d)
  <1>1. SectionsIn(sections', {<<d, currentVersion[d]>>})
          = SectionsIn(sections, {<<d, currentVersion[d]>>})
    BY DEF SectionsIn
  <1> QED
    BY <1>1 DEF Shown, Searchable

(* Deleting by id what one document showed, and inserting what it shows    *)
(* now, leaves the union of what the documents show.                       *)
LEMMA UnionReindexed ==
  ASSUME NEW D, NEW d \in D, NEW ids, NEW S, NEW T,
         \A x \in D \ {d} : T[x] = S[x],
         \A x \in D \ {d} : \A e \in S[x] : e.rowid \notin ids,
         \A e \in S[d] : e.rowid \in ids
  PROVE  {e \in UNION {S[x] : x \in D} : e.rowid \notin ids} \cup T[d]
           = UNION {T[x] : x \in D}
  <1> DEFINE Kept == {e \in UNION {S[x] : x \in D} : e.rowid \notin ids}
  <1>1. ASSUME NEW e \in Kept PROVE e \in UNION {T[x] : x \in D}
    <2>1. PICK x \in D : e \in S[x]
      OBVIOUS
    <2>2. x # d
      BY <2>1
    <2> QED
      BY <2>1, <2>2
  <1>2. ASSUME NEW e \in UNION {T[x] : x \in D} PROVE e \in Kept \cup T[d]
    <2>1. PICK x \in D : e \in T[x]
      OBVIOUS
    <2>2. CASE x = d
      BY <2>1, <2>2
    <2>3. CASE x # d
      BY <2>1, <2>3
    <2> QED
      BY <2>2, <2>3
  <1>3. T[d] \subseteq UNION {T[x] : x \in D}
    OBVIOUS
  <1> QED
    BY <1>1, <1>2, <1>3

(* A call that writes one document reindexes it: the ids deleted are those *)
(* its sections have in old, which holds every section shown before.       *)
LEMMA ReindexedIsExact ==
  ASSUME TablesTypeOK, IndexIsExact,
         NEW d \in Document, NEW old \in SUBSET Section,
         sources' = sources,
         \A x \in Document \ {d} : /\ status'[x] = status[x]
                                   /\ title'[x] = title[x]
                                   /\ currentVersion'[x] = currentVersion[x],
         {s \in sections' : s.version[1] # d} = {s \in sections : s.version[1] # d},
         {s \in sections : s.version[1] # d} \subseteq old,
         {s \in sections : s.version = <<d, currentVersion[d]>>} \subseteq old,
         \A r, s \in old : r.id = s.id => r = s,
         fts' = Reindexed(d, old)
  PROVE  IndexIsExact'
  <1> DEFINE ids == Ids(SectionsIn(old, VersionsOf(d)))
             S == [x \in Document |-> Shown(x)]
             T == [x \in Document |-> Shown(x)']
  <1>1. ASSUME NEW s \in old
        PROVE  s \in SectionsIn(old, VersionsOf(d)) <=> s.version[1] = d
    <2>1. s.version \in Document \X Hash
      BY DEF Section, Version
    <2> QED
      BY <2>1 DEF SectionsIn, VersionsOf
  <1>2. ASSUME NEW x \in Document \ {d}
        PROVE  T[x] = S[x]
    <2>1. {s \in sections' : s.version = <<x, currentVersion[x]>>}
            = {s \in sections : s.version = <<x, currentVersion[x]>>}
      <3>1. ASSUME NEW s, s.version = <<x, currentVersion[x]>>
            PROVE  s \in sections' <=> s \in sections
        <4>1. s.version[1] # d
          BY <3>1
        <4> QED
          BY <4>1
      <3> QED
        BY <3>1
    <2> QED
      BY <2>1, ShownStays
  <1>3. ASSUME NEW x \in Document \ {d}, NEW e \in S[x]
        PROVE  e.rowid \notin ids
    <2>1. PICK s \in sections : s.version = <<x, currentVersion[x]>> /\ e.rowid = s.id
      BY ShownNamesSections
    <2>2. s \in old /\ s.version[1] # d
      BY <2>1
    <2>3. ASSUME NEW r \in SectionsIn(old, VersionsOf(d)), r.id = s.id
          PROVE  FALSE
      <3>1. r \in old /\ r.version[1] = d
        BY <1>1 DEF SectionsIn
      <3> QED
        BY <2>2, <2>3, <3>1
    <2> QED
      BY <2>1, <2>3 DEF Ids
  <1>4. ASSUME NEW e \in S[d]
        PROVE  e.rowid \in ids
    <2>1. PICK s \in sections : s.version = <<d, currentVersion[d]>> /\ e.rowid = s.id
      BY ShownNamesSections
    <2>2. s \in SectionsIn(old, VersionsOf(d))
      BY <1>1, <2>1
    <2> QED
      BY <2>1, <2>2 DEF Ids
  <1>5. fts = UNION {S[x] : x \in Document}
    BY ExactIsUnion
  <1>6. fts' = {e \in fts : e.rowid \notin ids} \cup T[d]
    BY DEF Reindexed, Without, Shown
  <1>7. fts' = UNION {T[x] : x \in Document}
    <2> HIDE DEF ids, S, T
    <2> QED
      BY <1>2, <1>3, <1>4, <1>5, <1>6, UnionReindexed
  <1> QED
    BY <1>7 DEF IndexIsExact, Shown

(* A rebuild inserts the current sections of every document with a flagged *)
(* version, which is every document with a pointer.                        *)
LEMMA RebuildIsExact ==
  ASSUME TablesTypeOK, PointerIsConsistent,
         UNCHANGED <<documentRows, sections>>,
         fts' = ExpectedIndex(sources')
  PROVE  IndexIsExact'
  <1> DEFINE New(d) == Searchable(d, sources', status, title, currentVersion, sections)
             Flagged == {x \in Document : <<x, currentVersion[x]>> \in isCurrent}
  <1>1. ASSUME NEW d \in Document \ Flagged
        PROVE  New(d) = {}
    <2>1. currentVersion[d] \notin Hash
      BY DEF PointerIsConsistent
    <2>2. currentVersion[d] = None
      BY <2>1 DEF TablesTypeOK
    <2> QED
      BY <2>2 DEF Searchable
  <1>2. fts' = UNION {New(d) : d \in Flagged}
    BY DEF ExpectedIndex
  <1>3. fts' = UNION {New(d) : d \in Document}
    <2> HIDE DEF New
    <2> QED
      BY <1>1, <1>2
  <1> QED
    BY <1>3 DEF IndexIsExact, documentRows

(* What a document shows are index rows, and so is an exact index.         *)
LEMMA ShownIsTyped ==
  TablesTypeOK /\ RowsAreComplete => \A d \in Document : Shown(d) \subseteq IndexRow
  <1> SUFFICES ASSUME TablesTypeOK, RowsAreComplete, NEW d \in Document, NEW e \in Shown(d)
               PROVE  e \in IndexRow
    OBVIOUS
  <1>1. currentVersion[d] # None
    BY ShownNamesSections
  <1>2. PICK s \in sections : e = Entry(s, title[d])
    BY ShownNamesSections
  <1>3. title[d] \in Title
    BY <1>1 DEF RowsAreComplete, TablesTypeOK
  <1>4. s \in Section
    BY DEF TablesTypeOK
  <1> QED
    BY <1>2, <1>3, <1>4 DEF Entry, IndexRow, Section

LEMMA ExactIsTyped == TablesTypeOK /\ RowsAreComplete /\ IndexIsExact => TypeOK
  BY ShownIsTyped, ExactIsUnion DEF TypeOK

-----------------------------------------------------------------------------
(* The new rows of a version take unused ids and leave the others as they  *)
(* are.                                                                    *)
LEMMA SectionsReplaced ==
  ASSUME TablesTypeOK, SectionKeysAreUnique,
         NEW v \in Version, NEW n \in 0..MaxSections,
         ReplaceSectionRows(v, n)
  PROVE  /\ sections' \subseteq Section
         /\ SectionKeysAreUnique'
         /\ {s \in sections' : s.version # v} = {s \in sections : s.version # v}
         /\ n # 0 => \E s \in sections' : s.version = v
  <1> DEFINE kept == sections \ SectionsIn(sections, {v})
  <1>1. PICK first \in 1..(MaxSectionId + 1) :
          /\ IsNextId(first, kept)
          /\ first + n - 1 <= MaxSectionId
          /\ sections' = kept \cup NewSections(v, n, first)
    BY DEF ReplaceSectionRows
  <1>2. kept = {s \in sections : s.version # v}
    BY DEF SectionsIn
  <1>3. \A s \in kept : s \in Section /\ s.id < first
    BY <1>1, <1>2 DEF IsNextId, TablesTypeOK
  <1>4. ASSUME NEW s \in NewSections(v, n, first)
        PROVE  \E i \in 1..n : s = [id |-> first + i - 1, version |-> v, ordinal |-> i]
    BY DEF NewSections
  <1>5. \A s \in NewSections(v, n, first) :
          /\ s.version = v /\ s.ordinal \in 1..n
          /\ s.id = first + s.ordinal - 1
          /\ s = [id |-> s.id, version |-> v, ordinal |-> s.ordinal]
    BY <1>4
  <1>6. \A s \in NewSections(v, n, first) : s \in Section
    <2> TAKE s \in NewSections(v, n, first)
    <2>1. PICK i \in 1..n : s = [id |-> first + i - 1, version |-> v, ordinal |-> i]
      BY <1>4
    <2>2. first + i - 1 \in 1..MaxSectionId /\ i \in 1..MaxSections
      BY <1>1, RevisionAssumption
    <2> QED
      BY <2>1, <2>2 DEF Section
  <1> HIDE DEF kept
  <1>7. sections' \subseteq Section
    BY <1>1, <1>3, <1>6
  <1>8. \A r, s \in sections' :
          r.id = s.id \/ (r.version = s.version /\ r.ordinal = s.ordinal) => r = s
    <2> TAKE r, s \in sections'
    <2> HAVE r.id = s.id \/ (r.version = s.version /\ r.ordinal = s.ordinal)
    <2>0. r.id \in Int /\ s.id \in Int /\ first \in Int
      BY <1>7 DEF Section
    <2>1. CASE r \in kept /\ s \in kept
      BY <2>1, <1>2 DEF SectionKeysAreUnique
    <2>2. CASE r \in kept /\ s \in NewSections(v, n, first)
      BY <2>0, <2>2, <1>2, <1>3, <1>5
    <2>3. CASE s \in kept /\ r \in NewSections(v, n, first)
      BY <2>0, <2>3, <1>2, <1>3, <1>5
    <2>4. CASE r \in NewSections(v, n, first) /\ s \in NewSections(v, n, first)
      <3>1. r.ordinal = s.ordinal
        BY <2>4, <1>5
      <3> QED
        BY <3>1, <2>4, <1>5
    <2> QED
      BY <1>1, <2>1, <2>2, <2>3, <2>4
  <1>9. {s \in sections' : s.version # v} = {s \in sections : s.version # v}
    BY <1>1, <1>2, <1>5
  <1>10. ASSUME n # 0 PROVE \E s \in sections' : s.version = v
    <2>1. 1 \in 1..n
      BY <1>10
    <2>2. [id |-> first + 1 - 1, version |-> v, ordinal |-> 1] \in NewSections(v, n, first)
      BY <2>1 DEF NewSections
    <2> QED
      BY <2>2, <1>1
  <1> QED
    BY <1>7, <1>8, <1>9, <1>10 DEF SectionKeysAreUnique

LEMMA VersionUpserted ==
  ASSUME TablesTypeOK, NEW d \in Document, NEW h \in Hash, UpsertVersion(d, h)
  PROVE  /\ <<d, h>> \in Version
         /\ stored' \subseteq Version
         /\ newer' \in [Document -> SUBSET (Hash \X Hash)]
  <1>1. <<d, h>> \in Version
    BY DEF Version
  <1>2. stored' \subseteq Version
    BY <1>1 DEF UpsertVersion, TablesTypeOK
  <1> DEFINE row == {p \in newer[d] : p[1] # h}
                      \cup {<<g, h>> : g \in {x \in Hash \ {h} : <<d, x>> \in stored}}
  <1>3. row \in SUBSET (Hash \X Hash)
    <2>1. {p \in newer[d] : p[1] # h} \subseteq Hash \X Hash
      BY DEF TablesTypeOK
    <2>2. {<<g, h>> : g \in {x \in Hash \ {h} : <<d, x>> \in stored}} \subseteq Hash \X Hash
      <3>1. ASSUME NEW g \in {x \in Hash \ {h} : <<d, x>> \in stored}
            PROVE  <<g, h>> \in Hash \X Hash
        OBVIOUS
      <3> QED
        BY <3>1, Zenon
    <2> QED
      BY <2>1, <2>2
  <1>4. newer' = [newer EXCEPT ![d] = row]
    BY DEF UpsertVersion
  <1> HIDE DEF row
  <1>5. newer' \in [Document -> SUBSET (Hash \X Hash)]
    BY <1>3, <1>4 DEF TablesTypeOK
  <1> QED
    BY <1>1, <1>2, <1>5

(* The versions of the other documents keep their sections.                *)
LEMMA OthersKeepSections ==
  ASSUME NEW d \in Document, NEW h \in Hash,
         sections \subseteq Section, sections' \subseteq Section,
         {s \in sections' : s.version # <<d, h>>} = {s \in sections : s.version # <<d, h>>}
  PROVE  {s \in sections' : s.version[1] # d} = {s \in sections : s.version[1] # d}
  <1>1. ASSUME NEW s, s.version[1] # d
        PROVE  s \in sections' <=> s \in sections
    <2>1. s.version # <<d, h>>
      BY <1>1
    <2> QED
      BY <2>1
  <1> QED
    BY <1>1

-----------------------------------------------------------------------------
(***************************************************************************)
(* The inductive invariant: what every call keeps of the tables, whatever  *)
(* it does to the index.                                                   *)
(***************************************************************************)
TablesInv ==
  /\ TablesTypeOK
  /\ RowsAreComplete
  /\ PointerIsConsistent
  /\ isCurrent \cap pendingCurrent = {}
  /\ CurrentHasSections
  /\ SectionKeysAreUnique

LEMMA InitStagedInv == Init => StagedInv
  <1> SUFFICES ASSUME Init PROVE StagedInv
    OBVIOUS
  <1>1. TablesTypeOK /\ RowsAreComplete
    BY DEF Init, TablesTypeOK, RowsAreComplete, HasRow
  <1>2. PointerIsConsistent /\ CurrentHasSections /\ SectionKeysAreUnique
    BY RevisionAssumption
    DEF Init, PointerIsConsistent, CurrentHasSections, SectionKeysAreUnique
  <1>3. \A d \in Document : Shown(d) = {}
    BY DEF Init, Shown, Searchable
  <1>4. IndexIsExact
    <2>1. fts = {}
      BY DEF Init
    <2> QED
      BY <1>3, <2>1, ExactIsUnion
  <1> QED
    BY <1>1, <1>2, <1>4, ExactIsTyped DEF Init, StagedInv

LEMMA CommitKeepsTables ==
  ASSUME TablesInv, NEW d \in Document, NEW h \in Hash, NEW n \in 1..MaxSections,
         NEW t \in Title, NEW st \in {"ACTIVE", "REDIRECTED"},
         CommitDocumentRevision(d, h, n, t, st)
  PROVE  TablesInv' /\ (IndexIsExact => IndexIsExact')
  <1> DEFINE v == <<d, h>>
  <1> USE DEF TablesInv
  <1>1. /\ UpsertDocumentRow(d, t, st) /\ UpsertVersion(d, h)
        /\ ReplaceSectionRows(v, n) /\ UNCHANGED sources
        /\ currentVersion' = [currentVersion EXCEPT ![d] = h]
        /\ isCurrent' = (isCurrent \ VersionsOf(d)) \cup {v}
        /\ pendingCurrent' = pendingCurrent \ {v}
        /\ fts' = Reindexed(d, sections)
    BY DEF CommitDocumentRevision
  <1>2. TablesTypeOK
    OBVIOUS
  <1>3. /\ v \in Version /\ stored' \subseteq Version
        /\ newer' \in [Document -> SUBSET (Hash \X Hash)]
    BY <1>1, <1>2, VersionUpserted
  <1>4. /\ sections' \subseteq Section
        /\ SectionKeysAreUnique'
        /\ {s \in sections' : s.version # v} = {s \in sections : s.version # v}
        /\ \E s \in sections' : s.version = v
    BY <1>1, <1>2, <1>3, SectionsReplaced
  <1>5. stored' = stored \cup {v}
    BY <1>1 DEF UpsertVersion
  <1>6. TablesTypeOK'
    BY <1>1, <1>2, <1>3, <1>4 DEF TablesTypeOK, UpsertDocumentRow, Status
  <1>7. RowsAreComplete'
    <2>1. \A x \in Document : HasRow(x)' <=> HasRow(x) \/ x = d
      BY <1>1, <1>2 DEF TablesTypeOK, UpsertDocumentRow, HasRow
    <2>2. \A x \in Document : HasRow(x)' <=> title'[x] # None
      BY <1>1, <1>2, <2>1, RevisionAssumption
      DEF RowsAreComplete, TablesTypeOK, UpsertDocumentRow
    <2>3. \A x \in Document : ~HasRow(x)' => currentVersion'[x] = None
      BY <1>1, <1>2, <2>1 DEF RowsAreComplete, TablesTypeOK
    <2>4. \A u \in stored' : HasRow(u[1])'
      BY <1>2, <1>5, <2>1 DEF RowsAreComplete, TablesTypeOK, Version
    <2>5. \A x \in Document : HasRow(x)' => sources'[SourceOf[x]] # "ABSENT"
      BY <1>1, <2>1 DEF RowsAreComplete, UpsertDocumentRow
    <2> QED
      BY <2>2, <2>3, <2>4, <2>5 DEF RowsAreComplete
  <1>8. PointerIsConsistent'
    <2>1. isCurrent' \subseteq stored'
      BY <1>1, <1>5 DEF PointerIsConsistent
    <2>2. ASSUME NEW x \in Document, NEW g \in Hash
          PROVE  <<x, g>> \in isCurrent' <=> currentVersion'[x] = g
      <3>1. CASE x = d
        BY <1>1, <1>2, <3>1 DEF VersionsOf, TablesTypeOK
      <3>2. CASE x # d
        BY <1>1, <1>2, <3>2 DEF VersionsOf, TablesTypeOK, PointerIsConsistent
      <3> QED
        BY <3>1, <3>2
    <2> QED
      BY <2>1, <2>2 DEF PointerIsConsistent
  <1>9. isCurrent' \cap pendingCurrent' = {}
    BY <1>1
  <1>10. CurrentHasSections'
    <2>1. ASSUME NEW s \in sections' PROVE s.version \in stored'
      BY <1>4, <1>5 DEF CurrentHasSections
    <2>2. ASSUME NEW u \in isCurrent' PROVE \E s \in sections' : s.version = u
      BY <1>1, <1>4 DEF CurrentHasSections
    <2> QED
      BY <2>1, <2>2 DEF CurrentHasSections
  <1>11. ASSUME IndexIsExact PROVE IndexIsExact'
    <2>1. {s \in sections' : s.version[1] # d} = {s \in sections : s.version[1] # d}
      BY <1>2, <1>4, OthersKeepSections DEF TablesTypeOK
    <2>2. \A x \in Document \ {d} : /\ status'[x] = status[x]
                                    /\ title'[x] = title[x]
                                    /\ currentVersion'[x] = currentVersion[x]
      BY <1>1, <1>2 DEF UpsertDocumentRow, TablesTypeOK
    <2>3. sections \in SUBSET Section /\ \A r, s \in sections : r.id = s.id => r = s
      BY <1>2 DEF TablesTypeOK, SectionKeysAreUnique
    <2> QED
      BY <1>1, <1>2, <1>11, <2>1, <2>2, <2>3, ReindexedIsExact
  <1> QED
    BY <1>4, <1>6, <1>7, <1>8, <1>9, <1>10, <1>11

(* A status change, or a new document: its versions stay.                  *)
LEMMA UpsertKeepsTables ==
  ASSUME TablesInv, NEW d \in Document, NEW t \in Title, NEW st \in Status,
         UpsertDocument(d, t, st)
  PROVE  TablesInv' /\ (IndexIsExact => IndexIsExact')
  <1> USE DEF TablesInv
  <1>1. /\ UpsertDocumentRow(d, t, st)
        /\ UNCHANGED <<sources, currentVersion, versionRows, sections>>
        /\ fts' = Reindexed(d, sections)
    BY DEF UpsertDocument
  <1>2. TablesTypeOK
    OBVIOUS
  <1>3. TablesTypeOK'
    BY <1>1, <1>2 DEF TablesTypeOK, UpsertDocumentRow, versionRows
  <1>4. RowsAreComplete'
    <2>1. \A x \in Document : HasRow(x)' <=> HasRow(x) \/ x = d
      BY <1>1, <1>2 DEF TablesTypeOK, UpsertDocumentRow, HasRow, Status
    <2>2. \A x \in Document : HasRow(x)' <=> title'[x] # None
      BY <1>1, <1>2, <2>1, RevisionAssumption
      DEF RowsAreComplete, TablesTypeOK, UpsertDocumentRow
    <2>3. \A x \in Document : ~HasRow(x)' => currentVersion'[x] = None
      BY <1>1, <2>1 DEF RowsAreComplete
    <2>4. \A u \in stored' : HasRow(u[1])'
      BY <1>1, <1>2, <2>1 DEF RowsAreComplete, TablesTypeOK, Version, versionRows
    <2>5. \A x \in Document : HasRow(x)' => sources'[SourceOf[x]] # "ABSENT"
      BY <1>1, <2>1 DEF RowsAreComplete, UpsertDocumentRow
    <2> QED
      BY <2>2, <2>3, <2>4, <2>5 DEF RowsAreComplete
  <1>5. PointerIsConsistent' /\ isCurrent' \cap pendingCurrent' = {}
    BY <1>1 DEF PointerIsConsistent, versionRows
  <1>6. CurrentHasSections' /\ SectionKeysAreUnique'
    BY <1>1 DEF CurrentHasSections, SectionKeysAreUnique, versionRows
  <1>7. ASSUME IndexIsExact PROVE IndexIsExact'
    <2>1. \A x \in Document \ {d} : /\ status'[x] = status[x]
                                    /\ title'[x] = title[x]
                                    /\ currentVersion'[x] = currentVersion[x]
      BY <1>1, <1>2 DEF UpsertDocumentRow, TablesTypeOK
    <2>2. sections \in SUBSET Section /\ \A r, s \in sections : r.id = s.id => r = s
      BY <1>2 DEF TablesTypeOK, SectionKeysAreUnique
    <2> QED
      BY <1>1, <1>2, <1>7, <2>1, <2>2, ReindexedIsExact
  <1> QED
    BY <1>3, <1>4, <1>5, <1>6, <1>7

LEMMA StagingKeepsTables ==
  ASSUME TablesInv, NEW d \in Document, NEW h \in Hash, NEW wantsCurrent \in BOOLEAN,
         AddDocumentVersion(d, h, wantsCurrent)
  PROVE  TablesInv' /\ (IndexIsExact => IndexIsExact')
  <1> USE DEF TablesInv
  <1>1. /\ UpsertVersion(d, h)
        /\ UNCHANGED <<sources, documentRows, isCurrent, sections, fts>>
        /\ pendingCurrent' =
             IF wantsCurrent /\ <<d, h>> \notin isCurrent
             THEN pendingCurrent \cup {<<d, h>>}
             ELSE pendingCurrent \ {<<d, h>>}
    BY DEF AddDocumentVersion
  <1>2. TablesTypeOK
    OBVIOUS
  <1>3. /\ <<d, h>> \in Version /\ stored' \subseteq Version
        /\ newer' \in [Document -> SUBSET (Hash \X Hash)]
    BY <1>1, <1>2, VersionUpserted
  <1>4. stored' = stored \cup {<<d, h>>}
    BY <1>1 DEF UpsertVersion
  <1>5. TablesTypeOK'
    BY <1>1, <1>3 DEF TablesTypeOK, documentRows
  <1>6. RowsAreComplete'
    BY <1>1, <1>4 DEF RowsAreComplete, AddDocumentVersion, HasRow, documentRows
  <1>7. PointerIsConsistent'
    BY <1>1, <1>4 DEF PointerIsConsistent, documentRows
  <1>8. isCurrent' \cap pendingCurrent' = {}
    BY <1>1
  <1>9. CurrentHasSections' /\ SectionKeysAreUnique'
    BY <1>1, <1>4 DEF CurrentHasSections, SectionKeysAreUnique
  <1>10. ASSUME IndexIsExact PROVE IndexIsExact'
    BY <1>1, <1>10 DEF IndexIsExact, documentRows
  <1> QED
    BY <1>5, <1>6, <1>7, <1>8, <1>9, <1>10

(* The promoted version was not shown, so every section shown before is    *)
(* among the rows whose ids are deleted.                                   *)
LEMMA PromotionKeepsTables ==
  ASSUME TablesInv, NEW d \in Document, NEW h \in Hash, NEW n \in 0..MaxSections,
         PromoteWithSections(d, h, n)
  PROVE  TablesInv' /\ (IndexIsExact => IndexIsExact')
  <1> DEFINE v == <<d, h>>
  <1> USE DEF TablesInv
  <1>1. /\ v \in stored \cap pendingCurrent /\ n # 0
        /\ ReplaceSectionRows(v, n)
        /\ isCurrent' = (isCurrent \ VersionsOf(d)) \cup {v}
        /\ pendingCurrent' = pendingCurrent \ {v}
        /\ currentVersion' = [currentVersion EXCEPT ![d] = h]
        /\ UNCHANGED <<sources, status, title, stored, newer>>
        /\ fts' = Reindexed(d, sections')
    BY DEF PromoteWithSections
  <1>2. TablesTypeOK
    OBVIOUS
  <1>3. v \in Version
    BY DEF Version
  <1>4. /\ sections' \subseteq Section
        /\ SectionKeysAreUnique'
        /\ {s \in sections' : s.version # v} = {s \in sections : s.version # v}
        /\ \E s \in sections' : s.version = v
    BY <1>1, <1>2, <1>3, SectionsReplaced
  <1>5. TablesTypeOK'
    BY <1>1, <1>2, <1>3, <1>4 DEF TablesTypeOK
  <1>6. HasRow(d)
    BY <1>1 DEF RowsAreComplete
  <1>7. RowsAreComplete'
    BY <1>1, <1>2, <1>6 DEF RowsAreComplete, TablesTypeOK, HasRow
  <1>8. PointerIsConsistent'
    <2>1. isCurrent' \subseteq stored'
      BY <1>1 DEF PointerIsConsistent
    <2>2. ASSUME NEW x \in Document, NEW g \in Hash
          PROVE  <<x, g>> \in isCurrent' <=> currentVersion'[x] = g
      <3>1. CASE x = d
        BY <1>1, <1>2, <3>1 DEF VersionsOf, TablesTypeOK
      <3>2. CASE x # d
        BY <1>1, <1>2, <3>2 DEF VersionsOf, TablesTypeOK, PointerIsConsistent
      <3> QED
        BY <3>1, <3>2
    <2> QED
      BY <2>1, <2>2 DEF PointerIsConsistent
  <1>9. isCurrent' \cap pendingCurrent' = {}
    BY <1>1
  <1>10. CurrentHasSections'
    <2>1. ASSUME NEW s \in sections' PROVE s.version \in stored'
      BY <1>1, <1>4 DEF CurrentHasSections
    <2>2. ASSUME NEW u \in isCurrent' PROVE \E s \in sections' : s.version = u
      BY <1>1, <1>4 DEF CurrentHasSections
    <2> QED
      BY <2>1, <2>2 DEF CurrentHasSections
  <1>11. ASSUME IndexIsExact PROVE IndexIsExact'
    <2>1. {s \in sections' : s.version[1] # d} = {s \in sections : s.version[1] # d}
      BY <1>2, <1>4, OthersKeepSections DEF TablesTypeOK
    <2>2. \A x \in Document \ {d} : /\ status'[x] = status[x]
                                    /\ title'[x] = title[x]
                                    /\ currentVersion'[x] = currentVersion[x]
      BY <1>1, <1>2 DEF TablesTypeOK
    <2>3. sections' \in SUBSET Section /\ \A r, s \in sections' : r.id = s.id => r = s
      BY <1>4 DEF SectionKeysAreUnique
    <2>4. {s \in sections : s.version = <<d, currentVersion[d]>>} \subseteq sections'
      <3>1. <<d, currentVersion[d]>> # v
        BY <1>1 DEF PointerIsConsistent
      <3>2. ASSUME NEW s \in sections, s.version = <<d, currentVersion[d]>>
            PROVE  s \in sections'
        BY <1>4, <3>1, <3>2
      <3> QED
        BY <3>2
    <2>5. {s \in sections : s.version[1] # d} \subseteq sections'
      BY <2>1
    <2> QED
      BY <1>1, <1>2, <1>11, <2>1, <2>2, <2>3, <2>4, <2>5, ReindexedIsExact
  <1> QED
    BY <1>4, <1>5, <1>7, <1>8, <1>9, <1>10, <1>11

(* No document shows a version that is neither current nor pending.        *)
LEMMA OldSectionsKeepTables ==
  ASSUME TablesInv, NEW d \in Document, NEW h \in Hash, NEW n \in 0..MaxSections,
         ReplaceOldSections(d, h, n)
  PROVE  TablesInv' /\ (IndexIsExact => IndexIsExact')
  <1> DEFINE v == <<d, h>>
  <1> USE DEF TablesInv
  <1>1. /\ v \in stored \ (isCurrent \cup pendingCurrent)
        /\ ReplaceSectionRows(v, n)
        /\ UNCHANGED <<sources, documentRows, versionRows, fts>>
    BY DEF ReplaceOldSections
  <1>2. TablesTypeOK
    OBVIOUS
  <1>3. v \in Version
    BY DEF Version
  <1>4. /\ sections' \subseteq Section
        /\ SectionKeysAreUnique'
        /\ {s \in sections' : s.version # v} = {s \in sections : s.version # v}
    BY <1>1, <1>2, <1>3, SectionsReplaced
  <1>5. TablesTypeOK'
    BY <1>1, <1>4 DEF TablesTypeOK, documentRows, versionRows
  <1>6. RowsAreComplete' /\ PointerIsConsistent' /\ isCurrent' \cap pendingCurrent' = {}
    BY <1>1 DEF RowsAreComplete, PointerIsConsistent, HasRow, documentRows, versionRows
  <1>7. CurrentHasSections'
    <2>1. ASSUME NEW s \in sections' PROVE s.version \in stored'
      BY <1>1, <1>4 DEF CurrentHasSections, versionRows
    <2>2. ASSUME NEW u \in isCurrent' PROVE \E s \in sections' : s.version = u
      BY <1>1, <1>4 DEF CurrentHasSections, versionRows
    <2> QED
      BY <2>1, <2>2 DEF CurrentHasSections
  <1>8. \A x \in Document : Shown(x)' = Shown(x)
    <2> TAKE x \in Document
    <2>1. <<x, currentVersion[x]>> # v
      BY <1>1 DEF PointerIsConsistent
    <2>2. {s \in sections' : s.version = <<x, currentVersion[x]>>}
            = {s \in sections : s.version = <<x, currentVersion[x]>>}
      <3>1. ASSUME NEW s, s.version = <<x, currentVersion[x]>>
            PROVE  s \in sections' <=> s \in sections
        BY <1>4, <2>1, <3>1
      <3> QED
        BY <3>1
    <2> QED
      BY <1>1, <2>2, ShownStays DEF documentRows
  <1>9. ASSUME IndexIsExact PROVE IndexIsExact'
    <2>1. fts = UNION {Shown(x) : x \in Document}
      BY <1>9, ExactIsUnion
    <2>2. fts' = UNION {Shown(x)' : x \in Document}
      BY <1>1, <1>8, <2>1
    <2> QED
      BY <2>2 DEF IndexIsExact, Shown
  <1> QED
    BY <1>4, <1>5, <1>6, <1>7, <1>9

(* No index row has the id of a section of a purged version.               *)
LEMMA PurgeKeepsIndex ==
  ASSUME TablesInv, IndexIsExact, NEW scope, NEW keep,
         PurgeOldDocumentVersions(scope, keep)
  PROVE  /\ fts' = fts
         /\ \A x \in Document : Shown(x)' = Shown(x)
  <1> DEFINE purged == Candidates(scope, keep)
  <1> USE DEF TablesInv
  <1>1. /\ fts' = Without(fts, SectionsIn(sections, purged))
        /\ sections' = sections \ SectionsIn(sections, purged)
        /\ UNCHANGED <<sources, documentRows, isCurrent, pendingCurrent>>
    BY DEF PurgeOldDocumentVersions
  <1>2. \A d \in Document : <<d, currentVersion[d]>> \notin purged
    BY DEF PurgeOldDocumentVersions
  <1> HIDE DEF purged
  <1>3. ASSUME NEW e \in fts
        PROVE  e.rowid \notin Ids(SectionsIn(sections, purged))
    <2>1. PICK d \in Document : e \in Shown(d)
      BY ExactIsUnion
    <2>2. PICK s \in sections : s.version = <<d, currentVersion[d]>> /\ e.rowid = s.id
      BY <2>1, ShownNamesSections
    <2>3. ASSUME NEW r \in SectionsIn(sections, purged), r.id = s.id
          PROVE  FALSE
      <3>1. r \in sections /\ r.version \in purged
        BY DEF SectionsIn
      <3>2. r = s
        BY <2>3, <3>1 DEF SectionKeysAreUnique
      <3> QED
        BY <1>2, <2>2, <3>1, <3>2
    <2> QED
      BY <2>2, <2>3 DEF Ids
  <1>4. ASSUME NEW x \in Document
        PROVE  Shown(x)' = Shown(x)
    <2>1. {s \in sections' : s.version = <<x, currentVersion[x]>>}
            = {s \in sections : s.version = <<x, currentVersion[x]>>}
      BY <1>1, <1>2 DEF SectionsIn
    <2> QED
      BY <1>1, <2>1, ShownStays DEF documentRows
  <1> QED
    BY <1>1, <1>3, <1>4 DEF Without

LEMMA PurgeKeepsTables ==
  ASSUME TablesInv, NEW scope, NEW keep,
         PurgeOldDocumentVersions(scope, keep)
  PROVE  TablesInv' /\ (IndexIsExact => IndexIsExact')
  <1> DEFINE purged == Candidates(scope, keep)
  <1> USE DEF TablesInv
  <1>1. /\ sections' = sections \ SectionsIn(sections, purged)
        /\ stored' = stored \ purged
        /\ newer' = [d \in Document |->
                       {p \in newer[d] : <<d, p[1]>> \notin purged
                                           /\ <<d, p[2]>> \notin purged}]
        /\ UNCHANGED <<sources, documentRows, isCurrent, pendingCurrent>>
    BY DEF PurgeOldDocumentVersions
  <1>2. purged \cap isCurrent = {}
    BY DEF Candidates
  <1> HIDE DEF purged
  <1>4. newer' \in [Document -> SUBSET (Hash \X Hash)]
    <2>1. ASSUME NEW d \in Document
          PROVE  {p \in newer[d] : <<d, p[1]>> \notin purged /\ <<d, p[2]>> \notin purged}
                   \in SUBSET (Hash \X Hash)
      BY DEF TablesTypeOK
    <2> QED
      BY <1>1, <2>1
  <1>5. TablesTypeOK'
    BY <1>1, <1>4 DEF TablesTypeOK, documentRows
  <1>6. RowsAreComplete' /\ PointerIsConsistent' /\ isCurrent' \cap pendingCurrent' = {}
    BY <1>1, <1>2 DEF RowsAreComplete, PointerIsConsistent, HasRow, documentRows
  <1>7. CurrentHasSections' /\ SectionKeysAreUnique'
    BY <1>1, <1>2 DEF CurrentHasSections, SectionKeysAreUnique, SectionsIn
  <1>8. ASSUME IndexIsExact PROVE IndexIsExact'
    <2>0. fts' = fts /\ \A x \in Document : Shown(x)' = Shown(x)
      BY <1>8, PurgeKeepsIndex
    <2>1. fts = UNION {Shown(x) : x \in Document}
      BY <1>8, ExactIsUnion
    <2>2. fts' = UNION {Shown(x)' : x \in Document}
      BY <2>0, <2>1
    <2> QED
      BY <2>2 DEF IndexIsExact, Shown
  <1> QED
    BY <1>5, <1>6, <1>7, <1>8

(* Documents of a source that has no row yet have none either.             *)
LEMMA AddSourceKeepsTables ==
  ASSUME TablesInv, NEW s \in Source, NEW enabled \in {"ENABLED", "DISABLED"},
         AddSource(s, enabled)
  PROVE  TablesInv' /\ (IndexIsExact => IndexIsExact')
  <1> USE DEF TablesInv
  <1>1. /\ sources[s] = "ABSENT"
        /\ sources' = [sources EXCEPT ![s] = enabled]
        /\ UNCHANGED <<documentRows, versionRows, sections, fts>>
    BY DEF AddSource
  <1>2. TablesTypeOK'
    BY <1>1 DEF TablesTypeOK, documentRows, versionRows
  <1>3. \A x \in Document : sources'[SourceOf[x]] = sources[SourceOf[x]] \/ SourceOf[x] = s
    BY <1>1 DEF TablesTypeOK
  <1>4. RowsAreComplete'
    <2>1. \A x \in Document : HasRow(x)' => sources'[SourceOf[x]] # "ABSENT"
      BY <1>1, <1>3 DEF RowsAreComplete, HasRow, documentRows
    <2> QED
      BY <1>1, <2>1 DEF RowsAreComplete, HasRow, documentRows, versionRows
  <1>5. PointerIsConsistent' /\ isCurrent' \cap pendingCurrent' = {}
    BY <1>1 DEF PointerIsConsistent, documentRows, versionRows
  <1>6. CurrentHasSections' /\ SectionKeysAreUnique'
    BY <1>1 DEF CurrentHasSections, SectionKeysAreUnique, versionRows
  <1>7. \A x \in Document : Shown(x)' = Shown(x)
    <2> TAKE x \in Document
    <2>1. CASE SourceOf[x] = s
      <3>1. currentVersion[x] = None
        BY <1>1, <2>1 DEF RowsAreComplete
      <3> QED
        BY <1>1, <3>1 DEF Shown, Searchable, documentRows
    <2>2. CASE SourceOf[x] # s
      BY <1>1, <1>3, <2>2 DEF Shown, Searchable, documentRows
    <2> QED
      BY <2>1, <2>2
  <1>8. ASSUME IndexIsExact PROVE IndexIsExact'
    <2>1. fts = UNION {Shown(x) : x \in Document}
      BY <1>8, ExactIsUnion
    <2>2. fts' = UNION {Shown(x)' : x \in Document}
      BY <1>1, <1>7, <2>1
    <2> QED
      BY <2>2 DEF IndexIsExact, Shown
  <1> QED
    BY <1>2, <1>4, <1>5, <1>6, <1>8

LEMMA RebuildKeepsTables ==
  ASSUME TablesInv,
         UNCHANGED <<documentRows, versionRows, sections>>,
         fts' = ExpectedIndex(sources'),
         sources' \in [Source -> {"ABSENT", "ENABLED", "DISABLED"}],
         \A s \in Source : sources[s] # "ABSENT" => sources'[s] # "ABSENT"
  PROVE  TablesInv' /\ IndexIsExact'
  <1> USE DEF TablesInv
  <1>1. TablesTypeOK'
    BY DEF TablesTypeOK, documentRows, versionRows
  <1>2. RowsAreComplete'
    BY RevisionAssumption DEF RowsAreComplete, HasRow, documentRows, versionRows
  <1>3. PointerIsConsistent' /\ isCurrent' \cap pendingCurrent' = {}
    BY DEF PointerIsConsistent, documentRows, versionRows
  <1>4. CurrentHasSections' /\ SectionKeysAreUnique'
    BY DEF CurrentHasSections, SectionKeysAreUnique, versionRows
  <1>5. IndexIsExact'
    BY RebuildIsExact
  <1> QED
    BY <1>1, <1>2, <1>3, <1>4, <1>5

LEMMA SourceLoadsKeepTables ==
  ASSUME TablesInv, SourceLoads \/ RebuildSearchIndex
  PROVE  TablesInv' /\ (IndexIsExact => IndexIsExact')
  <1>1. CASE RebuildSearchIndex
    BY <1>1, RebuildKeepsTables DEF RebuildSearchIndex, TablesInv, TablesTypeOK
  <1>2. CASE SourceLoads
    <2>1. PICK s \in Source, enabled \in {"ENABLED", "DISABLED"} :
            AddSource(s, enabled) \/ UpdateSource(s, enabled)
      BY <1>2 DEF SourceLoads
    <2>2. CASE AddSource(s, enabled)
      BY <2>2, AddSourceKeepsTables
    <2>3. CASE UpdateSource(s, enabled)
      <3>1. /\ sources' = [sources EXCEPT ![s] = enabled]
            /\ fts' = ExpectedIndex(sources')
            /\ UNCHANGED <<documentRows, versionRows, sections>>
        BY <2>3 DEF UpdateSource
      <3>2. /\ sources' \in [Source -> {"ABSENT", "ENABLED", "DISABLED"}]
            /\ \A x \in Source : sources[x] # "ABSENT" => sources'[x] # "ABSENT"
        BY <3>1 DEF TablesInv, TablesTypeOK
      <3> QED
        BY <3>1, <3>2, RebuildKeepsTables
    <2> QED
      BY <2>1, <2>2, <2>3
  <1> QED
    BY <1>1, <1>2

(* The deprecated replacement writes the tables like the others; only the  *)
(* index rows that it deletes are not the ones that were there.            *)
LEMMA ReplacementKeepsTables ==
  ASSUME TablesInv, NEW d \in Document, NEW h \in Hash, NEW n \in 0..MaxSections,
         ReplaceCurrentSections(d, h, n)
  PROVE  TablesInv'
  <1> DEFINE v == <<d, h>>
  <1> USE DEF TablesInv
  <1>1. /\ v \in stored /\ n # 0
        /\ ReplaceSectionRows(v, n)
        /\ UNCHANGED <<sources, documentRows, versionRows>>
    BY DEF ReplaceCurrentSections
  <1>2. v \in Version
    BY DEF Version
  <1>3. /\ sections' \subseteq Section
        /\ SectionKeysAreUnique'
        /\ {s \in sections' : s.version # v} = {s \in sections : s.version # v}
        /\ \E s \in sections' : s.version = v
    BY <1>1, <1>2, SectionsReplaced
  <1>4. TablesTypeOK'
    BY <1>1, <1>3 DEF TablesTypeOK, documentRows, versionRows
  <1>5. RowsAreComplete' /\ PointerIsConsistent' /\ isCurrent' \cap pendingCurrent' = {}
    BY <1>1 DEF RowsAreComplete, PointerIsConsistent, HasRow, documentRows, versionRows
  <1>6. CurrentHasSections'
    <2>1. ASSUME NEW s \in sections' PROVE s.version \in stored'
      BY <1>1, <1>3 DEF CurrentHasSections, versionRows
    <2>2. ASSUME NEW u \in isCurrent' PROVE \E s \in sections' : s.version = u
      BY <1>1, <1>3 DEF CurrentHasSections, versionRows
    <2> QED
      BY <2>1, <2>2 DEF CurrentHasSections
  <1> QED
    BY <1>3, <1>4, <1>5, <1>6

-----------------------------------------------------------------------------
(***************************************************************************)
(* The theorems on the calls that stage versions and promote them.         *)
(***************************************************************************)
LEMMA StutterKeepsTables ==
  ASSUME TablesInv, UNCHANGED vars
  PROVE  TablesInv' /\ (IndexIsExact => IndexIsExact')
  BY DEF TablesInv, vars, documentRows, versionRows, TablesTypeOK, HasRow,
         RowsAreComplete, PointerIsConsistent, CurrentHasSections,
         SectionKeysAreUnique, IndexIsExact

LEMMA StepKeepsTables ==
  ASSUME TablesInv, [NextStaged]_vars
  PROVE  TablesInv' /\ (IndexIsExact => IndexIsExact')
  <1>1. CASE Commits
    BY <1>1, CommitKeepsTables DEF Commits
  <1>2. CASE Observations
    BY <1>2, UpsertKeepsTables DEF Observations, Status
  <1>3. CASE SourceLoads
    BY <1>3, SourceLoadsKeepTables
  <1>4. CASE RebuildSearchIndex
    BY <1>4, SourceLoadsKeepTables
  <1>5. CASE Purges
    BY <1>5, PurgeKeepsTables DEF Purges
  <1>6. CASE Creations
    BY <1>6, UpsertKeepsTables DEF Creations, Status
  <1>7. CASE Stagings
    BY <1>7, StagingKeepsTables DEF Stagings
  <1>8. CASE Promotions
    BY <1>8, PromotionKeepsTables, OldSectionsKeepTables DEF Promotions
  <1>9. CASE UNCHANGED vars
    BY <1>9, StutterKeepsTables
  <1> QED
    BY <1>1, <1>2, <1>3, <1>4, <1>5, <1>6, <1>7, <1>8, <1>9 DEF NextStaged, Next

LEMMA StagedIsTables == StagedInv <=> TablesInv /\ IndexIsExact
  BY ExactIsTyped DEF StagedInv, TablesInv, TypeOK

LEMMA StepKeepsInv ==
  ASSUME StagedInv, [NextStaged]_vars
  PROVE  StagedInv'
  BY StagedIsTables, StepKeepsTables, PTL

(* Whatever the sequence of calls, the deprecated staging and promotion    *)
(* included, pointers, flags, sections and index agree.                    *)
THEOREM StagedInvariant == SpecStaged => []StagedInv
  <1>1. StagedInv /\ [NextStaged]_vars => StagedInv'
    BY StepKeepsInv
  <1> QED
    BY <1>1, InitStagedInv, PTL DEF SpecStaged

(* The calls of the application keep every document with a current version,*)
(* and stage none.                                                         *)
LEMMA CatalogStep ==
  ASSUME CatalogInv, [Next]_vars
  PROVE  CatalogInv'
  <1> DEFINE EachHasVersion == \A d \in Document : HasRow(d) => currentVersion[d] # None
  <1>1. StagedInv'
    BY StepKeepsInv DEF CatalogInv, NextStaged
  <1>2. TablesTypeOK /\ None \notin Hash
    BY RevisionAssumption DEF CatalogInv, StagedInv, TypeOK
  <1>3. pendingCurrent' = {} /\ EachHasVersion'
    <2>1. CASE Commits
      <3>1. PICK d \in Document, h \in Hash, n \in 1..MaxSections, t \in Title,
                 st \in {"ACTIVE", "REDIRECTED"} : CommitDocumentRevision(d, h, n, t, st)
        BY <2>1 DEF Commits
      <3> QED
        BY <1>2, <3>1
        DEF CatalogInv, CommitDocumentRevision, UpsertDocumentRow, HasRow, TablesTypeOK
    <2>2. CASE Observations
      <3>1. PICK d \in Document, t \in Title, st \in {"STALE", "REDIRECTED", "REMOVED"} :
              HasRow(d) /\ UpsertDocument(d, t, st)
        BY <2>2 DEF Observations
      <3> QED
        BY <1>2, <3>1
        DEF CatalogInv, UpsertDocument, UpsertDocumentRow, HasRow, TablesTypeOK, versionRows
    <2>3. CASE SourceLoads \/ RebuildSearchIndex \/ UNCHANGED vars
      BY <2>3 DEF CatalogInv, SourceLoads, AddSource, UpdateSource, RebuildSearchIndex,
                  vars, documentRows, versionRows, HasRow
    <2>4. CASE Purges
      BY <2>4 DEF CatalogInv, Purges, PurgeOldDocumentVersions, documentRows, HasRow
    <2> QED
      BY <2>1, <2>2, <2>3, <2>4 DEF Next
  <1> QED
    BY <1>1, <1>3 DEF CatalogInv

THEOREM CatalogInvariant == Spec => []CatalogInv
  <1>1. Init => CatalogInv
    BY InitStagedInv DEF CatalogInv, Init, HasRow
  <1>2. CatalogInv /\ [Next]_vars => CatalogInv'
    BY CatalogStep
  <1> QED
    BY <1>1, <1>2, PTL DEF Spec

-----------------------------------------------------------------------------
(***************************************************************************)
(* The verification.                                                       *)
(***************************************************************************)

LEMMA NoIssues ==
  ASSUME NEW code, NEW S
  PROVE  Issues(code, S) = {} <=> S = {}
  <1>1. ASSUME NEW x \in S PROVE <<code, x>> \in Issues(code, S)
    BY DEF Issues
  <1>2. ASSUME S = {} PROVE Issues(code, S) = {}
    BY <1>2 DEF Issues
  <1> QED
    BY <1>1, <1>2

(* The queries on the documents find nothing where the pointers and the    *)
(* flags agree, every current version has sections and every active        *)
(* document a current version.                                             *)
LEMMA DocumentQueriesAreExact ==
  ASSUME TypeOK, isCurrent \subseteq stored, \A s \in sections : s.version \in stored
  PROVE  DocumentIssues = {} <=>
           /\ PointerIsConsistent
           /\ CurrentHasSections
           /\ \A d \in Document : status[d] = "ACTIVE" => currentVersion[d] # None
  <1> DEFINE Points(d) == currentVersion[d] # None
             Sound ==
               /\ \A d \in Document : ~Points(d) => status[d] # "ACTIVE"
               /\ \A d \in Document : Points(d) => Pointed(d) \in stored
               /\ \A d \in Document : Points(d) => Pointed(d) \notin stored \ isCurrent
               /\ \A d \in Document : Points(d) /\ Pointed(d) \in stored =>
                                        SectionsIn(sections, {Pointed(d)}) # {}
               /\ \A d \in Document, h \in Hash :
                    <<d, h>> \in stored \cap isCurrent => currentVersion[d] = h
  <1>2. DocumentIssues = {} <=> Sound
    <2>1. DocumentIssues = {} <=>
            Unpointed = {} /\ Dangling = {} /\ Unmarked = {} /\ Sectionless = {}
              /\ Misflagged = {}
      BY NoIssues DEF DocumentIssues
    <2>2. Unpointed = {} <=> \A d \in Document : ~Points(d) => status[d] # "ACTIVE"
      BY DEF Unpointed, Pointing
    <2>3. Dangling = {} <=> \A d \in Document : Points(d) => Pointed(d) \in stored
      BY DEF Dangling, Pointing
    <2>4. Unmarked = {} <=>
            \A d \in Document : Points(d) => Pointed(d) \notin stored \ isCurrent
      BY DEF Unmarked, Pointing
    <2>5. Sectionless = {} <=> \A d \in Document : Points(d) /\ Pointed(d) \in stored =>
                                                SectionsIn(sections, {Pointed(d)}) # {}
      BY DEF Sectionless, Pointing
    <2>6. Misflagged = {} <=> \A d \in Document, h \in Hash :
                           <<d, h>> \in stored \cap isCurrent => currentVersion[d] = h
      BY DEF Misflagged
    <2> QED
      BY <2>1, <2>2, <2>3, <2>4, <2>5, <2>6
  <1>3. \A d \in Document : Points(d) <=> currentVersion[d] \in Hash
    BY RevisionAssumption DEF TypeOK, TablesTypeOK
  <1>4. \A v \in isCurrent : \E d \in Document, h \in Hash : v = <<d, h>>
    BY DEF TypeOK, TablesTypeOK, Version
  <1>5. \A v : SectionsIn(sections, {v}) # {} <=> \E s \in sections : s.version = v
    BY DEF SectionsIn
  <1>6. ASSUME Sound
        PROVE  /\ PointerIsConsistent
               /\ CurrentHasSections
               /\ \A d \in Document : status[d] = "ACTIVE" => currentVersion[d] # None
    <2>1. PointerIsConsistent
      BY <1>3, <1>6 DEF PointerIsConsistent, Pointed
    <2>2. ASSUME NEW v \in isCurrent PROVE \E s \in sections : s.version = v
      <3>1. PICK d \in Document, h \in Hash : v = <<d, h>>
        BY <1>4
      <3>2. currentVersion[d] = h
        BY <2>1, <3>1 DEF PointerIsConsistent
      <3>3. Points(d) /\ v = Pointed(d) /\ v \in stored
        BY <1>3, <2>1, <3>1, <3>2 DEF PointerIsConsistent, Pointed
      <3>4. SectionsIn(sections, {v}) # {}
        BY <1>6, <3>3
      <3> QED
        BY <1>5, <3>4
    <2> QED
      BY <1>6, <2>1, <2>2 DEF CurrentHasSections
  <1>7. ASSUME PointerIsConsistent, CurrentHasSections,
               \A d \in Document : status[d] = "ACTIVE" => currentVersion[d] # None
        PROVE  Sound
    BY <1>3, <1>5, <1>7 DEF PointerIsConsistent, CurrentHasSections, Pointed
  <1> QED
    BY <1>2, <1>6, <1>7

(* Where the pointers and the flags agree, what is indexed for a document  *)
(* are the sections a search may return.                                   *)
LEMMA ShownIsJoined ==
  ASSUME TypeOK, PointerIsConsistent, NEW s \in sections
  PROVE  /\ s.version[1] \in Document
         /\ Joined(s) <=> Entry(s, title[s.version[1]]) \in Shown(s.version[1])
  <1>1. PICK x \in Document, g \in Hash : s.version = <<x, g>>
    BY DEF TypeOK, TablesTypeOK, Section, Version
  <1>2. Joined(s) <=> /\ currentVersion[x] = g
                      /\ status[x] = "ACTIVE" /\ sources[SourceOf[x]] = "ENABLED"
    BY <1>1 DEF Joined, PointerIsConsistent
  <1>3. ASSUME Joined(s) PROVE Entry(s, title[x]) \in Shown(x)
    <2>1. s \in SectionsIn(sections, {<<x, currentVersion[x]>>})
      BY <1>1, <1>2, <1>3 DEF SectionsIn
    <2> QED
      BY <1>2, <1>3, <2>1, RevisionAssumption DEF Shown, Searchable
  <1>4. ASSUME Entry(s, title[x]) \in Shown(x) PROVE Joined(s)
    <2>1. PICK r \in sections : r.version = <<x, currentVersion[x]>>
                                  /\ Entry(s, title[x]) = Entry(r, title[x])
      BY <1>4, ShownNamesSections
    <2>2. s.version = r.version
      BY <2>1 DEF Entry
    <2>3. currentVersion[x] = g
      BY <1>1, <2>1, <2>2
    <2>4. status[x] = "ACTIVE" /\ sources[SourceOf[x]] = "ENABLED"
      BY <1>4 DEF Shown, Searchable
    <2> QED
      BY <1>2, <2>3, <2>4
  <1> QED
    BY <1>1, <1>3, <1>4

(* And then the queries on the index find nothing where it is exact.       *)
LEMMA SectionQueriesAreExact ==
  ASSUME TypeOK, PointerIsConsistent, SectionKeysAreUnique
  PROVE  SectionIssues = {} <=> IndexIsExact
  <1> DEFINE Of(s) == Entry(s, title[s.version[1]])
             Row(s) == [text |-> <<s.version, s.ordinal>>, title |-> title[s.version[1]]]
             Sound ==
               /\ \A s \in sections : Joined(s) => TextIn(fts, s.id) # {}
               /\ \A s \in sections : Joined(s) /\ TextIn(fts, s.id) # {} => TextIn(fts, s.id) = {Row(s)}
               /\ \A e \in fts : \E s \in sections : s.id = e.rowid /\ Joined(s)
  <1>2. SectionIssues = {} <=> Sound
    <2>1. SectionIssues = {} <=> Unindexed = {} /\ Mismatched = {} /\ Orphaned = {}
      BY NoIssues DEF SectionIssues
    <2>2. Unindexed = {} <=> \A s \in sections : Joined(s) => TextIn(fts, s.id) # {}
      BY DEF Unindexed
    <2>3. Mismatched = {} <=>
            \A s \in sections : Joined(s) /\ TextIn(fts, s.id) # {} => TextIn(fts, s.id) = {Row(s)}
      BY DEF Mismatched, ExpectedText
    <2>4. Orphaned = {} <=> \A e \in fts : \E s \in sections : s.id = e.rowid /\ Joined(s)
      BY DEF Orphaned
    <2> QED
      BY <2>1, <2>2, <2>3, <2>4
  <1>3. \A s \in sections : Of(s).rowid = s.id
    BY DEF Entry
  <1>4. ASSUME NEW e \in fts, NEW s \in sections, e.rowid = s.id
        PROVE  e = Of(s) <=> [text |-> e.text, title |-> e.title] = Row(s)
    <2>1. e = [rowid |-> e.rowid, text |-> e.text, title |-> e.title]
      BY DEF TypeOK, IndexRow
    <2>2. Of(s) = [rowid |-> s.id, text |-> <<s.version, s.ordinal>>, title |-> title[s.version[1]]]
      BY DEF Entry
    <2> QED
      BY <1>4, <2>1, <2>2
  <1>5. \A n, r : r \in TextIn(fts, n) <=> \E e \in fts : e.rowid = n /\ r = [text |-> e.text, title |-> e.title]
    BY DEF TextIn
  <1>6. IndexIsExact <=> fts = {Of(s) : s \in {x \in sections : Joined(x)}}
    <2>1. ASSUME NEW d \in Document, NEW e \in Shown(d)
          PROVE  \E s \in sections : Joined(s) /\ e = Of(s)
      <3>1. PICK s \in sections : s.version = <<d, currentVersion[d]>> /\ e = Entry(s, title[d])
        BY <2>1, ShownNamesSections
      <3>2. s.version[1] = d
        BY <3>1
      <3> QED
        BY <2>1, <3>1, <3>2, ShownIsJoined
    <2>2. ASSUME NEW s \in sections, Joined(s)
          PROVE  \E d \in Document : Of(s) \in Shown(d)
      BY <2>2, ShownIsJoined
    <2>3. UNION {Shown(d) : d \in Document} = {Of(s) : s \in {x \in sections : Joined(x)}}
      <3> HIDE DEF Of
      <3> QED
        BY <2>1, <2>2
    <2> QED
      BY <2>3, ExactIsUnion
  <1> HIDE DEF Of, Row
  <1>7. ASSUME Sound PROVE fts = {Of(s) : s \in {x \in sections : Joined(x)}}
    <2>1. ASSUME NEW e \in fts PROVE \E s \in sections : Joined(s) /\ e = Of(s)
      <3>1. PICK s \in sections : s.id = e.rowid /\ Joined(s)
        BY <1>7
      <3>2. TextIn(fts, s.id) = {Row(s)}
        BY <1>7, <3>1
      <3>3. [text |-> e.text, title |-> e.title] \in TextIn(fts, s.id)
        BY <1>5, <3>1
      <3> QED
        BY <1>4, <3>1, <3>2, <3>3
    <2>2. ASSUME NEW s \in sections, Joined(s) PROVE Of(s) \in fts
      <3>1. PICK r : r \in TextIn(fts, s.id)
        BY <1>7, <2>2
      <3>2. r = Row(s)
        BY <1>7, <2>2, <3>1
      <3>3. PICK e \in fts : e.rowid = s.id /\ r = [text |-> e.text, title |-> e.title]
        BY <1>5, <3>1
      <3> QED
        BY <1>4, <3>2, <3>3
    <2> QED
      BY <2>1, <2>2
  <1>8. ASSUME fts = {Of(s) : s \in {x \in sections : Joined(x)}} PROVE Sound
    <2>1. ASSUME NEW s \in sections, Joined(s) PROVE TextIn(fts, s.id) = {Row(s)}
      <3>1. Of(s) \in fts /\ Of(s).rowid = s.id
        BY <1>3, <1>8, <2>1
      <3>2. Row(s) \in TextIn(fts, s.id)
        BY <1>4, <1>5, <3>1
      <3>3. ASSUME NEW r \in TextIn(fts, s.id) PROVE r = Row(s)
        <4>1. PICK e \in fts : e.rowid = s.id /\ r = [text |-> e.text, title |-> e.title]
          BY <1>5
        <4>2. PICK x \in sections : e = Of(x)
          BY <1>8
        <4>3. x = s
          BY <1>3, <4>1, <4>2 DEF SectionKeysAreUnique
        <4> QED
          BY <1>4, <4>1, <4>2, <4>3
      <3> QED
        BY <3>2, <3>3
    <2>2. ASSUME NEW e \in fts PROVE \E s \in sections : s.id = e.rowid /\ Joined(s)
      BY <1>3, <1>8
    <2> QED
      BY <2>1, <2>2
  <1> QED
    BY <1>2, <1>6, <1>7, <1>8

(* What the queries rest on is what the schema ensures: types, foreign keys*)
(* and unique keys.                                                        *)
LEMMA VerifierLemma ==
  ASSUME TypeOK, isCurrent \subseteq stored, \A s \in sections : s.version \in stored,
         SectionKeysAreUnique
  PROVE  VerifierIsExact
  BY DocumentQueriesAreExact, SectionQueriesAreExact DEF VerifierIsExact, IntegrityIssues

LEMMA WholeIsVerified == CatalogInv => IntegrityHolds
  BY StagedIsTables, VerifierLemma
  DEF CatalogInv, StagedInv, VerifierIsExact, IntegrityHolds, CurrentHasSections,
      PointerIsConsistent, HasRow

-----------------------------------------------------------------------------
(***************************************************************************)
(* All the calls, the deprecated replacement of current sections included, *)
(* which may leave the index damaged.                                      *)
(***************************************************************************)
NextLegacy == NextStaged \/ Replacements

LegacyInv == TablesInv /\ fts \subseteq IndexRow

(* The index receives only what some document shows after the step.        *)
LEMMA StepKeepsIndexRows ==
  ASSUME LegacyInv, [NextLegacy]_vars, TablesInv'
  PROVE  fts' \subseteq IndexRow
  <1>1. \A d \in Document : Shown(d)' \subseteq IndexRow
    <2>1. (TablesTypeOK /\ RowsAreComplete)'
      BY DEF TablesInv
    <2>2. (\A d \in Document : Shown(d) \subseteq IndexRow)'
      BY <2>1, ShownIsTyped, PTL
    <2> QED
      BY <2>2
  <1>2. ASSUME NEW d \in Document, NEW old, sources' = sources, fts' = Reindexed(d, old)
        PROVE  fts' \subseteq IndexRow
    BY <1>1, <1>2 DEF Reindexed, Without, LegacyInv, Shown
  <1>3. ASSUME fts' = ExpectedIndex(sources'), UNCHANGED <<documentRows, sections>>
        PROVE  fts' \subseteq IndexRow
    <2>1. ASSUME NEW e \in fts' PROVE \E d \in Document : e \in Shown(d)'
      BY <1>3 DEF ExpectedIndex, Shown, documentRows
    <2> QED
      BY <1>1, <2>1
  <1>4. CASE Commits
    BY <1>2, <1>4 DEF Commits, CommitDocumentRevision
  <1>5. CASE Observations \/ Creations
    BY <1>2, <1>5 DEF Observations, Creations, UpsertDocument
  <1>6. CASE SourceLoads
    BY <1>3, <1>6 DEF SourceLoads, AddSource, UpdateSource, LegacyInv
  <1>7. CASE RebuildSearchIndex
    BY <1>3, <1>7 DEF RebuildSearchIndex
  <1>8. CASE Purges
    BY <1>8 DEF Purges, PurgeOldDocumentVersions, Without, LegacyInv
  <1>9. CASE Stagings
    BY <1>9 DEF Stagings, AddDocumentVersion, LegacyInv
  <1>10. CASE Promotions
    <2>1. PICK d \in Document, h \in Hash, n \in 0..MaxSections :
            PromoteWithSections(d, h, n) \/ ReplaceOldSections(d, h, n)
      BY <1>10 DEF Promotions
    <2> QED
      BY <1>2, <2>1 DEF PromoteWithSections, ReplaceOldSections, LegacyInv
  <1>11. CASE Replacements
    BY <1>2, <1>11 DEF Replacements, ReplaceCurrentSections
  <1>12. CASE UNCHANGED vars
    BY <1>12 DEF vars, LegacyInv
  <1> QED
    BY <1>4, <1>5, <1>6, <1>7, <1>8, <1>9, <1>10, <1>11, <1>12 DEF NextLegacy, NextStaged, Next

LEMMA LegacyStep ==
  ASSUME LegacyInv, [NextLegacy]_vars
  PROVE  LegacyInv'
  <1>1. TablesInv'
    BY StepKeepsTables, ReplacementKeepsTables DEF LegacyInv, NextLegacy, Replacements
  <1> QED
    BY <1>1, StepKeepsIndexRows DEF LegacyInv

LEMMA LegacyInvariant == SpecLegacy => []LegacyInv
  <1>1. Init => LegacyInv
    BY InitStagedInv, StagedIsTables DEF LegacyInv, StagedInv, TypeOK
  <1>2. LegacyInv /\ [NextStaged \/ Replacements]_vars => LegacyInv'
    BY LegacyStep DEF NextLegacy
  <1> QED
    BY <1>1, <1>2, PTL DEF SpecLegacy

LEMMA LegacyIsVerified == LegacyInv => VerifierIsExact
  BY VerifierLemma DEF LegacyInv, TablesInv, PointerIsConsistent, CurrentHasSections, TypeOK

-----------------------------------------------------------------------------
(***************************************************************************)
(* A verification statement by statement, beside the writes of others.     *)
(***************************************************************************)
(* What is wrong in one state, code by code.                               *)
LEMMA IssuesByCode ==
  ASSUME NEW i
  PROVE  i \in IntegrityIssues <=>
           \/ i \in Issues("ACTIVE_DOCUMENT_WITHOUT_CURRENT_VERSION", Unpointed)
           \/ i \in Issues("CURRENT_VERSION_MISSING_OR_WRONG_DOCUMENT", Dangling)
           \/ i \in Issues("CURRENT_VERSION_NOT_MARKED_CURRENT", Unmarked)
           \/ i \in Issues("CURRENT_VERSION_WITHOUT_SECTIONS", Sectionless)
           \/ i \in Issues("CURRENT_VERSION_FLAG_NOT_POINTED", Misflagged)
           \/ i \in Issues("CURRENT_SECTION_MISSING_FROM_FTS", Unindexed)
           \/ i \in Issues(MISMATCH, Mismatched)
           \/ i \in Issues("FTS_ENTRY_ORPHANED", Orphaned)
  BY DEF IntegrityIssues, DocumentIssues, SectionIssues, MISMATCH

LEMMA IssueFields ==
  ASSUME NEW code, NEW S, NEW i \in Issues(code, S)
  PROVE  i[1] = code /\ i[2] \in S /\ i = <<i[1], i[2]>>
  BY DEF Issues

LEMMA MismatchIs ==
  ASSUME NEW s
  PROVE  <<MISMATCH, s>> \in IntegrityIssues <=> s \in Mismatched
  <1>1. <<MISMATCH, s>> \in Issues(MISMATCH, Mismatched) <=> s \in Mismatched
    BY DEF Issues
  <1>2. \A code, S : <<MISMATCH, s>> \in Issues(code, S) => code = MISMATCH
    BY IssueFields
  <1> QED
    BY <1>1, <1>2, IssuesByCode DEF MISMATCH

(* The table filled has, for each section that a search may return, the    *)
(* text that the index should have.                                        *)
LEMMA FilledTable ==
  ASSUME TypeOK, PointerIsConsistent, SectionKeysAreUnique, NEW s \in sections, Joined(s)
  PROVE  TextIn(ExpectedIndex(sources), s.id) = ExpectedText(s)
  <1> DEFINE Of(r) == Entry(r, title[r.version[1]])
             Row(e) == [text |-> e.text, title |-> e.title]
             index == ExpectedIndex(sources)
  <1>1. \A e : e \in index => \E d \in Document : e \in Shown(d)
    BY DEF ExpectedIndex, Shown
  <1>2. /\ s.version[1] \in Document
        /\ Of(s) \in Shown(s.version[1])
    BY ShownIsJoined
  <1>3. Of(s) \in index
    <2>1. PICK x \in Document, g \in Hash : s.version = <<x, g>>
      BY DEF TypeOK, TablesTypeOK, Section, Version
    <2>2. <<x, currentVersion[x]>> \in isCurrent /\ s.version[1] = x
      BY <2>1 DEF Joined, PointerIsConsistent
    <2> QED
      BY <1>2, <2>1, <2>2 DEF ExpectedIndex, Shown
  <1>4. Of(s).rowid = s.id /\ ExpectedText(s) = {Row(Of(s))}
    BY DEF Entry, ExpectedText
  <1>5. ASSUME NEW e \in index, e.rowid = s.id PROVE e = Of(s)
    <2>1. PICK d \in Document : e \in Shown(d)
      BY <1>1
    <2>2. PICK r \in sections : r.version = <<d, currentVersion[d]>> /\ e = Entry(r, title[d])
      BY <2>1, ShownNamesSections
    <2>3. r.id = s.id
      BY <1>5, <2>2 DEF Entry
    <2>4. r = s
      BY <2>3 DEF SectionKeysAreUnique
    <2> QED
      BY <2>2, <2>4
  <1>6. TextIn(index, s.id) = {Row(e) : e \in {x \in index : x.rowid = s.id}}
    BY DEF TextIn
  <1>7. {x \in index : x.rowid = s.id} = {Of(s)}
    <2> HIDE DEF index, Of
    <2> QED
      BY <1>3, <1>4, <1>5
  <1>8. TextIn(index, s.id) = {Row(Of(s))}
    <2> HIDE DEF index, Of, Row
    <2> QED
      BY <1>6, <1>7
  <1> QED
    BY <1>4, <1>8

LEMMA ShownNames ==
  \A y \in Document : \A e \in Shown(y) : \E r \in sections :
    r.version = <<y, currentVersion[y]>> /\ e = Entry(r, title[y])
  BY ShownNamesSections

(* A call that gives a document another title writes its index rows anew.  *)
LEMMA RetitlingMends ==
  ASSUME LegacyInv', [NextLegacy]_vars, NEW s \in sections, s \in sections',
         LegacyInv, s \in Mismatched'
  PROVE  title'[s.version[1]] = title[s.version[1]]
  <1> SUFFICES ASSUME title'[s.version[1]] # title[s.version[1]] PROVE FALSE
    OBVIOUS
  <1>1. PICK x \in Document, g \in Hash : s.version = <<x, g>>
    BY DEF LegacyInv, TablesInv, TablesTypeOK, Section, Version
  <1>2. /\ Joined(s)'
        /\ TextIn(fts', s.id) # {} /\ TextIn(fts', s.id) # ExpectedText(s)'
    BY DEF Mismatched
  <1>3. ASSUME NEW d \in Document, NEW t, title' = [title EXCEPT ![d] = t],
               fts' = Reindexed(d, sections), sources' = sources
        PROVE  FALSE
    <2>1. d = x
      BY <1>1, <1>3 DEF LegacyInv, TablesInv, TablesTypeOK
    <2>2. s \in SectionsIn(sections, VersionsOf(d))
      BY <1>1, <2>1 DEF SectionsIn, VersionsOf
    <2>3. fts' = Without(fts, SectionsIn(sections, VersionsOf(d))) \cup Shown(d)'
      BY <1>3 DEF Reindexed, Shown
    <2>4. \A e \in fts' : e.rowid = s.id => e \in Shown(d)'
      BY <2>2, <2>3 DEF Without, Ids
    <2>5. (\A e \in Shown(d) : \E r \in sections :
             r.version = <<d, currentVersion[d]>> /\ e = Entry(r, title[d]))'
      <3>1. (\A y \in Document : \A e \in Shown(y) : \E r \in sections :
               r.version = <<y, currentVersion[y]>> /\ e = Entry(r, title[y]))'
        BY ShownNames, PTL
      <3> QED
        BY <3>1
    <2>6. ASSUME NEW e \in fts', e.rowid = s.id
          PROVE  e = Entry(s, title'[x])
      <3>1. PICK r \in sections' : e = Entry(r, title'[d])
        BY <2>4, <2>5, <2>6
      <3>2. r.id = s.id
        BY <2>6, <3>1 DEF Entry
      <3>3. r = s
        BY <3>2 DEF LegacyInv, TablesInv, SectionKeysAreUnique
      <3> QED
        BY <2>1, <3>1, <3>3
    <2>7. \A r \in TextIn(fts', s.id) :
            r = [text |-> <<s.version, s.ordinal>>, title |-> title'[s.version[1]]]
      BY <1>1, <2>6 DEF TextIn, Entry
    <2>8. ExpectedText(s)'
            = {[text |-> <<s.version, s.ordinal>>, title |-> title'[s.version[1]]]}
      BY DEF ExpectedText
    <2> QED
      BY <1>2, <2>7, <2>8
  <1>4. CASE Commits
    BY <1>3, <1>4 DEF Commits, CommitDocumentRevision, UpsertDocumentRow
  <1>5. CASE Observations \/ Creations
    BY <1>3, <1>5 DEF Observations, Creations, UpsertDocument, UpsertDocumentRow
  <1>6. CASE UNCHANGED title
    BY <1>6
  <1>7. title' = title \/ Commits \/ Observations \/ Creations
    BY DEF NextLegacy, NextStaged, Next, SourceLoads, AddSource, UpdateSource,
           RebuildSearchIndex, Purges, PurgeOldDocumentVersions, Stagings, AddDocumentVersion,
           Promotions, PromoteWithSections, ReplaceOldSections, Replacements,
           ReplaceCurrentSections, vars, documentRows
  <1> QED
    BY <1>4, <1>5, <1>6, <1>7

(* The statement that reports an issue has run.                            *)
IsDue(code) ==
  \/ code = "ACTIVE_DOCUMENT_WITHOUT_CURRENT_VERSION" /\ position > 1
  \/ code = "CURRENT_VERSION_MISSING_OR_WRONG_DOCUMENT" /\ position > 2
  \/ code = "CURRENT_VERSION_NOT_MARKED_CURRENT" /\ position > 3
  \/ code = "CURRENT_VERSION_WITHOUT_SECTIONS" /\ position > 4
  \/ code = "CURRENT_VERSION_FLAG_NOT_POINTED" /\ position > 5
  \/ code = "CURRENT_SECTION_MISSING_FROM_FTS" /\ position > 6
  \/ code = MISMATCH /\ position > Comparing
  \/ code = "FTS_ENTRY_ORPHANED" /\ position > 9

IsReported(i) == i \in found \/ (i[1] = MISMATCH /\ Incomplete \in found)

IsTrue(i) == i[1] = MISMATCH /\ i[2].version[1] \in rewritten

VerifyInv ==
  /\ position \in 0..Ended
  /\ position = 0 => found = {} /\ standing = {}
  /\ position # 0 => standing \subseteq IntegrityIssues /\ IntegrityIssues \subseteq seen
  /\ \A i \in found \ (seen \cup {Incomplete}) : IsTrue(i)
  /\ \A i \in standing : IsDue(i[1]) => IsReported(i)
  /\ position = Comparing =>
       /\ \A s \in sections : Joined(s) /\ s.version[1] \notin rewritten =>
                               TextIn(expected, s.id) = ExpectedText(s)
       /\ \A s : <<MISMATCH, s>> \in standing => TextIn(expected, s.id) = ExpectedText(s)

LEMMA InitVerifyInv == VerifyInit => VerifyInv
  BY DEF VerifyInit, VerifyInv, Ended, Comparing

LEMMA BeginKeepsTruth ==
  ASSUME VerifyInv, Begin
  PROVE  VerifyInv'
  <1>1. UNCHANGED <<sections, found, rewritten>> /\ position' = 1 /\ position = 0
        /\ standing' = IntegrityIssues /\ seen' = IntegrityIssues
    BY DEF Begin, vars
  <1>2. IntegrityIssues' = IntegrityIssues
    BY DEF Begin, vars, documentRows, versionRows, IntegrityIssues, DocumentIssues,
           SectionIssues, Unpointed, Dangling, Unmarked, Sectionless, Misflagged, Unindexed,
           Mismatched, Orphaned, Pointing, Pointed, Joined, TextIn, ExpectedText, SectionsIn
  <1>3. \A code : ~IsDue(code)'
    BY <1>1 DEF IsDue, Comparing
  <1> QED
    BY <1>1, <1>2, <1>3 DEF VerifyInv, Ended, Comparing

(* Nothing is wrong now that was not before where no table changes.        *)
LEMMA IssuesUnchanged ==
  ASSUME UNCHANGED vars
  PROVE  /\ IntegrityIssues' = IntegrityIssues /\ sections' = sections
         /\ \A s : Joined(s)' = Joined(s) /\ ExpectedText(s)' = ExpectedText(s)
  BY DEF vars, documentRows, versionRows, IntegrityIssues, DocumentIssues,
         SectionIssues, Unpointed, Dangling, Unmarked, Sectionless, Misflagged, Unindexed,
         Mismatched, Orphaned, Pointing, Pointed, Joined, TextIn, ExpectedText, SectionsIn

(* A query that reports all there is of its code.                          *)
LEMMA SelectKeepsTruth ==
  ASSUME VerifyInv, NEW n \in 1..9, n # Filling, n # Comparing - 1, NEW code, NEW S,
         Select(n, code, S), Issues(code, S) \subseteq IntegrityIssues,
         \A i \in IntegrityIssues : i[1] = code => i \in Issues(code, S),
         \A c : IsDue(c)' <=> IsDue(c) \/ c = code
  PROVE  VerifyInv'
  <1>1. /\ position = n /\ position' = n + 1 /\ UNCHANGED vars
        /\ found' = found \cup Issues(code, S)
        /\ UNCHANGED <<expected, standing, seen, rewritten>>
    BY DEF Select, history
  <1>2. position' \in 0..Ended /\ position' # 0 /\ position' # Comparing /\ position # 0
    BY <1>1 DEF Ended, Comparing, Filling
  <1>3. IntegrityIssues' = IntegrityIssues
    BY <1>1, IssuesUnchanged
  <1>4. standing \subseteq IntegrityIssues /\ IntegrityIssues \subseteq seen
    BY <1>2 DEF VerifyInv
  <1>5. \A i \in found' \ (seen' \cup {Incomplete}) : IsTrue(i)'
    BY <1>1, <1>4 DEF VerifyInv, IsTrue
  <1>6. \A i \in standing' : IsDue(i[1])' => IsReported(i)'
    BY <1>1, <1>4 DEF VerifyInv, IsReported
  <1> QED
    BY <1>1, <1>2, <1>3, <1>4, <1>5, <1>6 DEF VerifyInv

LEMMA FillKeepsTruth ==
  ASSUME VerifyInv, LegacyInv, FillExpected
  PROVE  VerifyInv'
  <1>1. /\ position = 7 /\ position' = 8 /\ UNCHANGED vars
        /\ expected' = ExpectedIndex(sources)
        /\ UNCHANGED <<found, standing, seen, rewritten>>
    BY DEF FillExpected, history, Filling, Comparing
  <1>2. \A c : IsDue(c)' <=> IsDue(c)
    BY <1>1 DEF IsDue, Comparing
  <1>3. /\ IntegrityIssues' = IntegrityIssues /\ sections' = sections
        /\ \A s : Joined(s)' = Joined(s) /\ ExpectedText(s)' = ExpectedText(s)
    BY <1>1, IssuesUnchanged
  <1>4. standing \subseteq IntegrityIssues /\ IntegrityIssues \subseteq seen
    BY <1>1 DEF VerifyInv
  <1>5. \A s \in sections : Joined(s) => TextIn(expected', s.id) = ExpectedText(s)
    BY <1>1, FilledTable DEF LegacyInv, TablesInv, TypeOK
  <1>6. \A s : <<MISMATCH, s>> \in standing => s \in sections /\ Joined(s)
    BY <1>4, MismatchIs DEF Mismatched
  <1>7. /\ \A s \in sections' : Joined(s)' /\ s.version[1] \notin rewritten' =>
                               TextIn(expected', s.id) = ExpectedText(s)'
        /\ \A s : <<MISMATCH, s>> \in standing' => TextIn(expected', s.id) = ExpectedText(s)'
    BY <1>1, <1>3, <1>5, <1>6
  <1>8. \A i \in found' \ (seen' \cup {Incomplete}) : IsTrue(i)'
    BY <1>1 DEF VerifyInv, IsTrue
  <1>9. \A i \in standing' : IsDue(i[1])' => IsReported(i)'
    BY <1>1, <1>2 DEF VerifyInv, IsReported
  <1>10. \A s : TextIn(expected, s.id)' = TextIn(expected', s.id)
    BY DEF TextIn
  <1> QED
    BY <1>1, <1>3, <1>4, <1>7, <1>8, <1>9, <1>10 DEF VerifyInv, Ended, Comparing

LEMMA CompareKeepsTruth ==
  ASSUME VerifyInv, CompareWithExpected
  PROVE  VerifyInv'
  <1> DEFINE S == {s \in sections : /\ Joined(s)
                                    /\ TextIn(fts, s.id) \notin {{}, TextIn(expected, s.id)}}
  <1>1. /\ position = 8 /\ position' = 9 /\ UNCHANGED vars
        /\ found' = found \cup Issues(MISMATCH, S)
        /\ UNCHANGED <<expected, standing, seen, rewritten>>
    BY DEF CompareWithExpected, Select, history, Comparing
  <1>2. \A c : IsDue(c)' <=> IsDue(c) \/ c = MISMATCH
    BY <1>1 DEF IsDue, Comparing, MISMATCH
  <1>3. IntegrityIssues' = IntegrityIssues
    BY <1>1, IssuesUnchanged
  <1>4. standing \subseteq IntegrityIssues /\ IntegrityIssues \subseteq seen
    BY <1>1 DEF VerifyInv
  <1>5. ASSUME NEW s \in S, s.version[1] \notin rewritten
        PROVE  <<MISMATCH, s>> \in seen
    <2>1. TextIn(expected, s.id) = ExpectedText(s)
      BY <1>1, <1>5 DEF VerifyInv, Comparing
    <2>2. s \in Mismatched
      BY <2>1 DEF Mismatched
    <2> QED
      BY <1>4, <2>2, MismatchIs
  <1>6. ASSUME NEW i \in Issues(MISMATCH, S), i \notin seen
        PROVE  IsTrue(i)
    <2>1. i[1] = MISMATCH /\ i[2] \in S /\ i = <<MISMATCH, i[2]>>
      BY IssueFields
    <2> QED
      BY <1>5, <1>6, <2>1 DEF IsTrue
  <1>7. \A i \in found' \ (seen' \cup {Incomplete}) : IsTrue(i)'
    <2> HIDE DEF S
    <2> QED
      BY <1>1, <1>6 DEF VerifyInv, IsTrue
  <1>8. ASSUME NEW i \in standing, i[1] = MISMATCH
        PROVE  i \in Issues(MISMATCH, S)
    <2>1. i \in Issues(MISMATCH, Mismatched)
      BY <1>4, <1>8, IssuesByCode, IssueFields DEF MISMATCH
    <2>2. i = <<MISMATCH, i[2]>> /\ i[2] \in Mismatched
      BY <2>1, IssueFields
    <2>3. TextIn(expected, i[2].id) = ExpectedText(i[2])
      BY <1>1, <2>2 DEF VerifyInv, Comparing
    <2>4. i[2] \in S
      BY <2>2, <2>3 DEF Mismatched
    <2> QED
      BY <2>2, <2>4 DEF Issues
  <1>9. \A i \in standing' : IsDue(i[1])' => IsReported(i)'
    <2> HIDE DEF S
    <2> QED
      BY <1>1, <1>2, <1>8 DEF VerifyInv, IsReported
  <1> HIDE DEF S
  <1> QED
    BY <1>1, <1>3, <1>4, <1>7, <1>9 DEF VerifyInv, Ended, Comparing

LEMMA GiveUpKeepsTruth ==
  ASSUME VerifyInv, CannotCompare
  PROVE  VerifyInv'
  <1>1. /\ position \in 7..8 /\ position' = 9 /\ UNCHANGED vars
        /\ found' = found \cup {Incomplete}
        /\ UNCHANGED <<expected, standing, seen, rewritten>>
    BY DEF CannotCompare, history, Filling, Comparing
  <1>2. \A c : IsDue(c)' <=> IsDue(c) \/ c = MISMATCH
    BY <1>1 DEF IsDue, Comparing, MISMATCH
  <1>3. IntegrityIssues' = IntegrityIssues
    BY <1>1, IssuesUnchanged
  <1>4. standing \subseteq IntegrityIssues /\ IntegrityIssues \subseteq seen
    BY <1>1 DEF VerifyInv
  <1>5. \A i \in found' \ (seen' \cup {Incomplete}) : IsTrue(i)'
    BY <1>1 DEF VerifyInv, IsTrue
  <1>6. \A i \in standing' : IsDue(i[1])' => IsReported(i)'
    BY <1>1, <1>2 DEF VerifyInv, IsReported
  <1> QED
    BY <1>1, <1>3, <1>4, <1>5, <1>6 DEF VerifyInv, Ended, Comparing

LEMMA VerifyKeepsTruth ==
  ASSUME VerifyInv, LegacyInv, Verify
  PROVE  VerifyInv'
  <1>1. ASSUME NEW i \in IntegrityIssues
        PROVE
          /\ i[1] = "ACTIVE_DOCUMENT_WITHOUT_CURRENT_VERSION"
               => i \in Issues("ACTIVE_DOCUMENT_WITHOUT_CURRENT_VERSION", Unpointed)
          /\ i[1] = "CURRENT_VERSION_MISSING_OR_WRONG_DOCUMENT"
               => i \in Issues("CURRENT_VERSION_MISSING_OR_WRONG_DOCUMENT", Dangling)
          /\ i[1] = "CURRENT_VERSION_NOT_MARKED_CURRENT"
               => i \in Issues("CURRENT_VERSION_NOT_MARKED_CURRENT", Unmarked)
          /\ i[1] = "CURRENT_VERSION_WITHOUT_SECTIONS"
               => i \in Issues("CURRENT_VERSION_WITHOUT_SECTIONS", Sectionless)
          /\ i[1] = "CURRENT_VERSION_FLAG_NOT_POINTED"
               => i \in Issues("CURRENT_VERSION_FLAG_NOT_POINTED", Misflagged)
          /\ i[1] = "CURRENT_SECTION_MISSING_FROM_FTS"
               => i \in Issues("CURRENT_SECTION_MISSING_FROM_FTS", Unindexed)
          /\ i[1] = "FTS_ENTRY_ORPHANED" => i \in Issues("FTS_ENTRY_ORPHANED", Orphaned)
    BY IssuesByCode, IssueFields DEF MISMATCH
  <1>2. ASSUME NEW n \in 1..9, n # Filling, n # Comparing - 1, NEW code, NEW S,
               Select(n, code, S), \A c : IsDue(c)' <=> IsDue(c) \/ c = code,
               Issues(code, S) \subseteq IntegrityIssues,
               \A i \in IntegrityIssues : i[1] = code => i \in Issues(code, S)
        PROVE  VerifyInv'
    BY <1>2, SelectKeepsTruth
  <1>3. CASE Select(1, "ACTIVE_DOCUMENT_WITHOUT_CURRENT_VERSION", Unpointed)
    <2> DEFINE code == "ACTIVE_DOCUMENT_WITHOUT_CURRENT_VERSION"
    <2>1. \A c : IsDue(c)' <=> IsDue(c) \/ c = code
      BY <1>3 DEF Select, IsDue, Comparing, MISMATCH
    <2>2. Issues(code, Unpointed) \subseteq IntegrityIssues
      BY IssuesByCode
    <2> QED
      BY <1>1, <1>2, <1>3, <2>1, <2>2 DEF Filling, Comparing
  <1>4. CASE Select(2, "CURRENT_VERSION_MISSING_OR_WRONG_DOCUMENT", Dangling)
    <2> DEFINE code == "CURRENT_VERSION_MISSING_OR_WRONG_DOCUMENT"
    <2>1. \A c : IsDue(c)' <=> IsDue(c) \/ c = code
      BY <1>4 DEF Select, IsDue, Comparing, MISMATCH
    <2>2. Issues(code, Dangling) \subseteq IntegrityIssues
      BY IssuesByCode
    <2> QED
      BY <1>1, <1>2, <1>4, <2>1, <2>2 DEF Filling, Comparing
  <1>5. CASE Select(3, "CURRENT_VERSION_NOT_MARKED_CURRENT", Unmarked)
    <2> DEFINE code == "CURRENT_VERSION_NOT_MARKED_CURRENT"
    <2>1. \A c : IsDue(c)' <=> IsDue(c) \/ c = code
      BY <1>5 DEF Select, IsDue, Comparing, MISMATCH
    <2>2. Issues(code, Unmarked) \subseteq IntegrityIssues
      BY IssuesByCode
    <2> QED
      BY <1>1, <1>2, <1>5, <2>1, <2>2 DEF Filling, Comparing
  <1>6. CASE Select(4, "CURRENT_VERSION_WITHOUT_SECTIONS", Sectionless)
    <2> DEFINE code == "CURRENT_VERSION_WITHOUT_SECTIONS"
    <2>1. \A c : IsDue(c)' <=> IsDue(c) \/ c = code
      BY <1>6 DEF Select, IsDue, Comparing, MISMATCH
    <2>2. Issues(code, Sectionless) \subseteq IntegrityIssues
      BY IssuesByCode
    <2> QED
      BY <1>1, <1>2, <1>6, <2>1, <2>2 DEF Filling, Comparing
  <1>7. CASE Select(5, "CURRENT_VERSION_FLAG_NOT_POINTED", Misflagged)
    <2> DEFINE code == "CURRENT_VERSION_FLAG_NOT_POINTED"
    <2>1. \A c : IsDue(c)' <=> IsDue(c) \/ c = code
      BY <1>7 DEF Select, IsDue, Comparing, MISMATCH
    <2>2. Issues(code, Misflagged) \subseteq IntegrityIssues
      BY IssuesByCode
    <2> QED
      BY <1>1, <1>2, <1>7, <2>1, <2>2 DEF Filling, Comparing
  <1>8. CASE Select(6, "CURRENT_SECTION_MISSING_FROM_FTS", Unindexed)
    <2> DEFINE code == "CURRENT_SECTION_MISSING_FROM_FTS"
    <2>1. \A c : IsDue(c)' <=> IsDue(c) \/ c = code
      BY <1>8 DEF Select, IsDue, Comparing, MISMATCH
    <2>2. Issues(code, Unindexed) \subseteq IntegrityIssues
      BY IssuesByCode
    <2> QED
      BY <1>1, <1>2, <1>8, <2>1, <2>2 DEF Filling, Comparing
  <1>9. CASE Select(9, "FTS_ENTRY_ORPHANED", Orphaned)
    <2> DEFINE code == "FTS_ENTRY_ORPHANED"
    <2>1. \A c : IsDue(c)' <=> IsDue(c) \/ c = code
      BY <1>9 DEF Select, IsDue, Comparing, MISMATCH
    <2>2. Issues(code, Orphaned) \subseteq IntegrityIssues
      BY IssuesByCode
    <2> QED
      BY <1>1, <1>2, <1>9, <2>1, <2>2 DEF Filling, Comparing
  <1> QED
    BY <1>3, <1>4, <1>5, <1>6, <1>7, <1>8, <1>9, BeginKeepsTruth, FillKeepsTruth,
       CompareKeepsTruth, GiveUpKeepsTruth DEF Verify

LEMMA JoinedRows ==
  TypeOK /\ PointerIsConsistent
    => \A r \in sections : Joined(r) <=> Entry(r, title[r.version[1]]) \in Shown(r.version[1])
  BY ShownIsJoined

LEMMA MismatchesAre == \A r : <<MISMATCH, r>> \in IntegrityIssues <=> r \in Mismatched
  BY MismatchIs

LEMMA VerifyWritesNothing ==
  ASSUME Verify
  PROVE  UNCHANGED vars
  BY DEF Verify, Begin, Select, FillExpected, CompareWithExpected, CannotCompare

LEMMA SeenGrows ==
  ASSUME Verify \/ Watch \/ UNCHANGED verifyVars
  PROVE  seen' \in {seen, IntegrityIssues, seen \cup IntegrityIssues'}
  BY DEF Verify, Begin, Select, FillExpected, CompareWithExpected, CannotCompare, Watch,
         history, verifyVars

(* A document not rewritten shows the same sections under the same title.  *)
LEMMA KeptSection ==
  ASSUME LegacyInv, LegacyInv', NEW s \in sections', Joined(s)',
         Shown(s.version[1])' = Shown(s.version[1])
  PROVE  s \in sections /\ Joined(s) /\ ExpectedText(s)' = ExpectedText(s)
  <1>1. PICK x \in Document, g \in Hash : s.version = <<x, g>>
    BY DEF LegacyInv, TablesInv, TablesTypeOK, Section, Version
  <1>2. Entry(s, title'[x]) \in Shown(x)'
    <2>1. (TypeOK /\ PointerIsConsistent
             => \A r \in sections : Joined(r) <=> Entry(r, title[r.version[1]])
                                                 \in Shown(r.version[1]))'
      BY JoinedRows, PTL
    <2>2. (TypeOK /\ PointerIsConsistent)'
      BY DEF LegacyInv, TablesInv, TypeOK
    <2> QED
      BY <1>1, <2>1, <2>2
  <1>3. PICK r \in sections : /\ r.version = <<x, currentVersion[x]>>
                             /\ Entry(s, title'[x]) = Entry(r, title[x])
    BY <1>1, <1>2, ShownNames
  <1>4. s.id = r.id /\ s.version = r.version /\ s.ordinal = r.ordinal /\ title'[x] = title[x]
    BY <1>3 DEF Entry
  <1>5. s = r
    <2>1. s \in Section /\ r \in Section
      BY DEF LegacyInv, TablesInv, TablesTypeOK
    <2> QED
      BY <1>4, <2>1 DEF Section
  <1>6. ExpectedText(s)' = ExpectedText(s)
    BY <1>1, <1>4 DEF ExpectedText
  <1>7. Joined(s)
    BY <1>1, <1>2, <1>4, <1>5, ShownIsJoined DEF LegacyInv, TablesInv, TypeOK
  <1> QED
    BY <1>5, <1>6, <1>7

(* A write of another process leaves what was reported true.               *)
LEMMA WatchKeepsTruth ==
  ASSUME VerifyInv, LegacyInv, LegacyInv', [NextLegacy]_vars, Watch
  PROVE  VerifyInv'
  <1>1. UNCHANGED <<position, found, expected>>
    BY DEF Watch
  <1>2. CASE position = 0
    BY <1>1, <1>2 DEF Watch, history, VerifyInv, Comparing, IsDue, IsReported, IsTrue
  <1>3. CASE position # 0
    <2>1. /\ standing' = standing \cap IntegrityIssues'
          /\ seen' = seen \cup IntegrityIssues'
          /\ rewritten' = IF position = Comparing
                          THEN rewritten \cup {d \in Document : Shown(d)' # Shown(d)}
                          ELSE rewritten
      BY <1>3 DEF Watch
    <2>2. \A c : IsDue(c)' <=> IsDue(c)
      BY <1>1 DEF IsDue
    <2>3. \A i \in found' \ (seen' \cup {Incomplete}) : IsTrue(i)'
      BY <1>1, <2>1 DEF VerifyInv, IsTrue
    <2>4. \A i \in standing' : IsDue(i[1])' => IsReported(i)'
      BY <1>1, <2>1, <2>2 DEF VerifyInv, IsReported
    <2>5. ASSUME position = Comparing, NEW s \in sections', Joined(s)',
                 s.version[1] \notin rewritten'
          PROVE  TextIn(expected, s.id) = ExpectedText(s)'
      <3>1. s.version[1] \in Document
        BY DEF LegacyInv, TablesInv, TablesTypeOK, Section, Version
      <3>2. s.version[1] \notin rewritten /\ Shown(s.version[1])' = Shown(s.version[1])
        BY <2>1, <2>5, <3>1
      <3>3. s \in sections /\ Joined(s) /\ ExpectedText(s)' = ExpectedText(s)
        BY <2>5, <3>2, KeptSection
      <3> QED
        BY <2>5, <3>2, <3>3 DEF VerifyInv
    <2>6. ASSUME position = Comparing, NEW s, <<MISMATCH, s>> \in standing'
          PROVE  TextIn(expected, s.id) = ExpectedText(s)'
      <3>1. <<MISMATCH, s>> \in standing /\ <<MISMATCH, s>> \in IntegrityIssues
              /\ <<MISMATCH, s>> \in IntegrityIssues'
        BY <1>3, <2>1, <2>6 DEF VerifyInv
      <3>2. (\A r : <<MISMATCH, r>> \in IntegrityIssues <=> r \in Mismatched)'
        BY MismatchesAre, PTL
      <3>3. s \in Mismatched /\ s \in Mismatched' /\ s \in sections /\ s \in sections'
        BY <3>1, <3>2, MismatchIs DEF Mismatched
      <3>4. title'[s.version[1]] = title[s.version[1]]
        BY <3>3, RetitlingMends
      <3>5. ExpectedText(s)' = ExpectedText(s)
        BY <3>4 DEF ExpectedText
      <3> QED
        BY <2>6, <3>1, <3>5 DEF VerifyInv
    <2>7. \A s : TextIn(expected, s.id)' = TextIn(expected, s.id)
      BY <1>1 DEF TextIn
    <2>8. (\A s \in sections : Joined(s) /\ s.version[1] \notin rewritten =>
                               TextIn(expected, s.id) = ExpectedText(s))'
            \/ position # Comparing
      BY <2>5, <2>7
    <2>9. (\A s : <<MISMATCH, s>> \in standing => TextIn(expected, s.id) = ExpectedText(s))'
            \/ position # Comparing
      BY <2>6, <2>7
    <2> QED
      BY <1>1, <1>3, <2>1, <2>3, <2>4, <2>8, <2>9 DEF VerifyInv
  <1> QED
    BY <1>2, <1>3

LEMMA StillKeepsTruth ==
  ASSUME VerifyInv, UNCHANGED verifyVars, position = 0 \/ UNCHANGED vars
  PROVE  VerifyInv'
  <1>1. UNCHANGED <<position, found, expected, standing, seen, rewritten>>
    BY DEF verifyVars, history
  <1>2. (\A c : IsDue(c)' <=> IsDue(c)) /\ (\A i : IsTrue(i)' <=> IsTrue(i))
          /\ \A i : IsReported(i)' <=> IsReported(i)
    BY <1>1 DEF IsDue, IsTrue, IsReported
  <1>3. CASE position = 0
    BY <1>1, <1>2, <1>3 DEF VerifyInv, Comparing
  <1>4. CASE UNCHANGED vars
    <2>1. /\ IntegrityIssues' = IntegrityIssues /\ sections' = sections
          /\ \A s : Joined(s)' = Joined(s) /\ ExpectedText(s)' = ExpectedText(s)
      BY <1>4, IssuesUnchanged
    <2>2. \A s : TextIn(expected, s.id)' = TextIn(expected, s.id)
      BY <1>1 DEF TextIn
    <2> QED
      BY <1>1, <1>2, <2>1, <2>2 DEF VerifyInv
  <1> QED
    BY <1>3, <1>4

LEMMA TruthFromInv == VerifyInv => VerificationIsTrue
  <1>1. ASSUME VerifyInv, position = Ended, NEW i \in standing PROVE IsReported(i)
    <2>1. i \in IntegrityIssues
      BY <1>1 DEF VerifyInv, Ended
    <2>2. IsDue(i[1])
      BY <1>1, <2>1, IssuesByCode, IssueFields DEF IsDue, Ended, Comparing, MISMATCH
    <2> QED
      BY <1>1, <2>2 DEF VerifyInv
  <1> QED
    BY <1>1 DEF VerifyInv, VerificationIsTrue, IsTrue, IsReported

(* Whatever the calls, the deprecated ones included, and wherever they fall*)
(* between its statements: a verification reports only what was wrong at   *)
(* some time meanwhile, or a document written between the filling of the   *)
(* expected index and the comparison, and it misses nothing that was wrong *)
(* all along.                                                              *)
THEOREM VerificationsAreTrue == SpecVerifying => []VerificationIsTrue
  <1>1. Init /\ VerifyInit => LegacyInv /\ VerifyInv
    BY InitStagedInv, StagedIsTables, InitVerifyInv DEF LegacyInv, StagedInv, TypeOK
  <1>2. ASSUME LegacyInv, VerifyInv,
               [Verify \/ ((NextStaged \/ Replacements) /\ Watch)]_<<vars, verifyVars>>
        PROVE  LegacyInv' /\ VerifyInv'
    <2>1. [NextLegacy]_vars
      BY <1>2, VerifyWritesNothing DEF NextLegacy
    <2>2. LegacyInv'
      BY <1>2, <2>1, LegacyStep
    <2> QED
      BY <1>2, <2>1, <2>2, VerifyKeepsTruth, WatchKeepsTruth, StillKeepsTruth
  <1>3. LegacyInv /\ VerifyInv => VerificationIsTrue
    BY TruthFromInv
  <1> QED
    BY <1>1, <1>2, <1>3, PTL DEF SpecVerifying

LEMMA CatalogIsLegacy == CatalogInv => LegacyInv
  BY StagedIsTables DEF CatalogInv, LegacyInv, StagedInv, TypeOK

(* Among the calls of the application there is never anything to report:   *)
(* what a verification reports all the same, so that an opening is refused,*)
(* is a mismatch of a document that another process wrote while it ran, or *)
(* that the comparison could not complete.                                 *)
OpensUndisturbed ==
  \A issue \in found :
    \/ issue = Incomplete
    \/ issue[1] = MISMATCH /\ issue[2].version[1] \in rewritten

THEOREM SoundCataloguesOpen == SpecOpening => []OpensUndisturbed
  <1> DEFINE Inv == CatalogInv /\ VerifyInv /\ seen = {}
  <1>1. Init /\ VerifyInit => Inv
    BY InitStagedInv, InitVerifyInv DEF CatalogInv, Init, HasRow, VerifyInit
  <1>2. ASSUME Inv, [Verify \/ (Next /\ Watch)]_<<vars, verifyVars>>
        PROVE  Inv'
    <2>1. [Next]_vars
      BY <1>2, VerifyWritesNothing
    <2>2. CatalogInv'
      BY <1>2, <2>1, CatalogStep
    <2>3. LegacyInv /\ LegacyInv' /\ [NextLegacy]_vars
      <3>1. (CatalogInv => LegacyInv)'
        BY CatalogIsLegacy, PTL
      <3> QED
        BY <1>2, <2>1, <2>2, <3>1, CatalogIsLegacy DEF NextLegacy, NextStaged
    <2>4. VerifyInv'
      BY <1>2, <2>3, VerifyKeepsTruth, WatchKeepsTruth, StillKeepsTruth
    <2>5. IntegrityIssues = {} /\ IntegrityIssues' = {}
      <3>1. (CatalogInv => IntegrityHolds)'
        BY WholeIsVerified, PTL
      <3> QED
        BY <1>2, <2>2, <3>1, WholeIsVerified DEF IntegrityHolds
    <2>6. seen' = {}
      BY <1>2, <2>5, SeenGrows
    <2> QED
      BY <2>2, <2>4, <2>6
  <1>3. Inv => OpensUndisturbed
    BY DEF OpensUndisturbed, VerifyInv, IsTrue
  <1> QED
    BY <1>1, <1>2, <1>3, PTL DEF SpecOpening

LEMMA OnlyPurgesDelete ==
  ASSUME [NextLegacy]_vars, stored \ stored' # {}
  PROVE  Purges
  BY DEF NextLegacy, NextStaged, Next, Commits, CommitDocumentRevision, Observations,
         SourceLoads, AddSource, UpdateSource, RebuildSearchIndex, Creations,
         UpsertDocument, Stagings, AddDocumentVersion, Promotions, vars,
         PromoteWithSections, ReplaceOldSections, Replacements,
         ReplaceCurrentSections, UpsertVersion, versionRows

(* An index row that leads to a current section names none of the purged.  *)
LEMMA PurgeKeepsHits ==
  ASSUME TablesInv, [NextLegacy]_vars, stored \ stored' # {}
  PROVE  Hits' = Hits
  <1>1. PICK scope \in {Source} \cup {{s} : s \in Source}, keep \in 0..Cardinality(Hash) :
          PurgeOldDocumentVersions(scope, keep)
    BY OnlyPurgesDelete DEF Purges
  <1> DEFINE purged == Candidates(scope, keep)
  <1>2. /\ fts' = Without(fts, SectionsIn(sections, purged))
        /\ sections' = sections \ SectionsIn(sections, purged)
        /\ UNCHANGED <<sources, documentRows, isCurrent>>
    BY <1>1 DEF PurgeOldDocumentVersions
  <1>3. purged \cap isCurrent = {}
    BY DEF Candidates
  <1>4. \A s : Joined(s)' <=> Joined(s)
    BY <1>2 DEF Joined, documentRows
  <1> HIDE DEF purged
  <1>5. ASSUME NEW s \in sections, Joined(s)
        PROVE  s \in sections' /\ s.id \notin Ids(SectionsIn(sections, purged))
    BY <1>2, <1>3, <1>5 DEF Joined, SectionsIn, Ids, TablesInv, SectionKeysAreUnique
  <1>6. ASSUME NEW e, NEW s \in sections, Joined(s), e.rowid = s.id
        PROVE  e \in fts <=> e \in fts'
    BY <1>2, <1>5, <1>6 DEF Without
  <1>7. sections' \subseteq sections
    BY <1>2
  <1> QED
    BY <1>4, <1>5, <1>6, <1>7 DEF Hits

(* A purge changes nothing a search can find, even where the index was     *)
(* damaged before it (the purger deletes the sections and the index rows of*)
(* versions that no document points to).                                   *)
THEOREM PurgesAreInvisible == SpecLegacy => PurgeIsInvisible
  <1>1. LegacyInv /\ [NextStaged \/ Replacements]_vars
          => [stored \ stored' # {} => Hits' = Hits]_vars
    BY PurgeKeepsHits DEF LegacyInv, NextLegacy
  <1> QED
    BY <1>1, LegacyInvariant, PTL DEF SpecLegacy, PurgeIsInvisible

-----------------------------------------------------------------------------
(***************************************************************************)
(* The purge counts versions, in the order of their fetches: newer orders  *)
(* those of a document, which are in finite number.                        *)
(***************************************************************************)
Owned(d) == {h \in Hash : <<d, h>> \in stored}

FetchesAreOrdered(d) ==
  /\ newer[d] \subseteq Owned(d) \X Owned(d)
  /\ \A f \in Owned(d) : <<f, f>> \notin newer[d]
  /\ \A f, g, h \in Owned(d) : <<f, g>> \in newer[d] /\ <<g, h>> \in newer[d] => <<f, h>> \in newer[d]
  /\ \A f, g \in Owned(d) : f = g \/ <<f, g>> \in newer[d] \/ <<g, f>> \in newer[d]

OrderInv == IsFiniteSet(stored) /\ \A d \in Document : FetchesAreOrdered(d)

(* A version that is written becomes the last of its document.             *)
LEMMA UpsertKeepsOrder ==
  ASSUME TablesTypeOK, OrderInv, NEW d \in Document, NEW h \in Hash, UpsertVersion(d, h)
  PROVE  OrderInv'
  <1>1. stored' = stored \cup {<<d, h>>}
    BY DEF UpsertVersion
  <1>2. IsFiniteSet(stored')
    BY <1>1, FS_AddElement DEF OrderInv
  <1>3. ASSUME NEW x \in Document, x # d PROVE FetchesAreOrdered(x)'
    <2>1. newer'[x] = newer[x] /\ Owned(x)' = Owned(x)
      BY <1>1, <1>3 DEF UpsertVersion, TablesTypeOK, Owned
    <2> QED
      BY <2>1 DEF OrderInv, FetchesAreOrdered
  <1>4. Owned(d)' = Owned(d) \cup {h}
    BY <1>1 DEF Owned
  <1>5. newer'[d] = {p \in newer[d] : p[1] # h}
                       \cup {<<g, h>> : g \in {x \in Hash \ {h} : <<d, x>> \in stored}}
    BY DEF UpsertVersion, TablesTypeOK
  <1>6. newer[d] \subseteq Owned(d) \X Owned(d)
    BY DEF OrderInv, FetchesAreOrdered
  <1>7. \A f, g : <<f, g>> \in newer'[d] <=>
          \/ <<f, g>> \in newer[d] /\ f # h
          \/ g = h /\ f \in Owned(d) \ {h}
    <2> TAKE f, g
    <2>1. <<f, g>> \in {<<x, h>> : x \in {x \in Hash \ {h} : <<d, x>> \in stored}}
            <=> g = h /\ f \in Owned(d) \ {h}
      BY DEF Owned
    <2>2. <<f, g>> \in {p \in newer[d] : p[1] # h} <=> <<f, g>> \in newer[d] /\ f # h
      OBVIOUS
    <2> QED
      BY <1>5, <2>1, <2>2
  <1>8. FetchesAreOrdered(d)'
    <2>1. newer'[d] \subseteq Owned(d)' \X Owned(d)'
      <3>1. ASSUME NEW p \in newer'[d] PROVE p \in Owned(d)' \X Owned(d)'
        <4>1. CASE p \in newer[d]
          BY <1>4, <1>6, <4>1
        <4>2. CASE p \in {<<g, h>> : g \in {x \in Hash \ {h} : <<d, x>> \in stored}}
          <5>1. PICK g \in Hash : <<d, g>> \in stored /\ p = <<g, h>>
            BY <4>2
          <5> QED
            BY <1>4, <5>1 DEF Owned
        <4> QED
          BY <1>5, <4>1, <4>2
      <3> QED
        BY <3>1
    <2>2. \A f \in Owned(d)' : <<f, f>> \notin newer'[d]
      BY <1>4, <1>7 DEF OrderInv, FetchesAreOrdered
    <2>3. ASSUME NEW e \in Owned(d)', NEW f \in Owned(d)', NEW g \in Owned(d)',
                 <<e, f>> \in newer'[d], <<f, g>> \in newer'[d]
          PROVE  <<e, g>> \in newer'[d]
      <3>1. f # h
        BY <1>7, <2>3
      <3>2. <<e, f>> \in newer[d] /\ e # h /\ e \in Owned(d) /\ f \in Owned(d)
        BY <1>4, <1>7, <2>3, <3>1
      <3>3. CASE g = h
        BY <1>7, <3>2, <3>3
      <3>4. CASE g # h
        <4>1. <<f, g>> \in newer[d] /\ g \in Owned(d)
          BY <1>4, <1>7, <2>3, <3>4
        <4>2. <<e, g>> \in newer[d]
          BY <3>2, <4>1 DEF OrderInv, FetchesAreOrdered
        <4> QED
          BY <1>7, <3>2, <4>2
      <3> QED
        BY <3>3, <3>4
    <2>4. ASSUME NEW f \in Owned(d)', NEW g \in Owned(d)'
          PROVE  f = g \/ <<f, g>> \in newer'[d] \/ <<g, f>> \in newer'[d]
      BY <1>4, <1>7 DEF OrderInv, FetchesAreOrdered
    <2> QED
      BY <2>1, <2>2, <2>3, <2>4 DEF FetchesAreOrdered
  <1> QED
    BY <1>2, <1>3, <1>8 DEF OrderInv

(* What a purge leaves of an order is an order.                            *)
LEMMA PurgeKeepsOrder ==
  ASSUME OrderInv, NEW scope, NEW keep, PurgeOldDocumentVersions(scope, keep)
  PROVE  OrderInv'
  <1> DEFINE purged == Candidates(scope, keep)
  <1>1. /\ stored' = stored \ purged
        /\ newer' = [d \in Document |->
                       {p \in newer[d] : <<d, p[1]>> \notin purged /\ <<d, p[2]>> \notin purged}]
    BY DEF PurgeOldDocumentVersions
  <1> HIDE DEF purged
  <1>2. IsFiniteSet(stored')
    BY <1>1, FS_Subset DEF OrderInv
  <1>3. ASSUME NEW d \in Document PROVE FetchesAreOrdered(d)'
    <2>1. Owned(d)' = {h \in Owned(d) : <<d, h>> \notin purged}
      BY <1>1 DEF Owned
    <2>2. newer'[d] =
            {p \in newer[d] : <<d, p[1]>> \notin purged /\ <<d, p[2]>> \notin purged}
      BY <1>1
    <2>3. newer[d] \subseteq Owned(d) \X Owned(d)
      BY DEF OrderInv, FetchesAreOrdered
    <2>4. newer'[d] \subseteq Owned(d)' \X Owned(d)'
      BY <2>1, <2>2, <2>3
    <2>5. \A f, g \in Owned(d)' : <<f, g>> \in newer'[d] <=> <<f, g>> \in newer[d]
      BY <2>1, <2>2
    <2>6. Owned(d)' \subseteq Owned(d)
      BY <2>1
    <2> QED
      BY <2>4, <2>5, <2>6 DEF OrderInv, FetchesAreOrdered
  <1> QED
    BY <1>2, <1>3 DEF OrderInv

LEMMA StepKeepsOrder ==
  ASSUME TablesInv, OrderInv, [NextLegacy]_vars
  PROVE  OrderInv'
  <1>1. CASE Commits \/ Stagings
    <2>1. PICK d \in Document, h \in Hash : UpsertVersion(d, h)
      BY <1>1 DEF Commits, CommitDocumentRevision, Stagings, AddDocumentVersion
    <2> QED
      BY <2>1, UpsertKeepsOrder DEF TablesInv
  <1>2. CASE Purges
    BY <1>2, PurgeKeepsOrder DEF Purges
  <1>3. ASSUME stored' = stored, newer' = newer PROVE OrderInv'
    <2>1. \A d : Owned(d)' = Owned(d)
      BY <1>3 DEF Owned
    <2> QED
      BY <1>3, <2>1 DEF OrderInv, FetchesAreOrdered
  <1>4. CASE \/ Observations \/ Creations \/ SourceLoads \/ RebuildSearchIndex
             \/ Promotions \/ Replacements \/ UNCHANGED vars
    BY <1>3, <1>4
    DEF Observations, Creations, UpsertDocument, SourceLoads, AddSource, UpdateSource,
        RebuildSearchIndex, Promotions, PromoteWithSections, ReplaceOldSections,
        Replacements, ReplaceCurrentSections, versionRows, vars
  <1> QED
    BY <1>1, <1>2, <1>4 DEF NextLegacy, NextStaged, Next

(* Of two versions of a document, those newer than the newer one are newer *)
(* than the other: if it is left out, so is the other.                     *)
LEMMA CandidatesAreTheOldest ==
  ASSUME TablesTypeOK, OrderInv, NEW scope, NEW keep \in Int,
         NEW v \in Candidates(scope, keep),
         NEW w \in stored \ (isCurrent \cup pendingCurrent),
         w \notin Candidates(scope, keep), w[1] = v[1]
  PROVE  <<v[2], w[2]>> \in newer[v[1]]
  <1> DEFINE old == stored \ (isCurrent \cup pendingCurrent)
             NewerThan(x) == {y \in old : y[1] = x[1] /\ <<x[2], y[2]>> \in newer[x[1]]}
  <1>1. /\ v \in old /\ SourceOf[v[1]] \in scope /\ Cardinality(NewerThan(v)) >= keep
        /\ SourceOf[w[1]] \in scope => ~(Cardinality(NewerThan(w)) >= keep)
    BY DEF Candidates
  <1>2. PICK d \in Document, f \in Hash, g \in Hash : v = <<d, f>> /\ w = <<d, g>>
    BY <1>1 DEF TablesTypeOK, Version
  <1>3. f \in Owned(d) /\ g \in Owned(d) /\ f # g
    BY <1>1, <1>2 DEF Owned
  <1>4. ASSUME <<g, f>> \in newer[d] PROVE FALSE
    <2>1. ASSUME NEW y \in NewerThan(v) PROVE y \in NewerThan(w)
      <3>1. y \in old /\ y[1] = d /\ <<f, y[2]>> \in newer[d]
        BY <1>2, <2>1
      <3>2. y[2] \in Owned(d)
        BY <3>1 DEF TablesTypeOK, Version, Owned
      <3>3. <<g, y[2]>> \in newer[d]
        BY <1>3, <1>4, <3>1, <3>2 DEF OrderInv, FetchesAreOrdered
      <3> QED
        BY <1>2, <3>1, <3>3
    <2>2. IsFiniteSet(NewerThan(w)) /\ NewerThan(v) \subseteq NewerThan(w)
      <3>1. NewerThan(w) \subseteq stored
        OBVIOUS
      <3> HIDE DEF NewerThan
      <3> QED
        BY <2>1, <3>1, FS_Subset DEF OrderInv
    <2> HIDE DEF NewerThan
    <2>3. /\ IsFiniteSet(NewerThan(v))
          /\ Cardinality(NewerThan(v)) <= Cardinality(NewerThan(w))
      BY <2>2, FS_Subset
    <2>4. Cardinality(NewerThan(v)) \in Nat /\ Cardinality(NewerThan(w)) \in Nat
      BY <2>2, <2>3, FS_CardinalityType
    <2> QED
      BY <1>1, <1>2, <2>3, <2>4
  <1> QED
    BY <1>2, <1>3, <1>4 DEF OrderInv, FetchesAreOrdered

LEMMA PurgeTakesTheOldest ==
  ASSUME TablesInv, OrderInv, [NextLegacy]_vars, NEW v \in stored \ stored'
  PROVE  /\ v \notin isCurrent \cup pendingCurrent
         /\ \A w \in stored' \ (isCurrent \cup pendingCurrent) :
              w[1] = v[1] => <<v[2], w[2]>> \in newer[v[1]]
  <1>1. PICK scope \in {Source} \cup {{s} : s \in Source}, keep \in 0..Cardinality(Hash) :
          PurgeOldDocumentVersions(scope, keep)
    BY OnlyPurgesDelete DEF Purges
  <1>2. stored' = stored \ Candidates(scope, keep)
    BY <1>1 DEF PurgeOldDocumentVersions
  <1>3. v \in Candidates(scope, keep) /\ v \notin isCurrent \cup pendingCurrent
    BY <1>2 DEF Candidates
  <1>4. keep \in Int
    OBVIOUS
  <1>5. ASSUME NEW w \in stored' \ (isCurrent \cup pendingCurrent), w[1] = v[1]
        PROVE  <<v[2], w[2]>> \in newer[v[1]]
    BY <1>2, <1>3, <1>4, <1>5, CandidatesAreTheOldest DEF TablesInv
  <1> QED
    BY <1>3, <1>5

(* A purge takes the oldest versions of each document, and none that is    *)
(* current or waits to be promoted, whichever calls came before it.        *)
THEOREM PurgesTakeTheOldest == SpecLegacy => PurgeKeepsTheNewest
  <1>1. Init => OrderInv
    BY FS_EmptySet DEF Init, OrderInv, FetchesAreOrdered, Owned
  <1>2. LegacyInv /\ OrderInv /\ [NextStaged \/ Replacements]_vars => OrderInv'
    BY StepKeepsOrder DEF LegacyInv, NextLegacy
  <1>3. LegacyInv /\ OrderInv /\ [NextStaged \/ Replacements]_vars =>
          [\A v \in stored \ stored' :
             /\ v \notin isCurrent \cup pendingCurrent
             /\ \A w \in stored' \ (isCurrent \cup pendingCurrent) :
                  w[1] = v[1] => <<v[2], w[2]>> \in newer[v[1]]]_vars
    BY PurgeTakesTheOldest DEF LegacyInv, NextLegacy
  <1> QED
    BY <1>1, <1>2, <1>3, LegacyInvariant, PTL DEF SpecLegacy, PurgeKeepsTheNewest

-----------------------------------------------------------------------------
(***************************************************************************)
(* The instances: what the parts of a behaviour share (MCCatalog).         *)
(***************************************************************************)
(* A content has at most MaxSections sections, however often it is stored. *)
LEMMA CutIntoIsBounded ==
  ASSUME TablesTypeOK, SectionKeysAreUnique, NEW d \in Document, NEW h \in Hash,
         NEW n \in CutInto(d, h)
  PROVE  n \in 1..MaxSections
  <1> DEFINE rows == SectionsIn(sections, {<<d, h>>})
             place == [s \in rows |-> s.ordinal]
  <1>1. CASE rows = {}
    BY <1>1 DEF CutInto
  <1>2. CASE rows # {}
    <2>1. n = Cardinality(rows)
      BY <1>2 DEF CutInto
    <2>2. \A s \in rows : s \in sections /\ s.version = <<d, h>> /\ s.ordinal \in 1..MaxSections
      BY DEF SectionsIn, TablesTypeOK, Section
    <2>3. place \in Injection(rows, 1..MaxSections)
      <3>1. place \in [rows -> 1..MaxSections]
        BY <2>2
      <3>2. \A r, s \in rows : place[r] = place[s] => r = s
        BY <2>2 DEF SectionKeysAreUnique
      <3> HIDE DEF place, rows
      <3> QED
        BY <3>1, <3>2 DEF Injection, IsInjective
    <2>4. IsFiniteSet(1..MaxSections) /\ Cardinality(1..MaxSections) = MaxSections
      BY RevisionAssumption, FS_Interval
    <2> HIDE DEF place, rows
    <2>5. IsFiniteSet(rows) /\ Cardinality(rows) <= MaxSections
      BY <2>3, <2>4, FS_Injection
    <2>6. Cardinality(rows) \in Nat /\ Cardinality(rows) # 0
      BY <1>2, <2>5, FS_CardinalityType, FS_EmptySet
    <2> QED
      BY <2>1, <2>5, <2>6, RevisionAssumption
  <1> QED
    BY <1>1, <1>2

LEMMA WriteIsNext ==
  ASSUME TablesTypeOK, SectionKeysAreUnique, Write
  PROVE  Next
  <1>1. CASE Observations \/ SourceLoads \/ Purges
    BY <1>1 DEF Next
  <1>2. ASSUME NEW d \in Document, NEW h \in Hash, NEW t \in Title, NEW n \in CutInto(d, h),
               CommitDocumentRevision(d, h, n, t, "ACTIVE")
        PROVE  Commits
    BY <1>2, CutIntoIsBounded DEF Commits
  <1> QED
    BY <1>1, <1>2 DEF Write, Next

(* Reads write nothing.                                                    *)
LEMMA ReadsStep ==
  ASSUME TablesTypeOK, SectionKeysAreUnique, ReadsNext
  PROVE  [Next]_vars
  BY WriteIsNext
  DEF ReadsNext, Refuse, SelectItems, ListDocs, ReadResource, Summarize, SearchWithFts,
      SearchWithLike, ReadDocSection, ReadById

LEMMA PartStep ==
  ASSUME TablesInv, [MCNext]_<<part, vars, readVars, verifyVars>>
  PROVE  /\ part' = part
         /\ [NextLegacy]_vars
         /\ part # "legacy" => [Next]_vars
  BY ReadsStep, VerifyWritesNothing DEF TablesInv, MCNext, NextLegacy, NextStaged

LEMMA ExpectedIsExact ==
  ASSUME TablesTypeOK, PointerIsConsistent, fts = ExpectedIndex(sources)
  PROVE  IndexIsExact
  <1> DEFINE Flagged == {x \in Document : <<x, currentVersion[x]>> \in isCurrent}
  <1>1. ASSUME NEW d \in Document \ Flagged
        PROVE  Shown(d) = {}
    BY DEF PointerIsConsistent, TablesTypeOK, Shown, Searchable
  <1>2. fts = UNION {Shown(d) : d \in Flagged}
    BY DEF ExpectedIndex, Shown
  <1> QED
    BY <1>1, <1>2, ExactIsUnion

(* A catalogue that a synchronization left is as its calls leave it.       *)
LEMMA PopulatedIsWhole ==
  ASSUME Populated
  PROVE  CatalogInv /\ OrderInv
  <1>1. PICK h \in Hash, t \in Title :
          /\ sources = [s \in Source |-> "ENABLED"]
          /\ status = [d \in Document |-> IF d \in Existing THEN "ACTIVE" ELSE "ABSENT"]
          /\ title = [d \in Document |-> IF d \in Existing THEN t ELSE None]
          /\ currentVersion = [d \in Document |-> IF d \in Existing THEN h ELSE None]
          /\ stored = Existing \X {h}
          /\ isCurrent = stored
          /\ pendingCurrent = {}
          /\ newer = [d \in Document |-> {}]
          /\ sections = {[id |-> Place[d], version |-> <<d, h>>, ordinal |-> 1] : d \in Existing}
          /\ fts = ExpectedIndex(sources)
    BY DEF Populated
  <1>2. /\ Existing \subseteq Document /\ AreNumbered(Existing) /\ MaxSections > 0
        /\ Cardinality(Existing) <= MaxSectionId
    BY CatalogAssumption
  <1>3. \A d \in Existing : Place[d] \in 1..MaxSectionId
    <2>1. Cardinality(Existing) \in Nat
      BY <1>2, FS_CardinalityType DEF AreNumbered
    <2> QED
      BY <1>2, <2>1, RevisionAssumption DEF AreNumbered
  <1>4. \A s \in sections : \E d \in Existing :
          /\ s = [id |-> Place[d], version |-> <<d, h>>, ordinal |-> 1]
          /\ s.id = Place[d] /\ s.version = <<d, h>> /\ s.ordinal = 1
    BY <1>1
  <1>5. TablesTypeOK
    <2>1. sections \subseteq Section
      BY <1>2, <1>3, <1>4, RevisionAssumption DEF Section, Version
    <2> QED
      BY <1>1, <1>2, <2>1 DEF TablesTypeOK, Status, Version
  <1>6. RowsAreComplete
    BY <1>1, <1>2, RevisionAssumption DEF RowsAreComplete, HasRow
  <1>7. PointerIsConsistent
    BY <1>1, <1>2, RevisionAssumption DEF PointerIsConsistent
  <1>8. CurrentHasSections
    <2>1. \A s \in sections : s.version \in stored
      BY <1>1, <1>4
    <2>2. ASSUME NEW v \in isCurrent PROVE \E s \in sections : s.version = v
      <3>1. PICK d \in Existing : v = <<d, h>>
        BY <1>1
      <3> DEFINE row == [id |-> Place[d], version |-> <<d, h>>, ordinal |-> 1]
      <3>2. row \in sections /\ row.version = v
        BY <1>1, <3>1
      <3> QED
        BY <3>2
    <2> QED
      BY <2>1, <2>2 DEF CurrentHasSections
  <1>9. SectionKeysAreUnique
    <2> SUFFICES ASSUME NEW r \in sections, NEW s \in sections,
                        r.id = s.id \/ r.version = s.version
                 PROVE  r = s
      BY DEF SectionKeysAreUnique
    <2>1. PICK d \in Existing : /\ r = [id |-> Place[d], version |-> <<d, h>>, ordinal |-> 1]
                                /\ r.id = Place[d] /\ r.version = <<d, h>>
      BY <1>4
    <2>2. PICK e \in Existing : /\ s = [id |-> Place[e], version |-> <<e, h>>, ordinal |-> 1]
                                /\ s.id = Place[e] /\ s.version = <<e, h>>
      BY <1>4
    <2>3. d = e
      BY <1>2, <2>1, <2>2 DEF AreNumbered
    <2> QED
      BY <2>1, <2>2, <2>3
  <1>10. IndexIsExact
    BY <1>1, <1>5, <1>7, ExpectedIsExact
  <1>11. CatalogInv
    BY <1>1, <1>2, <1>5, <1>6, <1>7, <1>8, <1>9, <1>10, StagedIsTables, RevisionAssumption
    DEF CatalogInv, TablesInv, HasRow
  <1>12. IsFiniteSet(stored)
    <2>1. IsFiniteSet(Existing) /\ IsFiniteSet({h})
      BY <1>2, FS_Singleton DEF AreNumbered
    <2> QED
      BY <1>1, <2>1, FS_Product
  <1>13. \A d \in Document : FetchesAreOrdered(d)
    BY <1>1, <1>2 DEF FetchesAreOrdered, Owned
  <1> QED
    BY <1>11, <1>12, <1>13 DEF OrderInv

(* The invariant of the runs: that of all the calls, and where the         *)
(* deprecated ones are not made, that of the application.                  *)
PartInv ==
  /\ LegacyInv /\ OrderInv
  /\ part # "legacy" => CatalogInv
  /\ VerifyInv
  /\ part \notin {"opening", "legacy"} => position = 0
  /\ part = "opening" => seen = {}

LEMMA InitPartInv == MCInit => PartInv
  <1>1. Init => CatalogInv
    BY InitStagedInv DEF CatalogInv, Init, HasRow
  <1>2. Init => OrderInv
    BY FS_EmptySet DEF Init, OrderInv, FetchesAreOrdered, Owned
  <1> QED
    BY <1>1, <1>2, PopulatedIsWhole, CatalogIsLegacy, InitVerifyInv
    DEF MCInit, PartInv, VerifyInit

LEMMA PartInvStep == PartInv /\ [MCNext]_<<part, vars, readVars, verifyVars>> => PartInv'
  <1> SUFFICES ASSUME PartInv, [MCNext]_<<part, vars, readVars, verifyVars>> PROVE PartInv'
    OBVIOUS
  <1>1. part' = part /\ [NextLegacy]_vars /\ (part # "legacy" => [Next]_vars)
    BY PartStep DEF PartInv, LegacyInv
  <1>2. LegacyInv'
    BY <1>1, LegacyStep DEF PartInv
  <1>3. OrderInv'
    BY <1>1, StepKeepsOrder DEF PartInv, LegacyInv
  <1>4. part # "legacy" => CatalogInv'
    BY <1>1, CatalogStep DEF PartInv
  <1>5. /\ Verify \/ Watch \/ (UNCHANGED verifyVars /\ (position = 0 \/ UNCHANGED vars))
        /\ part \notin {"opening", "legacy"} => UNCHANGED verifyVars
    BY DEF MCNext, PartInv
  <1>6. VerifyInv'
    BY <1>1, <1>2, <1>5, VerifyKeepsTruth, WatchKeepsTruth, StillKeepsTruth DEF PartInv
  <1>7. part # "legacy" => IntegrityIssues = {} /\ IntegrityIssues' = {}
    <2>1. (CatalogInv => IntegrityHolds)'
      BY WholeIsVerified, PTL
    <2> QED
      BY <1>4, <2>1, WholeIsVerified DEF PartInv, IntegrityHolds
  <1>8. part = "opening" => seen' = {}
    BY <1>5, <1>7, SeenGrows DEF PartInv
  <1>9. part \notin {"opening", "legacy"} => position' = 0
    BY <1>5 DEF PartInv, verifyVars
  <1> QED
    BY <1>1, <1>2, <1>3, <1>4, <1>6, <1>8, <1>9 DEF PartInv

LEMMA PartInvariant == MCSpec => []PartInv
  BY InitPartInv, PartInvStep, PTL DEF MCSpec
(* Pointers, flags, sections, index and foreign keys agree after any       *)
(* sequence of the calls of the application, whatever clients read between *)
(* them, from an empty catalogue as from a populated one.                  *)
THEOREM CatalogStaysWhole == MCSpec => []CatalogIsWhole
  <1>1. PartInv => CatalogIsWhole
    BY DEF PartInv, CatalogIsWhole
  <1> QED
    BY <1>1, PartInvariant, PTL

(* In each part of the run, what a verification reports is true but for the*)
(* documents written between the filling of the expected index and the     *)
(* comparison, and among the calls of the application there is never       *)
(* anything to report.                                                     *)
THEOREM VerificationIsTrusted == MCSpec => []VerificationIsExact
  <1>1. PartInv => VerificationIsExact
    BY TruthFromInv, LegacyIsVerified DEF PartInv, VerificationIsExact
  <1> QED
    BY <1>1, PartInvariant, PTL

(* The purge that a load or an operator runs takes the oldest versions of  *)
(* each document first, beside reads as after the deprecated calls.        *)
THEOREM PurgesKeepTheNewest == MCSpec => PurgeKeepsTheNewest
  <1>1. PartInv /\ [MCNext]_<<part, vars, readVars, verifyVars>> =>
          [\A v \in stored \ stored' :
             /\ v \notin isCurrent \cup pendingCurrent
             /\ \A w \in stored' \ (isCurrent \cup pendingCurrent) :
                  w[1] = v[1] => <<v[2], w[2]>> \in newer[v[1]]]_vars
    <2> SUFFICES ASSUME PartInv, [MCNext]_<<part, vars, readVars, verifyVars>>, NEW v \in stored \ stored'
                 PROVE  /\ v \notin isCurrent \cup pendingCurrent
                        /\ \A w \in stored' \ (isCurrent \cup pendingCurrent) :
                             w[1] = v[1] => <<v[2], w[2]>> \in newer[v[1]]
      OBVIOUS
    <2>1. [NextLegacy]_vars /\ TablesInv /\ OrderInv
      BY PartStep DEF PartInv, LegacyInv
    <2> QED
      BY <2>1, PurgeTakesTheOldest
  <1> QED
    BY <1>1, PartInvariant, PTL DEF MCSpec, PurgeKeepsTheNewest

(* No search finds anything else after a purge, even where the index was   *)
(* damaged before it.                                                      *)
THEOREM PurgesStayInvisible == MCSpec => PurgeIsInvisible
  <1>1. PartInv /\ [MCNext]_<<part, vars, readVars, verifyVars>>
          => [stored \ stored' # {} => Hits' = Hits]_vars
    BY PartStep, PurgeKeepsHits DEF PartInv, LegacyInv
  <1> QED
    BY <1>1, PartInvariant, PTL DEF MCSpec, PurgeIsInvisible

-----------------------------------------------------------------------------
(***************************************************************************)
(* The rank of a row in a list: how many come before it.                   *)
(***************************************************************************)
IsOrder(S, lt) ==
  /\ IsFiniteSet(S)
  /\ \A x \in S : <<x, x>> \notin lt
  /\ \A x, y, z \in S : <<x, y>> \in lt /\ <<y, z>> \in lt => <<x, z>> \in lt
  /\ \A x, y \in S : x = y \/ <<x, y>> \in lt \/ <<y, x>> \in lt

Below(S, lt, x) == {y \in S : <<y, x>> \in lt}

Rank(S, lt, x) == Cardinality(Below(S, lt, x))

Ranked(S, lt, a, b) == {x \in S : Rank(S, lt, x) \in a..b}

LEMMA BelowIsFinite ==
  ASSUME NEW S, NEW lt, NEW x, IsFiniteSet(S)
  PROVE  IsFiniteSet(Below(S, lt, x)) /\ Rank(S, lt, x) \in Nat
  <1>1. Below(S, lt, x) \in SUBSET S
    BY DEF Below
  <1>2. IsFiniteSet(Below(S, lt, x))
    BY <1>1, FS_Subset
  <1> QED
    BY <1>2, FS_CardinalityType DEF Rank

(* The last row has fewer before it than there are.                        *)
LEMMA RankIsLess ==
  ASSUME NEW S, NEW lt, IsOrder(S, lt), NEW x \in S
  PROVE  Rank(S, lt, x) < Cardinality(S)
  <1>1. IsFiniteSet(S) /\ Below(S, lt, x) \in SUBSET S /\ Below(S, lt, x) # S
    BY DEF IsOrder, Below
  <1>2. /\ Cardinality(Below(S, lt, x)) <= Cardinality(S)
        /\ Cardinality(Below(S, lt, x)) # Cardinality(S)
    BY <1>1, FS_Subset
  <1>3. Cardinality(S) \in Nat /\ Rank(S, lt, x) \in Nat
    BY <1>1, FS_CardinalityType, BelowIsFinite
  <1> QED
    BY <1>2, <1>3 DEF Rank

LEMMA RankGrows ==
  ASSUME NEW S, NEW lt, IsOrder(S, lt), NEW x \in S, NEW y \in S, <<x, y>> \in lt
  PROVE  Rank(S, lt, x) < Rank(S, lt, y)
  <1>1. IsFiniteSet(Below(S, lt, x)) /\ IsFiniteSet(Below(S, lt, y))
    BY BelowIsFinite DEF IsOrder
  <1>2. x \in Below(S, lt, y) /\ x \notin Below(S, lt, x)
    BY DEF Below, IsOrder
  <1>3. Below(S, lt, x) \in SUBSET Below(S, lt, y)
    BY DEF Below, IsOrder
  <1>4. /\ Cardinality(Below(S, lt, x)) <= Cardinality(Below(S, lt, y))
        /\ Cardinality(Below(S, lt, x)) # Cardinality(Below(S, lt, y))
    BY <1>1, <1>2, <1>3, FS_Subset
  <1>5. Cardinality(Below(S, lt, x)) \in Nat /\ Cardinality(Below(S, lt, y)) \in Nat
    BY <1>1, FS_CardinalityType
  <1> QED
    BY <1>4, <1>5 DEF Rank

(* No two rows have the same rank, so a range of ranks holds no more rows  *)
(* than it is wide.                                                        *)
LEMMA RankedIsBounded ==
  ASSUME NEW S, NEW lt, IsOrder(S, lt), NEW a \in Int, NEW b \in Int
  PROVE  /\ IsFiniteSet(Ranked(S, lt, a, b))
         /\ Cardinality(Ranked(S, lt, a, b)) \in Nat
         /\ a <= b + 1 => Cardinality(Ranked(S, lt, a, b)) <= b - a + 1
  <1> DEFINE rank == [x \in Ranked(S, lt, a, b) |-> Rank(S, lt, x)]
  <1>1. rank \in [Ranked(S, lt, a, b) -> a..b]
    BY DEF Ranked
  <1>2. \A x \in S : Rank(S, lt, x) \in Nat
    BY BelowIsFinite DEF IsOrder
  <1>3. \A x, y \in Ranked(S, lt, a, b) : rank[x] = rank[y] => x = y
    <2> SUFFICES ASSUME NEW x \in Ranked(S, lt, a, b), NEW y \in Ranked(S, lt, a, b),
                        Rank(S, lt, x) = Rank(S, lt, y)
                 PROVE  x = y
      OBVIOUS
    <2>1. x \in S /\ y \in S
      BY DEF Ranked
    <2>2. <<x, y>> \notin lt /\ <<y, x>> \notin lt
      BY <1>2, <2>1, RankGrows
    <2> QED
      BY <2>1, <2>2 DEF IsOrder
  <1> HIDE DEF rank
  <1>4. rank \in Injection(Ranked(S, lt, a, b), a..b)
    BY <1>1, <1>3 DEF Injection, IsInjective
  <1>5. IsFiniteSet(a..b) /\ Cardinality(a..b) = IF a > b THEN 0 ELSE b - a + 1
    BY FS_Interval
  <1>6. IsFiniteSet(Ranked(S, lt, a, b)) /\ Cardinality(Ranked(S, lt, a, b)) <= Cardinality(a..b)
    BY <1>4, <1>5, FS_Injection
  <1>7. Cardinality(Ranked(S, lt, a, b)) \in Nat
    BY <1>6, FS_CardinalityType
  <1> QED
    BY <1>5, <1>6, <1>7

(* In a page cut by ranks, the rows before one are as many as its rank is  *)
(* above the first.                                                        *)
LEMMA RankInPage ==
  ASSUME NEW S, NEW lt, IsOrder(S, lt), NEW a \in Nat, NEW b \in Int,
         NEW x \in Ranked(S, lt, a, b)
  PROVE  Rank(S, lt, x) = a + Cardinality(Below(Ranked(S, lt, a, b), lt, x))
  <1> DEFINE page == Ranked(S, lt, a, b)
             n == Rank(S, lt, x)
             first == Ranked(S, lt, 0, a - 1)
             rest == Below(page, lt, x)
  <1>1. x \in S /\ n \in Nat /\ a <= n /\ n <= b
    BY BelowIsFinite DEF Ranked, IsOrder
  <1>2. \A y \in S : Rank(S, lt, y) \in Nat
    BY BelowIsFinite DEF IsOrder
  <1>3. rest \subseteq Ranked(S, lt, a, n - 1)
    <2> SUFFICES ASSUME NEW y \in rest PROVE y \in Ranked(S, lt, a, n - 1)
      OBVIOUS
    <2>1. y \in S /\ <<y, x>> \in lt /\ a <= Rank(S, lt, y)
      BY DEF Below, Ranked
    <2>2. Rank(S, lt, y) < n
      BY <1>1, <2>1, RankGrows
    <2> QED
      BY <1>1, <1>2, <2>1, <2>2 DEF Ranked
  <1>4. Below(S, lt, x) \subseteq first \cup rest
    <2> SUFFICES ASSUME NEW y \in Below(S, lt, x), y \notin first PROVE y \in rest
      OBVIOUS
    <2>1. y \in S /\ <<y, x>> \in lt
      BY DEF Below
    <2>2. Rank(S, lt, y) < n
      BY <1>1, <2>1, RankGrows
    <2>3. Rank(S, lt, y) \in a..b
      BY <1>1, <1>2, <2>1, <2>2 DEF Ranked
    <2> QED
      BY <2>1, <2>3 DEF Below, Ranked
  <1> HIDE DEF n, first, rest
  <1>5. /\ IsFiniteSet(Ranked(S, lt, a, n - 1))
        /\ Cardinality(Ranked(S, lt, a, n - 1)) <= n - a
        /\ Cardinality(Ranked(S, lt, a, n - 1)) \in Nat
    <2>1. a \in Int /\ n - 1 \in Int /\ a <= (n - 1) + 1 /\ (n - 1) - a + 1 = n - a
      BY <1>1
    <2> QED
      BY <2>1, RankedIsBounded
  <1>6. /\ IsFiniteSet(first) /\ Cardinality(first) \in Nat /\ Cardinality(first) <= a
    <2>1. 0 \in Int /\ a - 1 \in Int /\ 0 <= (a - 1) + 1 /\ (a - 1) - 0 + 1 = a
      OBVIOUS
    <2> QED
      BY <2>1, RankedIsBounded DEF first
  <1>7. /\ IsFiniteSet(rest) /\ Cardinality(rest) \in Nat
        /\ Cardinality(rest) <= Cardinality(Ranked(S, lt, a, n - 1))
    BY <1>3, <1>5, FS_Subset, FS_CardinalityType
  <1>8. n <= Cardinality(first) + Cardinality(rest)
    <2>1. /\ IsFiniteSet(first \cup rest)
          /\ Cardinality(first \cup rest) =
               Cardinality(first) + Cardinality(rest) - Cardinality(first \cap rest)
      BY <1>6, <1>7, FS_Union
    <2>2. n <= Cardinality(first \cup rest)
      BY <1>4, <2>1, FS_Subset DEF n, Rank
    <2>3. Cardinality(first \cap rest) \in Nat
      BY <1>6, FS_Intersection, FS_CardinalityType
    <2> QED
      BY <1>1, <1>6, <1>7, <2>1, <2>2, <2>3
  <1>9. n = a + Cardinality(rest)
    BY <1>1, <1>5, <1>6, <1>7, <1>8
  <1> QED
    BY <1>9 DEF n, rest

(* What rows are added, a rank never falls while the order is kept.        *)
LEMMA RankNeverFalls ==
  ASSUME NEW S, NEW T, NEW lt, NEW mt, IsFiniteSet(T), S \subseteq T,
         \A x, y \in S : <<x, y>> \in lt => <<x, y>> \in mt, NEW x \in S
  PROVE  Rank(S, lt, x) <= Rank(T, mt, x)
  <1>1. IsFiniteSet(Below(T, mt, x))
    BY BelowIsFinite
  <1>2. Below(S, lt, x) \in SUBSET Below(T, mt, x)
    BY DEF Below
  <1> QED
    BY <1>1, <1>2, FS_Subset DEF Rank

-----------------------------------------------------------------------------
(***************************************************************************)
(* A walk c through a list R in the order lt.                              *)
(***************************************************************************)
Row == Source \cup Document \cup Version \cup Section

Seen(c) == UNION {c.pages[i] : i \in DOMAIN c.pages}

WalkShape(c) ==
  /\ c.pc \in {"page", "total", "done", "INVALID_ARGUMENT", "RESPONSE_TOO_LARGE"}
  /\ c.offset \in Nat
  /\ IsFiniteSet(c.items) /\ c.items \subseteq Row
  /\ c.pages \in Seq(SUBSET Row)
  /\ c.began = {} => c.offset = 0 /\ c.pc # "total"

(* A row that was there is visited, or it is still to come; a row of the   *)
(* page is not before the place that its page gives it.                    *)
SteadyWalk(c, R, lt) ==
  /\ \A rows \in c.began :
       /\ rows \subseteq R
       /\ c.pc = "page" => \A x \in rows : x \in Seen(c) \/ Rank(R, lt, x) >= c.offset
       /\ c.pc = "total" =>
            \A x \in rows : \/ x \in Seen(c) \cup c.items
                            \/ Rank(R, lt, x) >= c.offset + Cardinality(c.items)
       /\ c.pc = "done" => rows \subseteq Seen(c)
  /\ c.pc = "total" =>
       \A x \in c.items :
         x \in R /\ Rank(R, lt, x) >= c.offset + Cardinality(Below(c.items, lt, x))

(* Of a list that rows are only added to, and at its end: what was visited *)
(* stands before the page, and the page at its place.                      *)
FreshWalk(c, R, lt) ==
  /\ \A i, j \in DOMAIN c.pages : i # j => c.pages[i] \cap c.pages[j] = {}
  /\ c.pc \in {"page", "total"} => \A x \in Seen(c) : x \in R /\ Rank(R, lt, x) < c.offset
  /\ c.pc = "total" =>
       \A x \in c.items :
         x \in R /\ Rank(R, lt, x) = c.offset + Cardinality(Below(c.items, lt, x))

LEMMA OrderIsKept ==
  ASSUME NEW R, NEW S, NEW lt, NEW mt, IsOrder(R, lt), IsOrder(S, mt), R \subseteq S,
         \A x, y \in R : <<x, y>> \in lt => <<x, y>> \in mt
  PROVE  \A x, y \in R : <<x, y>> \in lt <=> <<x, y>> \in mt
  BY DEF IsOrder

LEMMA WriteKeepsSteady ==
  ASSUME NEW c, NEW R, NEW S, NEW lt, NEW mt, IsOrder(R, lt), IsOrder(S, mt),
         R \subseteq S, \A x, y \in R : <<x, y>> \in lt => <<x, y>> \in mt,
         WalkShape(c), SteadyWalk(c, R, lt)
  PROVE  SteadyWalk(c, S, mt)
  <1>1. \A x \in R : /\ Rank(R, lt, x) \in Nat /\ Rank(S, mt, x) \in Nat
                     /\ Rank(R, lt, x) <= Rank(S, mt, x)
    BY BelowIsFinite, RankNeverFalls DEF IsOrder
  <1>2. c.pc = "total" =>
          \A x \in c.items : x \in S /\ Rank(S, mt, x) >= c.offset + Cardinality(Below(c.items, mt, x))
    <2> SUFFICES ASSUME c.pc = "total", NEW x \in c.items
                 PROVE  x \in S /\ Rank(S, mt, x) >= c.offset + Cardinality(Below(c.items, mt, x))
      OBVIOUS
    <2>1. x \in R /\ Rank(R, lt, x) >= c.offset + Cardinality(Below(c.items, lt, x))
      BY DEF SteadyWalk
    <2>2. c.items \subseteq R
      BY DEF SteadyWalk
    <2>3. Below(c.items, mt, x) = Below(c.items, lt, x)
      BY <2>1, <2>2, OrderIsKept DEF Below
    <2>4. c.offset \in Nat /\ Cardinality(Below(c.items, lt, x)) \in Nat
      BY BelowIsFinite DEF WalkShape, Rank
    <2> QED
      BY <1>1, <2>1, <2>3, <2>4
  <1>3. c.offset \in Nat /\ Cardinality(c.items) \in Nat
    BY FS_CardinalityType DEF WalkShape
  <1>4. ASSUME NEW rows \in c.began
        PROVE  /\ rows \subseteq S
               /\ c.pc = "page" => \A x \in rows : x \in Seen(c) \/ Rank(S, mt, x) >= c.offset
               /\ c.pc = "total" =>
                    \A x \in rows : \/ x \in Seen(c) \cup c.items
                                    \/ Rank(S, mt, x) >= c.offset + Cardinality(c.items)
               /\ c.pc = "done" => rows \subseteq Seen(c)
    <2>1. /\ rows \subseteq R
          /\ c.pc = "page" => \A x \in rows : x \in Seen(c) \/ Rank(R, lt, x) >= c.offset
          /\ c.pc = "total" =>
               \A x \in rows : \/ x \in Seen(c) \cup c.items
                               \/ Rank(R, lt, x) >= c.offset + Cardinality(c.items)
          /\ c.pc = "done" => rows \subseteq Seen(c)
      BY DEF SteadyWalk
    <2>2. c.pc = "page" => \A x \in rows : x \in Seen(c) \/ Rank(S, mt, x) >= c.offset
      BY <1>1, <1>3, <2>1
    <2>3. c.pc = "total" =>
            \A x \in rows : \/ x \in Seen(c) \cup c.items
                            \/ Rank(S, mt, x) >= c.offset + Cardinality(c.items)
      BY <1>1, <1>3, <2>1
    <2> QED
      BY <2>1, <2>2, <2>3
  <1> QED
    BY <1>2, <1>4 DEF SteadyWalk

LEMMA WriteKeepsFresh ==
  ASSUME NEW c, NEW R, NEW S, NEW lt, NEW mt, R \subseteq S,
         \A x, y \in R : <<x, y>> \in lt <=> <<x, y>> \in mt,
         \A x \in R, y \in S : <<y, x>> \in mt => y \in R,
         FreshWalk(c, R, lt)
  PROVE  FreshWalk(c, S, mt)
  <1>1. \A x \in R : Rank(S, mt, x) = Rank(R, lt, x)
    <2> SUFFICES ASSUME NEW x \in R PROVE Below(S, mt, x) = Below(R, lt, x)
      BY DEF Rank
    <2> QED
      BY DEF Below
  <1>2. c.pc = "total" => \A x \in c.items : Below(c.items, mt, x) = Below(c.items, lt, x)
    BY DEF FreshWalk, Below
  <1> QED
    BY <1>1, <1>2 DEF FreshWalk

(* The items: a page by the ranks.                                         *)
LEMMA SelectKeepsWalk ==
  ASSUME NEW c, NEW d, NEW R, NEW lt, IsOrder(R, lt), R \subseteq Row, WalkShape(c),
         c.pc = "page", NEW limit \in Nat, limit > 0, d.pc = "total", d.offset = c.offset,
         d.pages = c.pages, d.items = Ranked(R, lt, c.offset, c.offset + limit - 1),
         d.began = IF c.began = {} THEN {R} ELSE c.began
  PROVE  /\ WalkShape(d)
         /\ c.began = {} \/ SteadyWalk(c, R, lt) => SteadyWalk(d, R, lt)
         /\ FreshWalk(c, R, lt) => FreshWalk(d, R, lt)
  <1>1. c.offset \in Nat /\ c.offset + limit - 1 \in Int
    BY DEF WalkShape
  <1>2. /\ IsFiniteSet(d.items) /\ Cardinality(d.items) \in Nat
        /\ Cardinality(d.items) <= limit
    <2>1. PICK b \in Int : b = c.offset + limit - 1
      BY <1>1
    <2>2. c.offset <= b + 1 /\ b - c.offset + 1 = limit
      BY <1>1, <2>1
    <2>3. c.offset \in Int
      BY <1>1
    <2> QED
      BY <2>1, <2>2, <2>3, RankedIsBounded
  <1>3. d.items \subseteq R
    BY DEF Ranked
  <1>4. \A x \in d.items : Rank(R, lt, x) = d.offset + Cardinality(Below(d.items, lt, x))
    BY <1>1, RankInPage
  <1>5. Seen(d) = Seen(c)
    BY DEF Seen
  <1>6. d.began # {}
    BY <1>1
  <1>7. WalkShape(d)
    BY <1>2, <1>3, <1>6 DEF WalkShape
  <1>8. \A x \in R : Rank(R, lt, x) \in Nat
    BY BelowIsFinite DEF IsOrder
  <1>9. \A x \in R : Rank(R, lt, x) >= c.offset =>
          x \in d.items \/ Rank(R, lt, x) >= d.offset + Cardinality(d.items)
    <2> SUFFICES ASSUME NEW x \in R, Rank(R, lt, x) >= c.offset, x \notin d.items
                 PROVE  Rank(R, lt, x) >= d.offset + Cardinality(d.items)
      OBVIOUS
    <2>1. Rank(R, lt, x) \notin c.offset..(c.offset + limit - 1)
      BY DEF Ranked
    <2> QED
      BY <1>1, <1>2, <1>8, <2>1
  <1>10. ASSUME c.began = {} \/ SteadyWalk(c, R, lt) PROVE SteadyWalk(d, R, lt)
    <2>1. ASSUME NEW rows \in d.began
          PROVE  /\ rows \subseteq R
                 /\ \A x \in rows : \/ x \in Seen(d) \cup d.items
                                    \/ Rank(R, lt, x) >= d.offset + Cardinality(d.items)
      <3>1. CASE c.began = {}
        <4>1. rows = R /\ c.offset = 0
          BY <3>1 DEF WalkShape
        <4> QED
          BY <1>8, <1>9, <4>1
      <3>2. CASE c.began # {}
        <4>1. rows \in c.began
          BY <3>2
        <4>2. rows \subseteq R /\ \A x \in rows : x \in Seen(c) \/ Rank(R, lt, x) >= c.offset
          BY <1>10, <3>2, <4>1 DEF SteadyWalk
        <4> QED
          BY <1>5, <1>9, <4>2
      <3> QED
        BY <3>1, <3>2
    <2>2. \A x \in d.items :
            x \in R /\ Rank(R, lt, x) >= d.offset + Cardinality(Below(d.items, lt, x))
      <3>1. \A x \in d.items : Rank(R, lt, x) \in Nat
        BY <1>3, <1>8
      <3> QED
        BY <1>3, <1>4, <3>1
    <2> QED
      BY <2>1, <2>2 DEF SteadyWalk
  <1>11. ASSUME FreshWalk(c, R, lt) PROVE FreshWalk(d, R, lt)
    BY <1>3, <1>4, <1>5, <1>11 DEF FreshWalk
  <1> QED
    BY <1>7, <1>10, <1>11

LEMMA SeenAppended ==
  ASSUME NEW c, NEW d, NEW page \in SUBSET Row, c.pages \in Seq(SUBSET Row),
         d.pages = Append(c.pages, page)
  PROVE  /\ d.pages \in Seq(SUBSET Row)
         /\ Seen(d) = Seen(c) \cup page
         /\ DOMAIN d.pages = 1..(Len(c.pages) + 1) /\ DOMAIN c.pages = 1..Len(c.pages)
         /\ \A i \in DOMAIN c.pages : d.pages[i] = c.pages[i]
         /\ d.pages[Len(c.pages) + 1] = page
         /\ Len(c.pages) \in Nat
  <1>1. /\ d.pages \in Seq(SUBSET Row)
        /\ DOMAIN d.pages = 1..(Len(c.pages) + 1) /\ DOMAIN c.pages = 1..Len(c.pages)
        /\ \A i \in DOMAIN c.pages : d.pages[i] = c.pages[i]
        /\ d.pages[Len(c.pages) + 1] = page
        /\ Len(c.pages) \in Nat
    OBVIOUS
  <1>2. DOMAIN d.pages = DOMAIN c.pages \cup {Len(c.pages) + 1}
    BY <1>1
  <1>3. Seen(d) = Seen(c) \cup page
    BY <1>1, <1>2 DEF Seen
  <1> QED
    BY <1>1, <1>3

(* The answer: the first of the items, and the next offset by their number.*)
LEMMA AnswerKeepsWalk ==
  ASSUME NEW c, NEW d, NEW R, NEW lt, IsOrder(R, lt), WalkShape(c), c.pc = "total",
         NEW page, page \subseteq c.items,
         c.items \subseteq R =>
           \A x \in page, y \in c.items : <<y, x>> \in lt => y \in page,
         d.pages = Append(c.pages, page), d.items = {}, d.began = c.began,
         \/ /\ c.offset + Cardinality(page) < Cardinality(R)
            /\ d.pc = "page" /\ d.offset = c.offset + Cardinality(page)
         \/ /\ ~(c.offset + Cardinality(page) < Cardinality(R))
            /\ d.pc = "done" /\ d.offset = c.offset
  PROVE  /\ WalkShape(d)
         /\ SteadyWalk(c, R, lt) => SteadyWalk(d, R, lt)
         /\ FreshWalk(c, R, lt) => FreshWalk(d, R, lt)
  <1>1. /\ c.offset \in Nat /\ IsFiniteSet(c.items) /\ IsFiniteSet(page)
        /\ Cardinality(page) \in Nat /\ Cardinality(c.items) \in Nat
        /\ Cardinality(page) <= Cardinality(c.items)
    <2>1. c.offset \in Nat /\ IsFiniteSet(c.items) /\ page \in SUBSET c.items
      BY DEF WalkShape
    <2> QED
      BY <2>1, FS_Subset, FS_CardinalityType
  <1>2. /\ page \in SUBSET Row /\ c.pages \in Seq(SUBSET Row) /\ c.began # {}
    BY DEF WalkShape
  <1>3. /\ d.pages \in Seq(SUBSET Row)
        /\ Seen(d) = Seen(c) \cup page
        /\ DOMAIN d.pages = 1..(Len(c.pages) + 1) /\ DOMAIN c.pages = 1..Len(c.pages)
        /\ \A i \in DOMAIN c.pages : d.pages[i] = c.pages[i]
        /\ d.pages[Len(c.pages) + 1] = page
        /\ Len(c.pages) \in Nat
    BY <1>2, SeenAppended
  <1>4. WalkShape(d)
    <2>1. d.offset \in Nat /\ d.pc \in {"page", "done"}
      BY <1>1
    <2> QED
      BY <1>2, <1>3, <2>1, FS_EmptySet DEF WalkShape
  <1>5. \A x \in R : Rank(R, lt, x) \in Nat /\ Rank(R, lt, x) < Cardinality(R)
    BY BelowIsFinite, RankIsLess DEF IsOrder
  <1>6. Cardinality(R) \in Nat
    BY FS_CardinalityType DEF IsOrder
  <1>7. ASSUME c.items \subseteq R, NEW x \in c.items
        PROVE  /\ Cardinality(Below(c.items, lt, x)) \in Nat
               /\ x \notin page => Cardinality(page) <= Cardinality(Below(c.items, lt, x))
               /\ x \in page => Cardinality(Below(c.items, lt, x)) < Cardinality(page)
    <2>1. /\ IsFiniteSet(Below(c.items, lt, x))
          /\ Cardinality(Below(c.items, lt, x)) \in Nat
      BY <1>1, BelowIsFinite DEF Rank
    <2>2. ASSUME x \notin page PROVE Cardinality(page) <= Cardinality(Below(c.items, lt, x))
      <3>1. \A y \in page : <<y, x>> \in lt
        BY <1>7, <2>2 DEF IsOrder
      <3>2. page \in SUBSET Below(c.items, lt, x)
        BY <3>1 DEF Below
      <3> QED
        BY <2>1, <3>2, FS_Subset
    <2>3. ASSUME x \in page PROVE Cardinality(Below(c.items, lt, x)) < Cardinality(page)
      <3>1. Below(c.items, lt, x) \in SUBSET page
        BY <1>7, <2>3 DEF Below
      <3>2. x \notin Below(c.items, lt, x)
        BY <1>7 DEF Below, IsOrder
      <3>3. /\ Cardinality(Below(c.items, lt, x)) <= Cardinality(page)
            /\ Cardinality(Below(c.items, lt, x)) # Cardinality(page)
        BY <1>1, <2>3, <3>1, <3>2, FS_Subset
      <3> QED
        BY <1>1, <2>1, <3>3
    <2> QED
      BY <2>1, <2>2, <2>3
  <1>8. ASSUME SteadyWalk(c, R, lt) PROVE SteadyWalk(d, R, lt)
    <2>1. c.items \subseteq R /\
          \A x \in c.items : Rank(R, lt, x) >= c.offset + Cardinality(Below(c.items, lt, x))
      BY <1>8 DEF SteadyWalk
    <2>2. ASSUME NEW rows \in c.began, NEW x \in rows
          PROVE  x \in R /\ (x \in Seen(d) \/ Rank(R, lt, x) >= c.offset + Cardinality(page))
      <3>1. x \in R /\ (\/ x \in Seen(c) \cup c.items
                        \/ Rank(R, lt, x) >= c.offset + Cardinality(c.items))
        BY <1>8 DEF SteadyWalk
      <3>2. CASE x \in Seen(c) \cup page
        BY <1>3, <3>1, <3>2
      <3>3. CASE x \in c.items /\ x \notin page
        <4>1. /\ Rank(R, lt, x) >= c.offset + Cardinality(Below(c.items, lt, x))
              /\ Cardinality(Below(c.items, lt, x)) \in Nat
              /\ Cardinality(page) <= Cardinality(Below(c.items, lt, x))
          BY <1>7, <2>1, <3>3
        <4>2. Rank(R, lt, x) \in Nat
          BY <1>5, <3>1
        <4> QED
          BY <1>1, <3>1, <4>1, <4>2
      <3>4. CASE Rank(R, lt, x) >= c.offset + Cardinality(c.items)
        <4>1. Rank(R, lt, x) \in Nat
          BY <1>5, <3>1
        <4> QED
          BY <1>1, <3>1, <3>4, <4>1
      <3> QED
        BY <3>1, <3>2, <3>3, <3>4
    <2>3. ASSUME NEW rows \in c.began, d.pc = "done" PROVE rows \subseteq Seen(d)
      <3> SUFFICES ASSUME NEW x \in rows PROVE x \in Seen(d)
        OBVIOUS
      <3>1. x \in R /\ (x \in Seen(d) \/ Rank(R, lt, x) >= c.offset + Cardinality(page))
        BY <2>2
      <3>2. Rank(R, lt, x) \in Nat /\ Rank(R, lt, x) < Cardinality(R)
        BY <1>5, <3>1
      <3>3. ~(c.offset + Cardinality(page) < Cardinality(R))
        BY <2>3
      <3> QED
        BY <1>1, <1>6, <3>1, <3>2, <3>3
    <2> QED
      BY <2>2, <2>3 DEF SteadyWalk
  <1>9. ASSUME FreshWalk(c, R, lt) PROVE FreshWalk(d, R, lt)
    <2>1. \A x \in Seen(c) : x \in R /\ Rank(R, lt, x) < c.offset
      BY <1>9 DEF FreshWalk
    <2>2. c.items \subseteq R /\
          \A x \in c.items : Rank(R, lt, x) = c.offset + Cardinality(Below(c.items, lt, x))
      BY <1>9 DEF FreshWalk
    <2>3. ASSUME NEW x \in page
          PROVE  /\ x \in R /\ Rank(R, lt, x) >= c.offset
                 /\ Rank(R, lt, x) < c.offset + Cardinality(page)
      <3>1. x \in c.items /\ x \in R
        BY <2>2
      <3>2. /\ Cardinality(Below(c.items, lt, x)) \in Nat
            /\ Cardinality(Below(c.items, lt, x)) < Cardinality(page)
        BY <1>7, <2>2, <3>1
      <3>3. Rank(R, lt, x) = c.offset + Cardinality(Below(c.items, lt, x))
        BY <2>2, <3>1
      <3> QED
        BY <1>1, <3>1, <3>2, <3>3
    <2>4. page \cap Seen(c) = {}
      <3> SUFFICES ASSUME NEW x \in page, x \in Seen(c) PROVE FALSE
        OBVIOUS
      <3>1. Rank(R, lt, x) < c.offset /\ Rank(R, lt, x) >= c.offset /\ Rank(R, lt, x) \in Nat
        BY <1>5, <2>1, <2>3
      <3> QED
        BY <1>1, <3>1
    <2>5. \A i \in DOMAIN c.pages : c.pages[i] \subseteq Seen(c)
      BY DEF Seen
    <2>6. \A i, j \in DOMAIN d.pages : i # j => d.pages[i] \cap d.pages[j] = {}
      <3> SUFFICES ASSUME NEW i \in DOMAIN d.pages, NEW j \in DOMAIN d.pages, i # j
                   PROVE  d.pages[i] \cap d.pages[j] = {}
        OBVIOUS
      <3>1. \A k \in DOMAIN d.pages : k \in DOMAIN c.pages \/ k = Len(c.pages) + 1
        BY <1>3
      <3>2. CASE i \in DOMAIN c.pages /\ j \in DOMAIN c.pages
        BY <1>3, <1>9, <3>2 DEF FreshWalk
      <3>3. CASE i \in DOMAIN c.pages /\ j = Len(c.pages) + 1
        BY <1>3, <2>4, <2>5, <3>3
      <3>4. CASE i = Len(c.pages) + 1 /\ j \in DOMAIN c.pages
        BY <1>3, <2>4, <2>5, <3>4
      <3> QED
        BY <3>1, <3>2, <3>3, <3>4
    <2>7. ASSUME d.pc = "page", NEW x \in Seen(d)
          PROVE  x \in R /\ Rank(R, lt, x) < d.offset
      <3>1. d.offset = c.offset + Cardinality(page)
        BY <2>7
      <3>2. CASE x \in page
        BY <2>3, <3>1, <3>2
      <3>3. CASE x \in Seen(c)
        <4>1. x \in R /\ Rank(R, lt, x) < c.offset /\ Rank(R, lt, x) \in Nat
          BY <1>5, <2>1, <3>3
        <4> QED
          BY <1>1, <3>1, <4>1
      <3> QED
        BY <1>3, <2>7, <3>2, <3>3
    <2> QED
      BY <2>6, <2>7 DEF FreshWalk
  <1> QED
    BY <1>4, <1>8, <1>9

-----------------------------------------------------------------------------
(* The lists: each is in the order of its statement.                       *)
Numbered(S, id) ==
  /\ IsFiniteSet(S)
  /\ \A x \in S : id[x] \in 1..Cardinality(S)
  /\ \A x, y \in S : id[x] = id[y] => x = y

PresentSources == {s \in Source : sources[s] # "ABSENT"}
PresentDocuments == {d \in Document : HasRow(d)}

IdsInv == Numbered(PresentSources, sourceId) /\ Numbered(PresentDocuments, documentId)

Walkable(request) ==
  /\ request.list \in {"documents", "sources", "versions", "sections"}
  /\ request.list = "versions" => request.of \in Document

OnlyGrows(request) ==
  \/ request.list = "sources"
  \/ request.list = "documents" /\ request.filter.status = None

Order(request) ==
  {p \in Rows(request) \X Rows(request) : Before(request, p[1], p[2])}

LEMMA OrderedByNumber ==
  ASSUME NEW S, NEW R, R \subseteq S, IsFiniteSet(S), NEW id,
         \A x \in S : id[x] \in Nat, \A x, y \in S : id[x] = id[y] => x = y,
         NEW lt, \A x, y \in R : <<x, y>> \in lt <=> id[x] < id[y]
  PROVE  IsOrder(R, lt)
  <1>1. IsFiniteSet(R)
    BY FS_Subset
  <1>2. \A x \in R : id[x] \in Nat
    OBVIOUS
  <1>3. \A x \in R : <<x, x>> \notin lt
    BY <1>2
  <1>4. \A x, y, z \in R : <<x, y>> \in lt /\ <<y, z>> \in lt => <<x, z>> \in lt
    BY <1>2
  <1>5. ASSUME NEW x \in R, NEW y \in R, x # y
        PROVE  <<x, y>> \in lt \/ <<y, x>> \in lt
    <2>1. id[x] # id[y] /\ id[x] \in Nat /\ id[y] \in Nat
      BY <1>2, <1>5
    <2>2. id[x] < id[y] \/ id[y] < id[x]
      BY <2>1
    <2> QED
      BY <2>2
  <1> QED
    BY <1>1, <1>3, <1>4, <1>5 DEF IsOrder

LEMMA NumbersAreNat ==
  ASSUME NEW S, NEW id, Numbered(S, id)
  PROVE  /\ Cardinality(S) \in Nat
         /\ \A x \in S : id[x] \in Nat /\ id[x] <= Cardinality(S)
  <1>1. IsFiniteSet(S)
    BY DEF Numbered
  <1>2. Cardinality(S) \in Nat
    BY <1>1, FS_CardinalityType
  <1> QED
    BY <1>2 DEF Numbered

LEMMA DocumentsAreOrdered ==
  ASSUME IdsInv, NEW request, request.list = "documents"
  PROVE  /\ IsOrder(Rows(request), Order(request)) /\ Rows(request) \subseteq PresentDocuments
         /\ \A x, y \in Rows(request) :
              <<x, y>> \in Order(request) <=> documentId[x] < documentId[y]
  <1>1. Rows(request) \subseteq PresentDocuments
    BY DEF Rows, Documents, PresentDocuments
  <1>2. \A x, y \in Rows(request) :
          <<x, y>> \in Order(request) <=> documentId[x] < documentId[y]
    BY DEF Order, Before
  <1>3. /\ \A x \in PresentDocuments : documentId[x] \in Nat
        /\ \A x, y \in PresentDocuments : documentId[x] = documentId[y] => x = y
        /\ IsFiniteSet(PresentDocuments)
    BY NumbersAreNat DEF IdsInv, Numbered
  <1> QED
    BY <1>1, <1>2, <1>3, OrderedByNumber

LEMMA SourcesAreOrdered ==
  ASSUME IdsInv, NEW request, request.list = "sources"
  PROVE  /\ IsOrder(Rows(request), Order(request)) /\ Rows(request) = PresentSources
         /\ \A x, y \in Rows(request) :
              <<x, y>> \in Order(request) <=> sourceId[x] < sourceId[y]
  <1>1. Rows(request) = PresentSources
    BY DEF Rows, Sources, PresentSources
  <1>2. \A x, y \in Rows(request) :
          <<x, y>> \in Order(request) <=> sourceId[x] < sourceId[y]
    BY DEF Order, Before
  <1>3. /\ \A x \in PresentSources : sourceId[x] \in Nat
        /\ \A x, y \in PresentSources : sourceId[x] = sourceId[y] => x = y
        /\ IsFiniteSet(PresentSources)
    BY NumbersAreNat DEF IdsInv, Numbered
  <1> QED
    BY <1>1, <1>2, <1>3, OrderedByNumber

LEMMA VersionsAreOrdered ==
  ASSUME TablesTypeOK, OrderInv, NEW request, request.list = "versions",
         request.of \in Document
  PROVE  /\ IsOrder(Rows(request), Order(request)) /\ Rows(request) \subseteq Version
         /\ \A x, y \in Rows(request) :
              <<x, y>> \in Order(request) <=> <<y[2], x[2]>> \in newer[request.of]
  <1> DEFINE R == Rows(request)
             d == request.of
  <1>1. R = stored \cap ({d} \X Hash)
    BY DEF Rows, Versions, VersionsOf
  <1>2. \A x, y \in R : <<x, y>> \in Order(request) <=> <<y[2], x[2]>> \in newer[d]
    BY DEF Order, Before
  <1>3. IsFiniteSet(R)
    BY <1>1, FS_Subset DEF OrderInv
  <1>4. FetchesAreOrdered(d)
    BY DEF OrderInv
  <1> HIDE DEF R
  <1>5. \A x \in R : x = <<d, x[2]>> /\ x[2] \in Owned(d)
    BY <1>1 DEF Owned
  <1>6. \A x \in R : <<x, x>> \notin Order(request)
    BY <1>2, <1>4, <1>5 DEF FetchesAreOrdered
  <1>7. \A x, y, z \in R : <<x, y>> \in Order(request) /\ <<y, z>> \in Order(request) =>
          <<x, z>> \in Order(request)
    <2> SUFFICES ASSUME NEW x \in R, NEW y \in R, NEW z \in R,
                        <<y[2], x[2]>> \in newer[d], <<z[2], y[2]>> \in newer[d]
                 PROVE  <<z[2], x[2]>> \in newer[d]
      BY <1>2
    <2>1. x[2] \in Owned(d) /\ y[2] \in Owned(d) /\ z[2] \in Owned(d)
      BY <1>5
    <2> QED
      BY <1>4, <2>1 DEF FetchesAreOrdered
  <1>8. ASSUME NEW x \in R, NEW y \in R, x # y
        PROVE  <<x, y>> \in Order(request) \/ <<y, x>> \in Order(request)
    <2>1. x[2] \in Owned(d) /\ y[2] \in Owned(d) /\ x[2] # y[2]
      BY <1>5, <1>8
    <2>2. <<x[2], y[2]>> \in newer[d] \/ <<y[2], x[2]>> \in newer[d]
      BY <1>4, <2>1 DEF FetchesAreOrdered
    <2> QED
      BY <1>2, <2>2
  <1>9. R \subseteq Version
    BY <1>1 DEF TablesTypeOK
  <1> QED
    BY <1>2, <1>3, <1>6, <1>7, <1>8, <1>9 DEF IsOrder, R

LEMMA SectionsAreFinite ==
  ASSUME TablesTypeOK, SectionKeysAreUnique
  PROVE  IsFiniteSet(sections) /\ \A s \in sections : s.id \in Nat
  <1> DEFINE id == [s \in sections |-> s.id]
  <1>1. \A s \in sections : s.id \in 1..MaxSectionId
    BY DEF TablesTypeOK, Section
  <1>2. id \in [sections -> 1..MaxSectionId]
    BY <1>1
  <1>3. \A r, s \in sections : id[r] = id[s] => r = s
    BY DEF SectionKeysAreUnique
  <1> HIDE DEF id
  <1>4. id \in Injection(sections, 1..MaxSectionId)
    BY <1>2, <1>3 DEF Injection, IsInjective
  <1>5. IsFiniteSet(1..MaxSectionId)
    BY RevisionAssumption, FS_Interval
  <1>6. IsFiniteSet(sections)
    BY <1>4, <1>5, FS_Injection
  <1> QED
    BY <1>1, <1>6

LEMMA SectionsAreOrdered ==
  ASSUME TablesTypeOK, SectionKeysAreUnique, NEW request, request.list = "sections"
  PROVE  /\ IsOrder(Rows(request), Order(request)) /\ Rows(request) \subseteq Section
         /\ \A x, y \in Rows(request) : <<x, y>> \in Order(request) <=> x.id < y.id
  <1> DEFINE id == [s \in sections |-> s.id]
  <1>1. Rows(request) \subseteq sections
    BY DEF Rows, CurrentSections
  <1>2. \A x, y \in Rows(request) : <<x, y>> \in Order(request) <=> x.id < y.id
    BY DEF Order, Before
  <1>3. /\ \A x \in sections : id[x] \in Nat
        /\ \A x, y \in sections : id[x] = id[y] => x = y
        /\ IsFiniteSet(sections)
    BY SectionsAreFinite DEF SectionKeysAreUnique
  <1>4. \A x, y \in Rows(request) : <<x, y>> \in Order(request) <=> id[x] < id[y]
    BY <1>1, <1>2
  <1> HIDE DEF id
  <1>5. IsOrder(Rows(request), Order(request))
    BY <1>1, <1>3, <1>4, OrderedByNumber
  <1> QED
    BY <1>1, <1>2, <1>5 DEF TablesTypeOK

ListsInv == TablesTypeOK /\ SectionKeysAreUnique /\ OrderInv /\ IdsInv

LEMMA RowsAreOrdered ==
  ASSUME ListsInv, NEW request, Walkable(request)
  PROVE  IsOrder(Rows(request), Order(request)) /\ Rows(request) \subseteq Row
  <1>1. PresentDocuments \subseteq Document /\ PresentSources \subseteq Source
    BY DEF PresentDocuments, PresentSources
  <1> QED
    BY <1>1, DocumentsAreOrdered, SourcesAreOrdered, VersionsAreOrdered, SectionsAreOrdered
    DEF Walkable, Row, ListsInv

LEMMA PageIsRanked ==
  ASSUME NEW request, NEW offset, NEW limit
  PROVE  Page(request, offset, limit)
           = Ranked(Rows(request), Order(request), offset, offset + limit - 1)
  <1>1. \A x \in Rows(request) : RowsBefore(request, x) = Below(Rows(request), Order(request), x)
    BY DEF RowsBefore, Below, Order
  <1> QED
    BY <1>1 DEF Page, Ranked, Position, Rank

-----------------------------------------------------------------------------
(* What the other processes do to the ids and to the lists.                *)
LEMMA NumberedStays ==
  ASSUME NEW S, NEW T, NEW id, NEW ids, Numbered(S, id), NEW z, T = S \/ T = S \cup {z},
         \A x \in S : ids[x] = id[x],
         \A x \in T \ S : ids[x] = Cardinality(S) + 1
  PROVE  Numbered(T, ids)
  <1>1. IsFiniteSet(S) /\ Cardinality(S) \in Nat
    BY FS_CardinalityType DEF Numbered
  <1>2. CASE T = S
    BY <1>2 DEF Numbered
  <1>3. CASE T # S
    <2>1. T = S \cup {z} /\ z \notin S /\ ids[z] = Cardinality(S) + 1
      BY <1>3
    <2>2. IsFiniteSet(T) /\ Cardinality(T) = Cardinality(S) + 1
      BY <1>1, <2>1, FS_AddElement
    <2>3. \A x \in S : ids[x] \in 1..Cardinality(S)
      BY DEF Numbered
    <2>4. \A x \in T : ids[x] \in 1..Cardinality(T)
      BY <1>1, <2>1, <2>2, <2>3
    <2>5. \A x, y \in T : ids[x] = ids[y] => x = y
      BY <1>1, <2>1, <2>3 DEF Numbered
    <2> QED
      BY <2>2, <2>4, <2>5 DEF Numbered
  <1> QED
    BY <1>2, <1>3

(* A transaction adds at most one source and one document, and deletes     *)
(* none.                                                                   *)
LEMMA AtMostOneRow ==
  ASSUME TablesTypeOK, Next
  PROVE  /\ \E s : PresentSources' = PresentSources \/ PresentSources' = PresentSources \cup {s}
         /\ \E d : PresentDocuments' = PresentDocuments
                   \/ PresentDocuments' = PresentDocuments \cup {d}
  <1>1. ASSUME NEW d \in Document, NEW st \in Status, status' = [status EXCEPT ![d] = st]
        PROVE  PresentDocuments' = PresentDocuments \cup {d}
    BY <1>1 DEF TablesTypeOK, PresentDocuments, HasRow, Status
  <1>2. ASSUME NEW s \in Source, NEW on \in {"ENABLED", "DISABLED"},
               sources' = [sources EXCEPT ![s] = on]
        PROVE  PresentSources' = PresentSources \cup {s}
    BY <1>2 DEF TablesTypeOK, PresentSources
  <1>3. status' = status => PresentDocuments' = PresentDocuments
    BY DEF PresentDocuments, HasRow
  <1>4. sources' = sources => PresentSources' = PresentSources
    BY DEF PresentSources
  <1>5. CASE Commits
    BY <1>1, <1>4, <1>5 DEF Commits, CommitDocumentRevision, UpsertDocumentRow, Status
  <1>6. CASE Observations
    BY <1>1, <1>4, <1>6 DEF Observations, UpsertDocument, UpsertDocumentRow, Status
  <1>7. CASE SourceLoads
    BY <1>2, <1>3, <1>7 DEF SourceLoads, AddSource, UpdateSource, documentRows
  <1>8. CASE RebuildSearchIndex \/ Purges
    BY <1>3, <1>4, <1>8
    DEF RebuildSearchIndex, Purges, PurgeOldDocumentVersions, documentRows
  <1> QED
    BY <1>5, <1>6, <1>7, <1>8 DEF Next

LEMMA WriteInserts ==
  ASSUME ListsInv, Write
  PROVE  /\ IdsInv'
         /\ PresentSources \subseteq PresentSources'
         /\ PresentDocuments \subseteq PresentDocuments'
         /\ \A s \in PresentSources : sourceId'[s] = sourceId[s]
         /\ \A d \in PresentDocuments : documentId'[d] = documentId[d]
         /\ \A s \in PresentSources' \ PresentSources : sourceId'[s] = Cardinality(PresentSources) + 1
         /\ \A d \in PresentDocuments' \ PresentDocuments :
              documentId'[d] = Cardinality(PresentDocuments) + 1
  <1>1. Next
    BY WriteIsNext DEF ListsInv
  <1>2. PICK s : PresentSources' = PresentSources \/ PresentSources' = PresentSources \cup {s}
    BY <1>1, AtMostOneRow DEF ListsInv
  <1>3. PICK d : \/ PresentDocuments' = PresentDocuments
                 \/ PresentDocuments' = PresentDocuments \cup {d}
    BY <1>1, AtMostOneRow DEF ListsInv
  <1>4. /\ sourceId' = [x \in Source |->
             IF sources[x] = "ABSENT" /\ sources'[x] # "ABSENT" THEN NextSourceId ELSE sourceId[x]]
        /\ documentId' = [x \in Document |->
             IF status[x] = "ABSENT" /\ status'[x] # "ABSENT" THEN NextDocumentId ELSE documentId[x]]
    BY DEF Write, Inserts
  <1>5. /\ NextSourceId = Cardinality(PresentSources) + 1
        /\ NextDocumentId = Cardinality(PresentDocuments) + 1
    BY DEF NextSourceId, NextDocumentId, PresentSources, PresentDocuments
  <1>6. /\ \A x \in PresentSources : sourceId'[x] = sourceId[x]
        /\ \A x \in PresentSources' \ PresentSources : sourceId'[x] = Cardinality(PresentSources) + 1
    BY <1>4, <1>5 DEF PresentSources
  <1>7. /\ \A x \in PresentDocuments : documentId'[x] = documentId[x]
        /\ \A x \in PresentDocuments' \ PresentDocuments :
             documentId'[x] = Cardinality(PresentDocuments) + 1
    BY <1>4, <1>5 DEF PresentDocuments, HasRow
  <1>8. Numbered(PresentSources', sourceId')
    BY <1>2, <1>6, NumberedStays DEF ListsInv, IdsInv
  <1>9. Numbered(PresentDocuments', documentId')
    <2>1. Numbered(PresentDocuments, documentId)
      BY DEF ListsInv, IdsInv
    <2>2. PICK S, T, id, ids : /\ S = PresentDocuments /\ T = PresentDocuments'
                               /\ id = documentId /\ ids = documentId'
      OBVIOUS
    <2>3. /\ Numbered(S, id) /\ (T = S \/ T = S \cup {d})
          /\ \A x \in S : ids[x] = id[x]
          /\ \A x \in T \ S : ids[x] = Cardinality(S) + 1
      BY <1>3, <1>7, <2>1, <2>2
    <2>4. Numbered(T, ids)
      BY <2>3, NumberedStays
    <2> QED
      BY <2>2, <2>4
  <1> QED
    BY <1>2, <1>3, <1>6, <1>7, <1>8, <1>9 DEF IdsInv

(* The rows that stay keep their order: ids do not change, and of versions *)
(* none in the list was fetched again.                                     *)
LEMMA WriteKeepsOrder ==
  ASSUME ListsInv, ListsInv', Write, NEW request, Walkable(request), KeepsRows(request)
  PROVE  \A x, y \in Rows(request) : <<x, y>> \in Order(request) => <<x, y>> \in Order(request)'
  <1> SUFFICES ASSUME NEW x \in Rows(request), NEW y \in Rows(request),
                      <<x, y>> \in Order(request)
               PROVE  <<x, y>> \in Order(request)'
    OBVIOUS
  <1>1. x \in Rows(request)' /\ y \in Rows(request)' /\ Before(request, x, y)
    BY DEF KeepsRows, Order
  <1>2. Before(request, x, y) => Before(request, x, y)'
    <2>1. CASE request.list = "documents"
      <3>1. x \in PresentDocuments /\ y \in PresentDocuments
        BY <2>1, DocumentsAreOrdered DEF ListsInv
      <3> QED
        BY <2>1, <3>1, WriteInserts DEF Before
    <2>2. CASE request.list = "sources"
      <3>1. x \in PresentSources /\ y \in PresentSources
        BY <2>2, SourcesAreOrdered DEF ListsInv
      <3> QED
        BY <2>2, <3>1, WriteInserts DEF Before
    <2>3. CASE request.list = "versions"
      BY <2>3 DEF Before, KeepsRows
    <2>4. CASE request.list = "sections"
      BY <2>4 DEF Before
    <2> QED
      BY <2>1, <2>2, <2>3, <2>4 DEF Walkable
  <1> QED
    BY <1>1, <1>2 DEF Order

(* Sources, and documents whatever their status, only come, each at the end*)
(* of its list.                                                            *)
LEMMA WriteOnlyAdds ==
  ASSUME ListsInv, ListsInv', Write, NEW request, Walkable(request), OnlyGrows(request)
  PROVE  /\ KeepsRows(request)
         /\ \A x \in Rows(request), y \in Rows(request)' :
              <<y, x>> \in Order(request)' => y \in Rows(request)
  <1>1. CASE request.list = "sources"
    <2>1. Rows(request) = PresentSources /\ Rows(request)' = PresentSources'
      BY <1>1 DEF Rows, Sources, PresentSources
    <2>2. \A x \in PresentSources : sourceId'[x] \in Nat /\ sourceId'[x] <= Cardinality(PresentSources)
      BY WriteInserts, NumbersAreNat DEF ListsInv, IdsInv
    <2>3. Cardinality(PresentSources) \in Nat
      BY NumbersAreNat DEF ListsInv, IdsInv
    <2>4. \A x \in Rows(request), y \in Rows(request)' :
            <<y, x>> \in Order(request)' => sourceId'[y] < sourceId'[x]
      BY <1>1 DEF Order, Before
    <2> QED
      BY <1>1, <2>1, <2>2, <2>3, <2>4, WriteInserts DEF KeepsRows
  <1>2. CASE request.list = "documents" /\ request.filter.status = None
    <2>1. Rows(request) = {d \in PresentDocuments : request.filter.source \in {None, SourceOf[d]}}
      BY <1>2 DEF Rows, Documents, MatchesFilter, PresentDocuments
    <2>2. Rows(request)' = {d \in PresentDocuments' : request.filter.source \in {None, SourceOf[d]}}
      BY <1>2 DEF Rows, Documents, MatchesFilter, PresentDocuments
    <2>3. \A x \in PresentDocuments :
            documentId'[x] \in Nat /\ documentId'[x] <= Cardinality(PresentDocuments)
      BY WriteInserts, NumbersAreNat DEF ListsInv, IdsInv
    <2>4. Cardinality(PresentDocuments) \in Nat
      BY NumbersAreNat DEF ListsInv, IdsInv
    <2>5. \A x \in Rows(request), y \in Rows(request)' :
            <<y, x>> \in Order(request)' => documentId'[y] < documentId'[x]
      BY <1>2 DEF Order, Before
    <2> QED
      BY <1>2, <2>1, <2>2, <2>3, <2>4, <2>5, WriteInserts DEF KeepsRows
  <1> QED
    BY <1>1, <1>2 DEF OnlyGrows

-----------------------------------------------------------------------------
(* The calls: what a reader's step leaves of its call and of the others.   *)
Fields == {"request", "pc", "offset", "items", "pages", "began", "counts", "found",
           "asked", "answer", "there"}

IsCall(c) == c = [f \in Fields |-> c[f]]

CallsTypeOK ==
  /\ call = [r \in Reader |-> call[r]]
  /\ \A r \in Reader : IsCall(call[r]) /\ call[r].request \in Requests

LEMMA FieldSet ==
  ASSUME NEW c, IsCall(c), NEW f \in Fields, NEW v
  PROVE  /\ IsCall([c EXCEPT ![f] = v])
         /\ [c EXCEPT ![f] = v][f] = v
         /\ \A g \in Fields \ {f} : [c EXCEPT ![f] = v][g] = c[g]
  <1> DEFINE d == [c EXCEPT ![f] = v]
  <1>1. DOMAIN c = Fields
    BY DEF IsCall
  <1>2. d = [g \in Fields |-> IF g = f THEN v ELSE c[g]]
    BY <1>1
  <1> HIDE DEF d
  <1>3. IsCall(d) /\ d[f] = v /\ \A g \in Fields \ {f} : d[g] = c[g]
    BY <1>2 DEF IsCall
  <1> QED
    BY <1>3 DEF d

(* A step of r replaces its call and no other.                             *)
LEMMA CallSet ==
  ASSUME CallsTypeOK, NEW r \in Reader, NEW c, IsCall(c), c.request = call[r].request,
         call' = [call EXCEPT ![r] = c]
  PROVE  /\ CallsTypeOK' /\ call'[r] = c
         /\ \A q \in Reader \ {r} : call'[q] = call[q]
  <1>1. DOMAIN call = Reader
    BY DEF CallsTypeOK
  <1>2. call' = [q \in Reader |-> IF q = r THEN c ELSE call[q]]
    BY <1>1
  <1> QED
    BY <1>2 DEF CallsTypeOK

LEMMA RefuseFields ==
  ASSUME CallsTypeOK, NEW r \in Reader, Refuse(r)
  PROVE  /\ CallsTypeOK' /\ \A q \in Reader \ {r} : call'[q] = call[q]
         /\ call'[r].request = call[r].request
         /\ call'[r].pc = "INVALID_ARGUMENT" /\ call'[r].offset = call[r].offset
         /\ call'[r].items = call[r].items /\ call'[r].pages = call[r].pages
         /\ call'[r].began = call[r].began
  <1>1. PICK c : c = call[r]
    OBVIOUS
  <1>2. PICK d : d = [c EXCEPT !.pc = "INVALID_ARGUMENT"]
    OBVIOUS
  <1>3. IsCall(c)
    BY <1>1 DEF CallsTypeOK
  <1>4. /\ IsCall(d) /\ d.pc = "INVALID_ARGUMENT" /\ d.request = c.request
        /\ d.offset = c.offset /\ d.items = c.items /\ d.pages = c.pages /\ d.began = c.began
    BY <1>2, <1>3, FieldSet DEF Fields
  <1>5. call' = [call EXCEPT ![r] = d]
    BY <1>1, <1>2 DEF Refuse
  <1> QED
    BY <1>1, <1>4, <1>5, CallSet

LEMMA SelectFields ==
  ASSUME CallsTypeOK, NEW r \in Reader, SelectItems(r)
  PROVE  /\ CallsTypeOK' /\ \A q \in Reader \ {r} : call'[q] = call[q]
         /\ call'[r].request = call[r].request
         /\ call'[r].pc = "total" /\ call'[r].offset = call[r].offset
         /\ call'[r].items = Page(call[r].request, call[r].offset, call[r].request.limit)
         /\ call'[r].pages = call[r].pages
         /\ call'[r].began = IF call[r].began = {} THEN {Rows(call[r].request)} ELSE call[r].began
  <1>1. PICK c : c = call[r]
    OBVIOUS
  <1>2. PICK items, began :
          /\ items = Page(call[r].request, call[r].offset, call[r].request.limit)
          /\ began = IF call[r].began = {} THEN {Rows(call[r].request)} ELSE call[r].began
    OBVIOUS
  <1>3. PICK d : d = [c EXCEPT !.pc = "total"]
    OBVIOUS
  <1>4. PICK e : e = [d EXCEPT !.items = items]
    OBVIOUS
  <1>5. PICK f : f = [e EXCEPT !.began = began]
    OBVIOUS
  <1>6. IsCall(c)
    BY <1>1 DEF CallsTypeOK
  <1>7. /\ IsCall(d) /\ d.pc = "total" /\ d.request = c.request
        /\ d.offset = c.offset /\ d.pages = c.pages /\ d.began = c.began
    BY <1>3, <1>6, FieldSet DEF Fields
  <1>8. /\ IsCall(e) /\ e.pc = "total" /\ e.request = c.request /\ e.items = items
        /\ e.offset = c.offset /\ e.pages = c.pages /\ e.began = c.began
    BY <1>4, <1>7, FieldSet DEF Fields
  <1>9. /\ IsCall(f) /\ f.pc = "total" /\ f.request = c.request /\ f.items = items
        /\ f.offset = c.offset /\ f.pages = c.pages /\ f.began = began
    BY <1>5, <1>8, FieldSet DEF Fields
  <1>10. call' = [call EXCEPT ![r] = f]
    BY <1>1, <1>2, <1>3, <1>4, <1>5, <1>8 DEF SelectItems
  <1>11. /\ CallsTypeOK' /\ call'[r] = f
         /\ \A q \in Reader \ {r} : call'[q] = call[q]
    BY <1>1, <1>9, <1>10, CallSet
  <1> QED
    BY <1>1, <1>2, <1>9, <1>11

LEMMA GoesFields ==
  ASSUME CallsTypeOK, NEW r \in Reader, NEW next, NEW page, Goes(r, next, page)
  PROVE  /\ CallsTypeOK' /\ \A q \in Reader \ {r} : call'[q] = call[q]
         /\ call'[r].request = call[r].request
         /\ call'[r].pc = IF next = {} THEN "done" ELSE "page"
         /\ call'[r].offset = IF next = {} THEN call[r].offset ELSE CHOOSE n \in next : TRUE
         /\ call'[r].items = {}
         /\ call'[r].pages = Append(call[r].pages, page)
         /\ call'[r].began = call[r].began
  <1>1. PICK c : c = call[r]
    OBVIOUS
  <1>2. PICK pc, offset, items, pages :
          /\ pc = IF next = {} THEN "done" ELSE "page"
          /\ offset = IF next = {} THEN call[r].offset ELSE CHOOSE n \in next : TRUE
          /\ items = {} /\ pages = Append(call[r].pages, page)
    OBVIOUS
  <1>3. PICK d : d = [c EXCEPT !.pc = pc]
    OBVIOUS
  <1>4. PICK e : e = [d EXCEPT !.offset = offset]
    OBVIOUS
  <1>5. PICK f : f = [e EXCEPT !.items = items]
    OBVIOUS
  <1>6. PICK g : g = [f EXCEPT !.pages = pages]
    OBVIOUS
  <1>7. IsCall(c)
    BY <1>1 DEF CallsTypeOK
  <1>8. /\ IsCall(d) /\ d.pc = pc /\ d.request = c.request
        /\ d.offset = c.offset /\ d.pages = c.pages /\ d.began = c.began
    BY <1>3, <1>7, FieldSet DEF Fields
  <1>9. /\ IsCall(e) /\ e.pc = pc /\ e.request = c.request
        /\ e.offset = offset /\ e.pages = c.pages /\ e.began = c.began
    BY <1>4, <1>8, FieldSet DEF Fields
  <1>10. /\ IsCall(f) /\ f.pc = pc /\ f.request = c.request /\ f.items = items
         /\ f.offset = offset /\ f.pages = c.pages /\ f.began = c.began
    BY <1>5, <1>9, FieldSet DEF Fields
  <1>11. /\ IsCall(g) /\ g.pc = pc /\ g.request = c.request /\ g.items = items
         /\ g.offset = offset /\ g.pages = pages /\ g.began = c.began
    BY <1>6, <1>10, FieldSet DEF Fields
  <1>12. call' = [call EXCEPT ![r] = g]
    BY <1>1, <1>2, <1>3, <1>4, <1>5, <1>6, <1>8, <1>10 DEF Goes
  <1>13. /\ CallsTypeOK' /\ call'[r] = g
         /\ \A q \in Reader \ {r} : call'[q] = call[q]
    BY <1>1, <1>11, <1>12, CallSet
  <1> QED
    BY <1>1, <1>2, <1>11, <1>13

LEMMA TooLargeFields ==
  ASSUME CallsTypeOK, NEW r \in Reader, AnswerTooLarge(r)
  PROVE  /\ CallsTypeOK' /\ \A q \in Reader \ {r} : call'[q] = call[q]
         /\ call'[r].request = call[r].request
         /\ call'[r].pc = "RESPONSE_TOO_LARGE" /\ call'[r].offset = call[r].offset
         /\ call'[r].items = {} /\ call'[r].pages = call[r].pages
         /\ call'[r].began = call[r].began
  <1>1. PICK c : c = call[r]
    OBVIOUS
  <1>2. PICK items : items = {}
    OBVIOUS
  <1>3. PICK d : d = [c EXCEPT !.pc = "RESPONSE_TOO_LARGE"]
    OBVIOUS
  <1>4. PICK e : e = [d EXCEPT !.items = items]
    OBVIOUS
  <1>5. IsCall(c)
    BY <1>1 DEF CallsTypeOK
  <1>6. /\ IsCall(d) /\ d.pc = "RESPONSE_TOO_LARGE" /\ d.request = c.request
        /\ d.offset = c.offset /\ d.pages = c.pages /\ d.began = c.began
    BY <1>3, <1>5, FieldSet DEF Fields
  <1>7. /\ IsCall(e) /\ e.pc = "RESPONSE_TOO_LARGE" /\ e.request = c.request
        /\ e.items = items /\ e.offset = c.offset /\ e.pages = c.pages /\ e.began = c.began
    BY <1>4, <1>6, FieldSet DEF Fields
  <1>8. call' = [call EXCEPT ![r] = e]
    BY <1>1, <1>2, <1>3, <1>4 DEF AnswerTooLarge
  <1> QED
    BY <1>1, <1>2, <1>7, <1>8, CallSet

(* The steps of the other calls leave the walks alone.                     *)
NotAWalk == {"summary", "fts", "like", "found", "by_id"}

KeepsOtherCalls(r) ==
  /\ CallsTypeOK' /\ \A q \in Reader \ {r} : call'[q] = call[q]
  /\ call'[r].request = call[r].request

LEMMA SameRequest ==
  ASSUME NEW c, IsCall(c), NEW f \in Fields, f # "request", NEW v
  PROVE  IsCall([c EXCEPT ![f] = v]) /\ [c EXCEPT ![f] = v].request = c.request
  <1>1. "request" \in Fields \ {f}
    BY DEF Fields
  <1> QED
    BY <1>1, FieldSet

LEMMA SummarizeFields ==
  ASSUME CallsTypeOK, NEW r \in Reader, Summarize(r)
  PROVE  KeepsOtherCalls(r)
  <1>1. PICK c : c = call[r]
    OBVIOUS
  <1>2. PICK counts : counts = Append(call[r].counts, SummaryCount(Len(call[r].counts) + 1))
    OBVIOUS
  <1>3. PICK d : d = [c EXCEPT !["counts"] = counts]
    OBVIOUS
  <1>4. PICK pc : pc = IF Len(counts) = 5 THEN "done" ELSE d.pc
    OBVIOUS
  <1>5. PICK e : e = [d EXCEPT !["pc"] = pc]
    OBVIOUS
  <1>6. IsCall(c)
    BY <1>1 DEF CallsTypeOK
  <1>7. "counts" \in Fields /\ "pc" \in Fields /\ "counts" # "request" /\ "pc" # "request"
    BY DEF Fields
  <1>8. IsCall(d) /\ d.request = c.request
    BY <1>3, <1>6, <1>7, SameRequest
  <1>9. IsCall(e) /\ e.request = c.request
    BY <1>5, <1>7, <1>8, SameRequest
  <1>10. call' = [call EXCEPT ![r] = e]
    BY <1>1, <1>2, <1>3, <1>4, <1>5 DEF Summarize
  <1> QED
    BY <1>1, <1>9, <1>10, CallSet DEF KeepsOtherCalls

LEMMA FoundFields ==
  ASSUME CallsTypeOK, NEW r \in Reader, NEW hits, Found(r, hits)
  PROVE  KeepsOtherCalls(r)
  <1>1. PICK c : c = call[r]
    OBVIOUS
  <1>2. PICK d : d = [c EXCEPT !["pc"] = "found"]
    OBVIOUS
  <1>3. PICK e : e = [d EXCEPT !["found"] = hits]
    OBVIOUS
  <1>4. IsCall(c)
    BY <1>1 DEF CallsTypeOK
  <1>5. "found" \in Fields /\ "pc" \in Fields /\ "found" # "request" /\ "pc" # "request"
    BY DEF Fields
  <1>6. IsCall(d) /\ d.request = c.request
    BY <1>2, <1>4, <1>5, SameRequest
  <1>7. IsCall(e) /\ e.request = c.request
    BY <1>3, <1>5, <1>6, SameRequest
  <1>8. call' = [call EXCEPT ![r] = e]
    BY <1>1, <1>2, <1>3 DEF Found
  <1> QED
    BY <1>1, <1>7, <1>8, CallSet DEF KeepsOtherCalls

LEMMA GoesToLike ==
  ASSUME CallsTypeOK, NEW r \in Reader, NEW pc, call' = [call EXCEPT ![r].pc = pc]
  PROVE  KeepsOtherCalls(r)
  <1>1. PICK c : c = call[r]
    OBVIOUS
  <1>2. PICK d : d = [c EXCEPT !["pc"] = pc]
    OBVIOUS
  <1>3. IsCall(c)
    BY <1>1 DEF CallsTypeOK
  <1>4. "pc" \in Fields /\ "pc" # "request"
    BY DEF Fields
  <1>5. IsCall(d) /\ d.request = c.request
    BY <1>2, <1>3, <1>4, SameRequest
  <1>6. call' = [call EXCEPT ![r] = d]
    BY <1>1, <1>2
  <1> QED
    BY <1>1, <1>5, <1>6, CallSet DEF KeepsOtherCalls

LEMMA ReadSectionFields ==
  ASSUME CallsTypeOK, NEW r \in Reader, ReadDocSection(r)
  PROVE  KeepsOtherCalls(r)
  <1>1. PICK c : c = call[r]
    OBVIOUS
  <1>2. PICK hit \in call[r].found :
          LET current == {s \in sections : s.id = hit.id /\ IsCurrentSection(s)}
          IN  call' = [call EXCEPT ![r].pc = "read", ![r].asked = {hit},
                         ![r].answer = {ShownOf(s, call[r].request.max) : s \in current}]
    BY DEF ReadDocSection
  <1>3. PICK asked, answer :
          /\ asked = {hit}
          /\ answer = {ShownOf(s, call[r].request.max) :
                         s \in {x \in sections : x.id = hit.id /\ IsCurrentSection(x)}}
    OBVIOUS
  <1>4. PICK d : d = [c EXCEPT !["pc"] = "read"]
    OBVIOUS
  <1>5. PICK e : e = [d EXCEPT !["asked"] = asked]
    OBVIOUS
  <1>6. PICK f : f = [e EXCEPT !["answer"] = answer]
    OBVIOUS
  <1>7. IsCall(c)
    BY <1>1 DEF CallsTypeOK
  <1>8. /\ "asked" \in Fields /\ "pc" \in Fields /\ "answer" \in Fields
        /\ "asked" # "request" /\ "pc" # "request" /\ "answer" # "request"
    BY DEF Fields
  <1>9. IsCall(d) /\ d.request = c.request
    BY <1>4, <1>7, <1>8, SameRequest
  <1>10. IsCall(e) /\ e.request = c.request
    BY <1>5, <1>8, <1>9, SameRequest
  <1>11. IsCall(f) /\ f.request = c.request
    BY <1>6, <1>8, <1>10, SameRequest
  <1>12. call' = [call EXCEPT ![r] = f]
    BY <1>1, <1>2, <1>3, <1>4, <1>5, <1>6
  <1> QED
    BY <1>1, <1>11, <1>12, CallSet DEF KeepsOtherCalls

LEMMA ReadByIdFields ==
  ASSUME CallsTypeOK, NEW r \in Reader, ReadById(r)
  PROVE  KeepsOtherCalls(r)
  <1>1. CASE call[r].request.valid
    <2>1. PICK c : c = call[r]
      OBVIOUS
    <2>2. PICK there : there = IsThere(call[r].request)
      OBVIOUS
    <2>3. PICK d : d = [c EXCEPT !["pc"] = "done"]
      OBVIOUS
    <2>4. PICK e : e = [d EXCEPT !["there"] = there]
      OBVIOUS
    <2>5. IsCall(c)
      BY <2>1 DEF CallsTypeOK
    <2>6. "there" \in Fields /\ "pc" \in Fields /\ "there" # "request" /\ "pc" # "request"
      BY DEF Fields
    <2>7. IsCall(d) /\ d.request = c.request
      BY <2>3, <2>5, <2>6, SameRequest
    <2>8. IsCall(e) /\ e.request = c.request
      BY <2>4, <2>6, <2>7, SameRequest
    <2>9. call' = [call EXCEPT ![r] = e]
      BY <1>1, <2>1, <2>2, <2>3, <2>4 DEF ReadById
    <2> QED
      BY <2>1, <2>8, <2>9, CallSet DEF KeepsOtherCalls
  <1>2. CASE ~call[r].request.valid
    BY <1>2, GoesToLike DEF ReadById
  <1> QED
    BY <1>1, <1>2

OtherStep(r) ==
  \/ Summarize(r) \/ SearchWithFts(r) \/ SearchWithLike(r)
  \/ ReadDocSection(r) \/ ReadById(r)

LEMMA OtherFields ==
  ASSUME CallsTypeOK, NEW r \in Reader, OtherStep(r)
  PROVE  /\ KeepsOtherCalls(r)
         /\ call[r].pc \in NotAWalk
         /\ UNCHANGED <<vars, rowIds, steady>>
  <1>1. CASE Summarize(r)
    BY <1>1, SummarizeFields DEF Summarize, NotAWalk
  <1>2. CASE SearchWithFts(r)
    <2>1. KeepsOtherCalls(r)
      BY <1>2, FoundFields, GoesToLike DEF SearchWithFts
    <2> QED
      BY <1>2, <2>1 DEF SearchWithFts, NotAWalk
  <1>3. CASE SearchWithLike(r)
    <2>1. KeepsOtherCalls(r)
      BY <1>3, FoundFields DEF SearchWithLike
    <2> QED
      BY <1>3, <2>1 DEF SearchWithLike, NotAWalk
  <1>4. CASE ReadDocSection(r)
    BY <1>4, ReadSectionFields DEF ReadDocSection, NotAWalk
  <1>5. CASE ReadById(r)
    BY <1>5, ReadByIdFields DEF ReadById, NotAWalk
  <1> QED
    BY <1>1, <1>2, <1>3, <1>4, <1>5 DEF OtherStep

-----------------------------------------------------------------------------
(* The invariant of the walks.                                             *)
WalkIs(c, isSteady, R, lt) ==
  /\ WalkShape(c)
  /\ isSteady => SteadyWalk(c, R, lt)
  /\ OnlyGrows(c.request) => FreshWalk(c, R, lt)

WalkInv(r) ==
  WalkIs(call[r], steady[r], Rows(call[r].request), Order(call[r].request))

WalksInv == \A r \in Reader : IsWalk(call[r].request) => WalkInv(r)

ReadsInv ==
  /\ PartInv
  /\ CallsTypeOK
  /\ IF part = "reads" THEN IdsInv /\ WalksInv
     ELSE \A r \in Reader : ~IsWalk(call[r].request)

LEMMA RequestsAreWalkable ==
  ASSUME NEW request \in Requests, IsWalk(request)
  PROVE  Walkable(request)
  BY CatalogAssumption DEF Walkable

LEMMA ListsUnchanged ==
  ASSUME UNCHANGED <<vars, rowIds>>, NEW request
  PROVE  Rows(request)' = Rows(request) /\ Order(request)' = Order(request)
  <1>1. UNCHANGED <<sources, status, currentVersion, stored, isCurrent, newer, sections,
                    sourceId, documentId>>
    BY DEF vars, documentRows, versionRows, rowIds
  <1>2. \A filter : Documents(filter)' = Documents(filter)
    BY <1>1 DEF Documents, HasRow, MatchesFilter
  <1>3. \A enabled : Sources(enabled)' = Sources(enabled)
    BY <1>1 DEF Sources
  <1>4. \A d : Versions(d)' = Versions(d)
    BY <1>1 DEF Versions
  <1>5. \A filter : CurrentSections(filter)' = CurrentSections(filter)
    BY <1>1 DEF CurrentSections, IsCurrentSection, MatchesFilter
  <1>6. Rows(request)' = Rows(request)
    BY <1>2, <1>3, <1>4, <1>5 DEF Rows
  <1>7. \A x, y : Before(request, x, y)' <=> Before(request, x, y)
    BY <1>1 DEF Before
  <1> QED
    BY <1>6, <1>7 DEF Order

LEMMA WalkAfter ==
  ASSUME NEW r, NEW q, call'[r].request = q, NEW S, NEW mt, S = Rows(q)', mt = Order(q)',
         WalkIs(call'[r], steady'[r], S, mt)
  PROVE  WalkInv(r)'
  BY DEF WalkInv

LEMMA WalkUnchanged ==
  ASSUME NEW r, call'[r] = call[r], UNCHANGED <<vars, rowIds, steady>>, WalkInv(r)
  PROVE  WalkInv(r)'
  <1>1. PICK q : q = call[r].request
    OBVIOUS
  <1>2. Rows(q)' = Rows(q) /\ Order(q)' = Order(q)
    BY ListsUnchanged
  <1>3. WalkIs(call'[r], steady'[r], Rows(q), Order(q))
    BY <1>1 DEF WalkInv
  <1> QED
    BY <1>1, <1>2, <1>3, WalkAfter

(* What a list_docs call keeps of a page is the first part of it.          *)
LEMMA AcceptedIsFirst ==
  ASSUME NEW r, NEW R, NEW lt, IsOrder(R, lt), R = Rows(call[r].request),
         lt = Order(call[r].request)
  PROVE  /\ Accepted(r) \subseteq call[r].items
         /\ call[r].items \subseteq R =>
              \A x \in Accepted(r), y \in call[r].items : <<y, x>> \in lt => y \in Accepted(r)
  <1>1. Accepted(r) \subseteq call[r].items
    BY DEF Accepted
  <1>2. ASSUME call[r].items \subseteq R, NEW x \in Accepted(r), NEW y \in call[r].items,
               <<y, x>> \in lt
        PROVE  y \in Accepted(r)
    <2>1. \A w, z \in call[r].items : <<w, z>> \in lt <=> Before(call[r].request, w, z)
      BY <1>2 DEF Order
    <2>2. UpTo(r, y) \subseteq UpTo(r, x)
      <3> SUFFICES ASSUME NEW z \in UpTo(r, y) PROVE z \in UpTo(r, x)
        OBVIOUS
      <3>1. z \in call[r].items /\ (z = y \/ <<z, y>> \in lt)
        BY <2>1, <1>2 DEF UpTo
      <3>2. <<z, x>> \in lt
        BY <1>1, <1>2, <3>1 DEF IsOrder
      <3> QED
        BY <1>1, <1>2, <2>1, <3>1, <3>2 DEF UpTo
    <2> QED
      BY <1>2, <2>2 DEF Accepted
  <1> QED
    BY <1>1, <1>2

LEMMA NextOffsetIs ==
  ASSUME NEW offset \in Nat, NEW page, IsFiniteSet(page), NEW total \in Nat
  PROVE  \/ /\ offset + Cardinality(page) < total
            /\ NextOffset(offset, page, total) # {}
            /\ (CHOOSE n \in NextOffset(offset, page, total) : TRUE) = offset + Cardinality(page)
         \/ /\ ~(offset + Cardinality(page) < total)
            /\ NextOffset(offset, page, total) = {}
  <1>1. PICK n : n = offset + Cardinality(page)
    OBVIOUS
  <1>2. (CHOOSE m \in {n} : TRUE) = n
    OBVIOUS
  <1> QED
    BY <1>1, <1>2 DEF NextOffset

(* The walk of r, taken a step further by r itself.                        *)
LEMMA AnswerStep ==
  ASSUME ListsInv, CallsTypeOK, NEW r \in Reader, WalkInv(r), call[r].pc = "total",
         Walkable(call[r].request),
         NEW page, page \subseteq call[r].items,
         call[r].items \subseteq Rows(call[r].request) =>
           \A x \in page, y \in call[r].items :
             <<y, x>> \in Order(call[r].request) => y \in page,
         Goes(r, NextOffset(call[r].offset, page, Cardinality(Rows(call[r].request))), page),
         UNCHANGED <<vars, rowIds, steady>>
  PROVE  KeepsOtherCalls(r) /\ WalkInv(r)'
  <1>1. PICK c, d, q, R, lt :
          c = call[r] /\ d = call'[r] /\ q = c.request /\ R = Rows(q) /\ lt = Order(q)
    OBVIOUS
  <1>2. IsOrder(R, lt)
    BY <1>1, RowsAreOrdered
  <1>3. WalkShape(c) /\ WalkIs(c, steady[r], R, lt)
    BY <1>1 DEF WalkInv, WalkIs
  <1>4. /\ c.offset \in Nat /\ IsFiniteSet(page) /\ Cardinality(R) \in Nat
    <2>1. c.offset \in Nat /\ IsFiniteSet(c.items) /\ page \in SUBSET c.items
      BY <1>1, <1>3 DEF WalkShape
    <2> QED
      BY <1>2, <2>1, FS_Subset, FS_CardinalityType DEF IsOrder
  <1>5. PICK next : next = NextOffset(c.offset, page, Cardinality(R))
    OBVIOUS
  <1>6. Goes(r, next, page)
    BY <1>1, <1>5
  <1>7. /\ KeepsOtherCalls(r)
        /\ d.request = q
        /\ d.pc = IF next = {} THEN "done" ELSE "page"
        /\ d.offset = IF next = {} THEN c.offset ELSE CHOOSE n \in next : TRUE
        /\ d.items = {} /\ d.pages = Append(c.pages, page) /\ d.began = c.began
    BY <1>1, <1>6, GoesFields DEF KeepsOtherCalls
  <1>8. \/ /\ c.offset + Cardinality(page) < Cardinality(R)
           /\ d.pc = "page" /\ d.offset = c.offset + Cardinality(page)
        \/ /\ ~(c.offset + Cardinality(page) < Cardinality(R))
           /\ d.pc = "done" /\ d.offset = c.offset
    BY <1>4, <1>5, <1>7, NextOffsetIs
  <1>9. c.items \subseteq R => \A x \in page, y \in c.items : <<y, x>> \in lt => y \in page
    BY <1>1
  <1>10. /\ WalkShape(d)
         /\ SteadyWalk(c, R, lt) => SteadyWalk(d, R, lt)
         /\ FreshWalk(c, R, lt) => FreshWalk(d, R, lt)
    <2>1. c.pc = "total" /\ page \subseteq c.items
      BY <1>1
    <2> QED
      BY <1>2, <1>3, <1>7, <1>8, <1>9, <2>1, AnswerKeepsWalk
  <1>11. WalkIs(d, steady'[r], R, lt)
    BY <1>1, <1>3, <1>7, <1>10 DEF WalkIs
  <1>12. Rows(q)' = R /\ Order(q)' = lt
    BY <1>1, ListsUnchanged
  <1> QED
    BY <1>1, <1>7, <1>11, <1>12, WalkAfter

(* A call refused or too large ends, its pages as they are.                *)
LEMMA EndKeepsWalk ==
  ASSUME NEW c, NEW d, NEW R, NEW lt, WalkShape(c),
         d.pc \in {"INVALID_ARGUMENT", "RESPONSE_TOO_LARGE"}, d.offset = c.offset,
         d.items = {} \/ d.items = c.items, d.pages = c.pages, d.began = c.began
  PROVE  /\ WalkShape(d)
         /\ SteadyWalk(c, R, lt) => SteadyWalk(d, R, lt)
         /\ FreshWalk(c, R, lt) => FreshWalk(d, R, lt)
  <1>1. WalkShape(d)
    BY FS_EmptySet DEF WalkShape
  <1>2. d.pc # "page" /\ d.pc # "total" /\ d.pc # "done"
    OBVIOUS
  <1> QED
    BY <1>1, <1>2 DEF SteadyWalk, FreshWalk

LEMMA EndStep ==
  ASSUME NEW r \in Reader, WalkInv(r), KeepsOtherCalls(r),
         call'[r].pc \in {"INVALID_ARGUMENT", "RESPONSE_TOO_LARGE"},
         call'[r].offset = call[r].offset,
         call'[r].items = {} \/ call'[r].items = call[r].items,
         call'[r].pages = call[r].pages, call'[r].began = call[r].began,
         UNCHANGED <<vars, rowIds, steady>>
  PROVE  WalkInv(r)'
  <1>1. PICK c, d, q, R, lt :
          c = call[r] /\ d = call'[r] /\ q = c.request /\ R = Rows(q) /\ lt = Order(q)
    OBVIOUS
  <1>2. WalkShape(c) /\ WalkIs(c, steady[r], R, lt)
    BY <1>1 DEF WalkInv, WalkIs
  <1>3. /\ WalkShape(d)
        /\ SteadyWalk(c, R, lt) => SteadyWalk(d, R, lt)
        /\ FreshWalk(c, R, lt) => FreshWalk(d, R, lt)
    BY <1>1, <1>2, EndKeepsWalk
  <1>4. d.request = q
    BY <1>1 DEF KeepsOtherCalls
  <1>5. WalkIs(d, steady'[r], R, lt)
    BY <1>1, <1>2, <1>3, <1>4 DEF WalkIs
  <1>6. Rows(q)' = R /\ Order(q)' = lt
    BY <1>1, ListsUnchanged
  <1> QED
    BY <1>1, <1>4, <1>5, <1>6, WalkAfter

LEMMA SelectStep ==
  ASSUME ListsInv, CallsTypeOK, NEW r \in Reader, WalkInv(r), Walkable(call[r].request),
         SelectItems(r)
  PROVE  KeepsOtherCalls(r) /\ WalkInv(r)'
  <1>1. PICK c, d, q, R, lt, limit :
          /\ c = call[r] /\ d = call'[r] /\ q = c.request /\ R = Rows(q) /\ lt = Order(q)
          /\ limit = q.limit
    OBVIOUS
  <1>2. IsOrder(R, lt) /\ R \subseteq Row
    BY <1>1, RowsAreOrdered
  <1>3. WalkShape(c) /\ WalkIs(c, steady[r], R, lt)
    BY <1>1 DEF WalkInv, WalkIs
  <1>4. c.pc = "page" /\ limit \in Nat /\ limit > 0
    <2>1. limit \in 1..MaxPageSize /\ c.pc = "page"
      BY <1>1 DEF SelectItems, ValidPage
    <2> QED
      BY <2>1
  <1>5. UNCHANGED <<vars, rowIds, steady>>
    BY DEF SelectItems
  <1>6. /\ KeepsOtherCalls(r)
        /\ d.request = q
        /\ d.pc = "total" /\ d.offset = c.offset
        /\ d.items = Page(q, c.offset, limit) /\ d.pages = c.pages
        /\ d.began = IF c.began = {} THEN {R} ELSE c.began
    BY <1>1, SelectFields DEF KeepsOtherCalls
  <1>7. d.items = Ranked(R, lt, c.offset, c.offset + limit - 1)
    BY <1>1, <1>6, PageIsRanked
  <1>8. /\ WalkShape(d)
        /\ SteadyWalk(c, R, lt) => SteadyWalk(d, R, lt)
        /\ FreshWalk(c, R, lt) => FreshWalk(d, R, lt)
    BY <1>2, <1>3, <1>4, <1>6, <1>7, SelectKeepsWalk
  <1>9. WalkIs(d, steady'[r], R, lt)
    BY <1>1, <1>3, <1>5, <1>6, <1>8 DEF WalkIs
  <1>10. Rows(q)' = R /\ Order(q)' = lt
    BY <1>1, <1>5, ListsUnchanged
  <1> QED
    BY <1>1, <1>6, <1>9, <1>10, WalkAfter

LEMMA OwnStepKeepsWalk ==
  ASSUME ListsInv, CallsTypeOK, NEW r \in Reader, IsWalk(call[r].request), WalkInv(r),
         Refuse(r) \/ SelectItems(r) \/ ListDocs(r) \/ ReadResource(r)
  PROVE  KeepsOtherCalls(r) /\ UNCHANGED <<vars, rowIds, steady>> /\ WalkInv(r)'
  <1>1. UNCHANGED <<vars, rowIds, steady>>
    BY DEF Refuse, SelectItems, ListDocs, ReadResource
  <1>2. Walkable(call[r].request)
    BY RequestsAreWalkable DEF CallsTypeOK
  <1>3. CASE Refuse(r)
    <2>1. KeepsOtherCalls(r)
      BY <1>3, RefuseFields DEF KeepsOtherCalls
    <2> QED
      BY <1>1, <1>3, <2>1, RefuseFields, EndStep
  <1>4. CASE SelectItems(r)
    BY <1>1, <1>2, <1>4, SelectStep
  <1>5. ASSUME AnswerTooLarge(r)
        PROVE  KeepsOtherCalls(r) /\ WalkInv(r)'
    <2>1. KeepsOtherCalls(r)
      BY <1>5, TooLargeFields DEF KeepsOtherCalls
    <2> QED
      BY <1>1, <1>5, <2>1, TooLargeFields, EndStep
  <1>6. CASE ListDocs(r)
    <2>1. call[r].pc = "total"
      BY <1>6 DEF ListDocs
    <2>2. \/ AnswerTooLarge(r)
          \/ Goes(r, NextOffset(call[r].offset, Accepted(r), Cardinality(Rows(call[r].request))),
                  Accepted(r))
      BY <1>6 DEF ListDocs
    <2>3. PICK page : page = Accepted(r)
      OBVIOUS
    <2>4. /\ page \subseteq call[r].items
          /\ call[r].items \subseteq Rows(call[r].request) =>
               \A x \in page, y \in call[r].items :
                 <<y, x>> \in Order(call[r].request) => y \in page
      BY <1>2, <2>3, AcceptedIsFirst, RowsAreOrdered
    <2> QED
      BY <1>1, <1>2, <1>5, <2>1, <2>2, <2>3, <2>4, AnswerStep
  <1>7. CASE ReadResource(r)
    <2>1. call[r].pc = "total"
      BY <1>7 DEF ReadResource
    <2>2. \/ AnswerTooLarge(r)
          \/ Goes(r, NextOffset(call[r].offset, call[r].items, Cardinality(Rows(call[r].request))),
                  call[r].items)
      BY <1>7 DEF ReadResource
    <2>3. PICK page : page = call[r].items
      OBVIOUS
    <2> QED
      BY <1>1, <1>2, <1>5, <2>1, <2>2, <2>3, AnswerStep
  <1> QED
    BY <1>1, <1>3, <1>4, <1>6, <1>7

(* The walk of r between the writes of others.                             *)
LEMMA ListsAreOrdered ==
  ListsInv => \A request : Walkable(request) => IsOrder(Rows(request), Order(request))
  BY RowsAreOrdered

LEMMA WriteKeepsWalk ==
  ASSUME ListsInv, ListsInv', CallsTypeOK, NEW r \in Reader, IsWalk(call[r].request),
         WalkInv(r), Write
  PROVE  WalkInv(r)'
  <1>1. PICK c, q, R, lt, S, mt :
          /\ c = call[r] /\ q = c.request /\ R = Rows(q) /\ lt = Order(q)
          /\ S = Rows(q)' /\ mt = Order(q)'
    OBVIOUS
  <1>2. Walkable(q)
    BY <1>1, RequestsAreWalkable DEF CallsTypeOK
  <1>3. IsOrder(R, lt)
    BY <1>1, <1>2, RowsAreOrdered
  <1>4. IsOrder(S, mt)
    <2>1. (ListsInv => \A request : Walkable(request) => IsOrder(Rows(request), Order(request)))'
      BY ListsAreOrdered, PTL
    <2>2. Walkable(q)'
      BY <1>2 DEF Walkable
    <2> QED
      BY <1>1, <2>1, <2>2
  <1>5. WalkShape(c) /\ WalkIs(c, steady[r], R, lt)
    BY <1>1 DEF WalkInv, WalkIs
  <1>6. call' = call /\ (steady'[r] <=> steady[r] /\ (Walks(r) => KeepsRows(call[r].request)))
    BY DEF Write
  <1>7. KeepsRows(q) => R \subseteq S /\ \A x, y \in R : <<x, y>> \in lt => <<x, y>> \in mt
    BY <1>1, <1>2, WriteKeepsOrder DEF KeepsRows
  <1>8. ASSUME steady'[r] PROVE SteadyWalk(c, S, mt)
    <2>1. SteadyWalk(c, R, lt)
      BY <1>5, <1>6, <1>8 DEF WalkIs
    <2>2. CASE c.began = {}
      BY <1>5, <2>2 DEF SteadyWalk, WalkShape
    <2>3. CASE c.began # {}
      <3>1. KeepsRows(q)
        BY <1>1, <1>6, <1>8, <2>3 DEF Walks
      <3> QED
        BY <1>3, <1>4, <1>5, <1>7, <2>1, <3>1, WriteKeepsSteady
    <2> QED
      BY <2>2, <2>3
  <1>9. ASSUME OnlyGrows(q) PROVE FreshWalk(c, S, mt)
    <2>1. KeepsRows(q) /\ \A x \in R, y \in S : <<y, x>> \in mt => y \in R
      BY <1>1, <1>2, <1>9, WriteOnlyAdds
    <2>2. R \subseteq S /\ \A x, y \in R : <<x, y>> \in lt <=> <<x, y>> \in mt
      BY <1>3, <1>4, <1>7, <2>1, OrderIsKept
    <2>3. FreshWalk(c, R, lt)
      BY <1>1, <1>5, <1>9 DEF WalkIs
    <2> QED
      BY <2>1, <2>2, <2>3, WriteKeepsFresh
  <1>10. WalkIs(call'[r], steady'[r], S, mt)
    BY <1>1, <1>5, <1>6, <1>8, <1>9 DEF WalkIs
  <1> QED
    BY <1>1, <1>6, <1>10, WalkAfter

-----------------------------------------------------------------------------
LEMMA WalksAreNotOther ==
  ASSUME NEW r \in Reader, WalkInv(r), call[r].pc \in NotAWalk
  PROVE  FALSE
  BY DEF WalkInv, WalkIs, WalkShape, NotAWalk

LEMMA ListsFromPart == PartInv /\ IdsInv => ListsInv
  BY DEF PartInv, LegacyInv, TablesInv, ListsInv

LEMMA OwnStepKeepsCalls ==
  ASSUME CallsTypeOK, NEW r \in Reader,
         Refuse(r) \/ SelectItems(r) \/ ListDocs(r) \/ ReadResource(r)
  PROVE  KeepsOtherCalls(r) /\ UNCHANGED <<vars, rowIds, steady>>
  <1>1. UNCHANGED <<vars, rowIds, steady>>
    BY DEF Refuse, SelectItems, ListDocs, ReadResource
  <1>2. ASSUME NEW page, NEW next, Goes(r, next, page) PROVE KeepsOtherCalls(r)
    BY <1>2, GoesFields DEF KeepsOtherCalls
  <1>3. ASSUME AnswerTooLarge(r) PROVE KeepsOtherCalls(r)
    BY <1>3, TooLargeFields DEF KeepsOtherCalls
  <1>4. CASE Refuse(r)
    BY <1>1, <1>4, RefuseFields DEF KeepsOtherCalls
  <1>5. CASE SelectItems(r)
    BY <1>1, <1>5, SelectFields DEF KeepsOtherCalls
  <1>6. CASE ListDocs(r)
    BY <1>1, <1>2, <1>3, <1>6 DEF ListDocs
  <1>7. CASE ReadResource(r)
    BY <1>1, <1>2, <1>3, <1>7 DEF ReadResource
  <1> QED
    BY <1>4, <1>5, <1>6, <1>7

LEMMA ReadsStepKeepsWalks ==
  ASSUME ReadsInv, PartInv', part = "reads", ReadsNext
  PROVE  CallsTypeOK' /\ IdsInv' /\ WalksInv'
  <1>1. ListsInv /\ CallsTypeOK /\ WalksInv /\ IdsInv
    BY ListsFromPart DEF ReadsInv
  <1>2. CASE Write
    <2>1. call' = call
      BY <1>2 DEF Write
    <2>2. IdsInv'
      BY <1>1, <1>2, WriteInserts
    <2>3. ListsInv'
      <3>1. (PartInv /\ IdsInv => ListsInv)'
        BY ListsFromPart, PTL
      <3> QED
        BY <2>2, <3>1
    <2>4. CallsTypeOK'
      BY <1>1, <2>1 DEF CallsTypeOK
    <2>5. ASSUME NEW r \in Reader, IsWalk(call[r].request) PROVE WalkInv(r)'
      BY <1>1, <1>2, <2>3, <2>5, WriteKeepsWalk DEF WalksInv
    <2> QED
      BY <2>1, <2>2, <2>4, <2>5 DEF WalksInv
  <1>3. ASSUME NEW r \in Reader,
               \/ Refuse(r) \/ SelectItems(r) \/ ListDocs(r) \/ ReadResource(r)
               \/ OtherStep(r)
        PROVE  CallsTypeOK' /\ IdsInv' /\ WalksInv'
    <2>1. KeepsOtherCalls(r) /\ UNCHANGED <<vars, rowIds, steady>>
      BY <1>1, <1>3, OwnStepKeepsCalls, OtherFields
    <2>2. ASSUME IsWalk(call[r].request) PROVE WalkInv(r)'
      <3>1. WalkInv(r)
        BY <1>1, <2>2 DEF WalksInv
      <3>2. CASE OtherStep(r)
        BY <1>1, <3>1, <3>2, OtherFields, WalksAreNotOther
      <3>3. CASE Refuse(r) \/ SelectItems(r) \/ ListDocs(r) \/ ReadResource(r)
        BY <1>1, <2>2, <3>1, <3>3, OwnStepKeepsWalk
      <3> QED
        BY <1>3, <3>2, <3>3
    <2>3. ASSUME NEW q \in Reader \ {r}, IsWalk(call[q].request) PROVE WalkInv(q)'
      <3>1. call'[q] = call[q] /\ WalkInv(q)
        BY <1>1, <2>1, <2>3 DEF KeepsOtherCalls, WalksInv
      <3> QED
        BY <2>1, <3>1, WalkUnchanged
    <2>4. \A q \in Reader : call'[q].request = call[q].request
      BY <2>1 DEF KeepsOtherCalls
    <2>5. WalksInv'
      BY <2>2, <2>3, <2>4 DEF WalksInv
    <2>6. IdsInv'
      <3>1. UNCHANGED <<sources, status, sourceId, documentId>>
        BY <2>1 DEF vars, documentRows, rowIds
      <3> QED
        BY <1>1, <3>1 DEF IdsInv, PresentSources, PresentDocuments, HasRow
    <2> QED
      BY <2>1, <2>5, <2>6 DEF KeepsOtherCalls
  <1> QED
    BY <1>2, <1>3 DEF ReadsNext, OtherStep

LEMMA ReadsInvStep == ReadsInv /\ [MCNext]_<<part, vars, readVars, verifyVars>> => ReadsInv'
  <1> SUFFICES ASSUME ReadsInv, [MCNext]_<<part, vars, readVars, verifyVars>> PROVE ReadsInv'
    OBVIOUS
  <1>1. PartInv' /\ part' = part
    BY PartInvStep DEF ReadsInv, MCNext
  <1>2. CASE part = "reads" /\ ReadsNext
    BY <1>1, <1>2, ReadsStepKeepsWalks DEF ReadsInv
  <1>3. CASE UNCHANGED readVars /\ part # "reads"
    <2>1. call' = call
      BY <1>3 DEF readVars
    <2> QED
      BY <1>1, <1>3, <2>1 DEF ReadsInv, CallsTypeOK, IsCall
  <1>4. CASE UNCHANGED <<vars, readVars>> /\ part = "reads"
    <2>1. call' = call /\ UNCHANGED <<vars, rowIds, steady>>
      BY <1>4 DEF readVars
    <2>2. IdsInv'
      BY <1>4, <2>1 DEF ReadsInv, IdsInv, PresentSources, PresentDocuments, HasRow, vars,
                        documentRows, rowIds
    <2>3. WalksInv'
      BY <1>4, <2>1, WalkUnchanged DEF ReadsInv, WalksInv
    <2> QED
      BY <1>1, <1>4, <2>1, <2>2, <2>3 DEF ReadsInv, CallsTypeOK
  <1> QED
    BY <1>2, <1>3, <1>4 DEF MCNext

-----------------------------------------------------------------------------
LEMMA AskedFields ==
  ASSUME NEW request, NEW c, c = Asked(request)
  PROVE  /\ IsCall(c) /\ c.request = request /\ c.pc = FirstStep(request)
         /\ c.offset = 0 /\ c.items = {} /\ c.pages = <<>> /\ c.began = {}
  BY DEF Asked, IsCall, Fields

LEMMA NewWalk ==
  ASSUME NEW c, NEW R, NEW lt, c.pc = "page", c.offset = 0, c.items = {}, c.pages = <<>>,
         c.began = {}
  PROVE  WalkShape(c) /\ SteadyWalk(c, R, lt) /\ FreshWalk(c, R, lt)
  <1>1. c.pages \in Seq(SUBSET Row) /\ DOMAIN c.pages = {}
    OBVIOUS
  <1>2. Seen(c) = {}
    BY <1>1 DEF Seen
  <1>3. IsFiniteSet(c.items)
    BY FS_EmptySet
  <1>4. WalkShape(c)
    BY <1>1, <1>3 DEF WalkShape
  <1> QED
    BY <1>1, <1>2, <1>4 DEF SteadyWalk, FreshWalk

LEMMA PopulatedIsNumbered ==
  ASSUME Populated
  PROVE  IdsInv
  <1>1. /\ \A s \in Source : sources[s] = "ENABLED" /\ sourceId[s] = Place[s]
        /\ \A d \in Document : status[d] = IF d \in Existing THEN "ACTIVE" ELSE "ABSENT"
        /\ \A d \in Existing : d \in Document => documentId[d] = Place[d]
    BY DEF Populated
  <1>2. PresentSources = Source /\ PresentDocuments = Existing
    BY <1>1, CatalogAssumption DEF PresentSources, PresentDocuments, HasRow
  <1>3. Numbered(Source, sourceId)
    BY <1>1, CatalogAssumption DEF AreNumbered, Numbered
  <1>4. Numbered(Existing, documentId)
    BY <1>1, CatalogAssumption DEF AreNumbered, Numbered
  <1> QED
    BY <1>2, <1>3, <1>4 DEF IdsInv

LEMMA InitReadsInv == MCInit => ReadsInv
  <1> SUFFICES ASSUME MCInit PROVE ReadsInv
    OBVIOUS
  <1>1. PartInv
    BY InitPartInv
  <1>2. call = [r \in Reader |-> call[r]] /\
        \A r \in Reader : \E request \in Requests : call[r] = Asked(request)
    BY DEF MCInit, ReadsInit
  <1>3. CallsTypeOK
    BY <1>2, AskedFields DEF CallsTypeOK
  <1>4. CASE part = "reads"
    <2>1. IdsInv
      BY <1>4, PopulatedIsNumbered DEF MCInit
    <2>2. ASSUME NEW r \in Reader, IsWalk(call[r].request) PROVE WalkInv(r)
      <3>1. PICK request \in Requests : call[r] = Asked(request)
        BY <1>2
      <3>2. /\ call[r].pc = "page" /\ call[r].offset = 0 /\ call[r].items = {}
            /\ call[r].pages = <<>> /\ call[r].began = {}
        <4>1. FirstStep(request) = "page"
          BY <2>2, <3>1, AskedFields DEF IsWalk, FirstStep, ResourceStep, ToolStep
        <4> QED
          BY <3>1, <4>1, AskedFields
      <3> QED
        BY <3>2, NewWalk DEF WalkInv, WalkIs
    <2> QED
      BY <1>1, <1>3, <1>4, <2>1, <2>2 DEF ReadsInv, WalksInv
  <1>5. CASE part # "reads"
    <2>1. \A r \in Reader : call[r].pc = "summary"
      BY <1>5 DEF MCInit
    <2>2. ASSUME NEW r \in Reader PROVE ~IsWalk(call[r].request)
      <3>1. PICK request \in Requests : call[r] = Asked(request)
        BY <1>2
      <3>2. FirstStep(request) = "summary" /\ call[r].request = request
        BY <2>1, <3>1, AskedFields
      <3> QED
        BY <3>2 DEF IsWalk, FirstStep, ResourceStep, ToolStep
    <2> QED
      BY <1>1, <1>3, <1>5, <2>2 DEF ReadsInv
  <1> QED
    BY <1>4, <1>5

LEMMA ReadsInvariant == MCSpec => []ReadsInv
  BY InitReadsInv, ReadsInvStep, PTL DEF MCSpec

(* A walk by offset through a list that others write to visits every row   *)
(* that stays in it, and of a list that only grows none twice (list_docs   *)
(* and the paged resources).                                               *)
THEOREM WalksMissNothing == MCSpec => []ListWalkMissesNothing
  <1>1. ReadsInv => ListWalkMissesNothing
    <2> SUFFICES ASSUME ReadsInv, NEW r \in Reader, IsWalk(call[r].request),
                        call[r].pc = "done"
                 PROVE  /\ steady[r] => \A rows \in call[r].began : rows \subseteq Visited(r)
                        /\ OnlyGrows(call[r].request) =>
                             \A i, j \in DOMAIN call[r].pages :
                               i # j => call[r].pages[i] \cap call[r].pages[j] = {}
      BY DEF ListWalkMissesNothing, OnlyGrows
    <2>1. WalkInv(r)
      BY DEF ReadsInv, WalksInv
    <2>2. Visited(r) = Seen(call[r])
      BY DEF Visited, Seen
    <2> QED
      BY <2>1, <2>2 DEF WalkInv, WalkIs, SteadyWalk, FreshWalk
  <1> QED
    BY <1>1, ReadsInvariant, PTL
=============================================================================
