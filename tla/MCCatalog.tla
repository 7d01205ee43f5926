----------------------------- MODULE MCCatalog ------------------------------
(***************************************************************************)
(* Small instances of CatalogRevisions, CatalogVerification and            *)
(* CatalogReads for TLC: a behaviour is one of the calls of the application*)
(* ("writes"), with a verification among them ("opening"), of the          *)
(* deprecated calls as well and a verification ("legacy"), or of the calls *)
(* of a reader between writes ("reads").                                   *)
(***************************************************************************)
EXTENDS CatalogReads, CatalogVerification, TLC

CONSTANTS Existing,  \* documents that the reader's catalogue has at first
          Place,     \* the ids of its documents and sources
          Written,   \* bound: documents of "writes" and of "opening"
          Staged     \* bound: documents of "legacy"

(* Ids without holes.                                                      *)
AreNumbered(rows) ==
  /\ IsFiniteSet(rows)
  /\ \A x \in rows : Place[x] \in 1..Cardinality(rows)
  /\ \A x, y \in rows : Place[x] = Place[y] => x = y

ASSUME CatalogAssumption ==
  /\ Existing \subseteq Document
  /\ Place \in [Source \cup Existing -> Nat]
  /\ AreNumbered(Source) /\ AreNumbered(Existing)
  /\ MaxSections > 0 /\ Cardinality(Existing) <= MaxSectionId
  /\ ReadsAssumption
  /\ \A request \in Requests : IsWalk(request) =>
       /\ request.list \in {"documents", "sources", "versions", "sections"}
       /\ request.list = "versions" => request.of \in Document

VARIABLE part

(* The catalogue that a synchronization of all sources has just left: every*)
(* document that exists has a version of one section.                      *)
Populated ==
  \E h \in Hash, t \in Title :
    /\ sources = [s \in Source |-> "ENABLED"]
    /\ status = [d \in Document |-> IF d \in Existing THEN "ACTIVE" ELSE "ABSENT"]
    /\ title = [d \in Document |-> IF d \in Existing THEN t ELSE None]
    /\ currentVersion = [d \in Document |-> IF d \in Existing THEN h ELSE None]
    /\ stored = Existing \X {h}
    /\ isCurrent = stored
    /\ pendingCurrent = {}
    /\ newer = [d \in Document |-> {}]
    /\ sections = {[id |-> Place[d], version |-> <<d, h>>, ordinal |-> 1] : d \in Existing}
    /\ fts = ExpectedIndex(sources)
    /\ sourceId = [s \in Source |-> Place[s]]
    /\ documentId = [d \in Document |-> IF d \in Existing THEN Place[d] ELSE 0]

MCInit ==
  /\ part \in {"writes", "opening", "legacy", "reads"}
  /\ ReadsInit /\ VerifyInit
  /\ \/ part = "reads" /\ Populated
     \/ /\ part # "reads" /\ Init
        /\ sourceId = [s \in Source |-> 0] /\ documentId = [d \in Document |-> 0]
        /\ \A r \in Reader : call[r].pc = "summary"

(* Bounds: the documents, the contents and titles at a time, the sections  *)
(* of a version and the ids.                                               *)
IsWithin(documents, contents, titles, ordinals, ids) ==
  /\ \A d \in Document \ documents : ~HasRow(d)
  /\ \A s \in Source : sources[s] # "ABSENT" => \E d \in documents : SourceOf[d] = s
  /\ Cardinality({v[2] : v \in stored}) <= contents
  /\ Cardinality(({title[d] : d \in Document} \ {None}) \cup {e.title : e \in fts}) <= titles
  /\ \A s \in sections : s.ordinal <= ordinals /\ s.id <= ids

(* Bound: the damaged catalogues that a verification begins with.          *)
IsDamaged == Mismatched # {} \/ (Unpointed # {} /\ stored = {})

MCNext ==
  /\ \/ /\ part = "writes" /\ Next /\ IsWithin(Written, 3, 2, 2, 4)'
        /\ UNCHANGED <<readVars, verifyVars>>
     \/ /\ part = "opening"
        /\ \/ Verify
           \/ MayWrite /\ Next /\ IsWithin(Written, 2, 2, 1, 2)' /\ Watch
        /\ UNCHANGED readVars
     \/ /\ part = "legacy"
        /\ \/ (position = 0 => IsDamaged) /\ Verify
           \/ /\ MayWrite /\ (NextStaged \/ Replacements)
              /\ IsWithin(Staged, 2, 1, 1, 3)' /\ Watch
        /\ UNCHANGED readVars
     \/ /\ part = "reads" /\ ReadsNext /\ IsWithin(Document, 3, 1, 2, 5)'
        /\ UNCHANGED verifyVars
  /\ UNCHANGED part

MCSpec == MCInit /\ [][MCNext]_<<part, vars, readVars, verifyVars>>

-----------------------------------------------------------------------------
(* Three documents of two sources.                                         *)
CONSTANTS d1, d2, d3, s1, s2

TwoSources == [d \in Document |-> IF d = d1 THEN s1 ELSE s2]
Places == [x \in Source \cup Existing |-> IF x \in {s1, d2} THEN 1 ELSE 2]
Lengths == <<2, 5>>
SizeOf(x) == IF x = d3 THEN 2 ELSE 1

PageLimit == 2
All == [source |-> None, status |-> None]
ListDocuments(source, state, limit) ==
  [op |-> "list_docs", list |-> "documents", filter |-> [source |-> source, status |-> state],
   limit |-> limit]
PageOf(list) ==
  [op |-> "resource", kind |-> "page", list |-> list, filter |-> All, of |-> d2,
   limit |-> PageLimit]
ById(kind, id, valid) == [op |-> "resource", kind |-> kind, id |-> id, valid |-> valid]

SomeRequests ==
  {ListDocuments(None, None, 1), ListDocuments(None, None, 2), ListDocuments(None, "ACTIVE", 1),
   ListDocuments(s2, None, 9)}
    \cup {PageOf(list) : list \in {"documents", "sources", "versions", "sections"}}
    \cup {ById("source", 1, TRUE), ById("document", 1, FALSE), ById("section", 1, TRUE),
          [op |-> "resource", kind |-> "summary"]}
    \cup {[op |-> "resource", kind |-> "version", version |-> <<d2, h>>, of |-> d3,
           valid |-> TRUE] : h \in Hash}
    \cup {[op |-> "search_docs", words |-> {h}, phrase |-> Hash, source |-> None, limit |-> 1,
           max |-> 3] : h \in Hash}

(* Hashes and titles are interchangeable.                                  *)
Values == Permutations(Hash) \cup Permutations(Title)

-----------------------------------------------------------------------------
(* The invariant of the application's calls (CatalogRevisions).            *)
CatalogIsWhole == part # "legacy" => CatalogInv

(* A verification tells the truth about what stood while it ran, but for   *)
(* the false mismatches that VerificationIsTrue names (CatalogVerification)*)
(* and what it looks for is what makes the catalogue sound.  After the     *)
(* calls of the application alone there is never anything to report.       *)
VerificationIsExact ==
  /\ part \in {"opening", "legacy"} =>
       VerificationIsTrue /\ (position = 0 => VerifierIsExact)
  /\ part = "opening" => seen = {}
=============================================================================
