------------------------ MODULE CatalogVerification -------------------------
(***************************************************************************)
(* The verification of the catalogue, as catalog:verify runs it, and the   *)
(* opening of the repository by the server and by most commands, and the   *)
(* opening of the version purger.  It is a sequence of statements and no   *)
(* transaction holds them together: each reads the tables as they are when *)
(* it runs, and the other processes write between two of them.  An opening *)
(* is refused when a statement reported anything.                          *)
(*                                                                         *)
(* A verification leaves nothing to the next one, and several do not meet, *)
(* their tables being temporary ones of their connections: one is enough.  *)
(***************************************************************************)
EXTENDS CatalogRevisions

CONSTANT MaxDuring  \* bound: writes during a verification

VARIABLES position,   \* the next statement, 0 before the first
          found,      \* issues reported
          expected,   \* rows of temp.catalog_integrity_expected_fts
          standing,   \* history: the issues there have been in every state of it
          seen,       \* history: those there have been in some state of it
          rewritten,  \* history: documents written since expected was filled
          during      \* history: writes since it began

history == <<standing, seen, rewritten, during>>
verifyVars == <<position, found, expected, history>>

Filling == 7
Comparing == 8
Ended == 10

MISMATCH == "FTS_ENTRY_CONTENT_MISMATCH"

(* The comparison threw, which is reported as a mismatch of no section.    *)
Incomplete == <<MISMATCH, None>>

Shown(d) == Searchable(d, sources, status, title, currentVersion, sections)

-----------------------------------------------------------------------------
VerifyInit ==
  /\ position = 0
  /\ found = {} /\ expected = {}
  /\ standing = {} /\ seen = {} /\ rewritten = {} /\ during = 0

Begin ==
  /\ position = 0
  /\ position' = 1
  /\ standing' = IntegrityIssues
  /\ seen' = IntegrityIssues
  /\ UNCHANGED <<vars, found, expected, rewritten, during>>

(* A statement that reports what it selects.                               *)
Select(n, code, subjects) ==
  /\ position = n
  /\ position' = n + 1
  /\ found' = found \cup Issues(code, subjects)
  /\ UNCHANGED <<vars, expected, history>>

(* The sections that a search may return, written to a table as they       *)
(* should be indexed.                                                      *)
FillExpected ==
  /\ position = Filling
  /\ position' = Comparing
  /\ expected' = ExpectedIndex(sources)
  /\ UNCHANGED <<vars, found, history>>

(* The words of the index against those of that table, for the sections    *)
(* that a search may return now.                                           *)
CompareWithExpected ==
  Select(Comparing, MISMATCH,
    {s \in sections : Joined(s) /\ TextIn(fts, s.id) \notin {{}, TextIn(expected, s.id)}})

(* The table could not be filled, or the words not compared.               *)
CannotCompare ==
  /\ position \in {Filling, Comparing}
  /\ position' = Comparing + 1
  /\ found' = found \cup {Incomplete}
  /\ UNCHANGED <<vars, expected, history>>

Verify ==
  \/ Begin
  \/ Select(1, "ACTIVE_DOCUMENT_WITHOUT_CURRENT_VERSION", Unpointed)
  \/ Select(2, "CURRENT_VERSION_MISSING_OR_WRONG_DOCUMENT", Dangling)
  \/ Select(3, "CURRENT_VERSION_NOT_MARKED_CURRENT", Unmarked)
  \/ Select(4, "CURRENT_VERSION_WITHOUT_SECTIONS", Sectionless)
  \/ Select(5, "CURRENT_VERSION_FLAG_NOT_POINTED", Misflagged)
  \/ Select(6, "CURRENT_SECTION_MISSING_FROM_FTS", Unindexed)
  \/ FillExpected
  \/ CompareWithExpected
  \/ CannotCompare
  \/ Select(9, "FTS_ENTRY_ORPHANED", Orphaned)

(* A write of another process, and what the history keeps of it.           *)
MayWrite == position # Ended /\ (position > 0 => during < MaxDuring)

Watch ==
  /\ IF position = 0 THEN UNCHANGED history
     ELSE /\ during' = during + 1
          /\ standing' = standing \cap IntegrityIssues'
          /\ seen' = seen \cup IntegrityIssues'
          /\ rewritten' = IF position = Comparing
                          THEN rewritten \cup {d \in Document : Shown(d)' # Shown(d)}
                          ELSE rewritten
  /\ UNCHANGED <<position, found, expected>>

(* A verification among the calls of the application, and among all calls. *)
SpecOpening ==
  Init /\ VerifyInit /\ [][Verify \/ (Next /\ Watch)]_<<vars, verifyVars>>

SpecVerifying ==
  /\ Init /\ VerifyInit
  /\ [][Verify \/ ((NextStaged \/ Replacements) /\ Watch)]_<<vars, verifyVars>>

-----------------------------------------------------------------------------
(* A verification reports an issue only if it was there at some time       *)
(* meanwhile, with one exception: a mismatch of a document that was written*)
(* between the filling of the expected index and the comparison.  And when *)
(* it has ended it has reported every issue that was there all along, but  *)
(* for mismatches if it says that the comparison could not complete.       *)
VerificationIsTrue ==
  /\ \A issue \in found \ (seen \cup {Incomplete}) :
       issue[1] = MISMATCH /\ issue[2].version[1] \in rewritten
  /\ position = Ended => \A issue \in standing :
       issue \in found \/ (issue[1] = MISMATCH /\ Incomplete \in found)
=============================================================================
