--------------------------- MODULE MCCatalogSync ----------------------------
(***************************************************************************)
(* Small instances of CatalogSync for TLC: a behaviour is one of two runs  *)
(* over one document, of which one is fenced ("runs"), or of limited runs  *)
(* over three, resumed one after the other ("batches").                    *)
(***************************************************************************)
EXTENDS CatalogSync, TLC

CONSTANTS r1, r2, d1, d2, d3, c1, c2, c3

VARIABLE part

Symmetry == Permutations(Run) \cup Permutations({c1, c2})

OneDocument == << <<d1>>, TRUE>>

(* The configuration is reordered, shortened or disabled between batches.  *)
Orders == {<< <<d1, d2, d3>>, TRUE>>, << <<d2, d1>>, TRUE>>, << <<d1, d2, d3>>, FALSE>>}

SomeConfigurations == Orders \cup {OneDocument}

-----------------------------------------------------------------------------
(* Bound: two runs move over one document, and no page is gone, which is to*)
(* be missing but for the status it leaves; MCLiveness has it.             *)
TwoRuns ==
  /\ config = OneDocument
  /\ page[d1] # c3 /\ page[d2] = c3 /\ page[d3] = c3
  /\ \A r \in Run : answer[r].kind # "gone" /\ answer[r].via # "temporary"

(* Bound: one batch moves at a time, and the pages rest and are reached the*)
(* same way.                                                               *)
OneRun ==
  /\ config \in Orders
  /\ \A r, q \in Run : step[r] = "idle" \/ step[q] = "idle" \/ r = q
  /\ \A d \in Document : page[d] = c3
  /\ \A r \in Run :
       step[r] = "write" => answer[r].kind \in {"content", "unchanged"} /\ answer[r].via = "temporary"

MCInit ==
  /\ Init
  /\ \/ part = "runs" /\ TwoRuns
     \/ part = "batches" /\ OneRun

MCNext ==
  /\ Next
  /\ UNCHANGED part
  /\ \/ part = "runs" /\ TwoRuns'
     \/ part = "batches" /\ OneRun'

MCSpec == MCInit /\ [][MCNext]_<<part, vars>>
=============================================================================
