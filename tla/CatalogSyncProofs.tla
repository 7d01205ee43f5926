-------------------------- MODULE CatalogSyncProofs -------------------------
(***************************************************************************)
(* Theorems about CatalogSync, for every set of runs, documents, contents  *)
(* and configurations, and whatever fails.                                 *)
(***************************************************************************)
EXTENDS MCLiveness, SequenceTheorems, TLAPS

-----------------------------------------------------------------------------
(***************************************************************************)
(* The inductive invariant.  What the theorems say of a write follows from *)
(* what the run has in memory then, so it says of every run how its memory *)
(* relates to the catalogue, and how far that depends on the lease.        *)
(***************************************************************************)
MemoryOf(r) ==
  /\ TrueTag(seen[r].version)
  /\ Known(r) \/ seen[r].version = NoVersion
  /\ step[r] = "write" /\ answer[r].kind \in {"content", "unchanged"} =>
       answer[r].content \in Content /\ answer[r].tag \in {None, answer[r].content}
  /\ step[r] = "write" /\ answer[r].kind = "unchanged" =>
       seen[r].version # NoVersion /\ answer[r].content = seen[r].version.hash
  /\ step[r] = "idle" => handled[r] = 0

(* Rows are never deleted, so what was known stays known, with or without  *)
(* the lease; the rest needs it.                                           *)
ReadingOf(r) ==
  /\ step[r] \in {"version", "fetch", "write"} /\ Known(r) => row[Subject(r)] # NoRow
  /\ holder = r /\ step[r] \in {"fetch", "write"} /\ seen[r].version # NoVersion =>
       /\ current[Subject(r)] # NoVersion
       /\ current[Subject(r)].usable => current[Subject(r)].hash = seen[r].version.hash
  /\ holder = r /\ step[r] \in Working /\ Subject(r) \notin Ingested =>
       /\ step[r] # "document" => seen[r].row = row[Subject(r)]
       /\ step[r] \in {"fetch", "write"} => seen[r].version = current[Subject(r)]

StoredOf(d) ==
  /\ row[d] = NoRow <=> current[d] = NoVersion
  /\ TrueTag(current[d])
  /\ d \notin Ingested => row[d].describes = current[d].hash

RunsInv == \A r \in Run : MemoryOf(r) /\ ReadingOf(r)
StoredInv == \A d \in Document : StoredOf(d)

IInv == TypeOK /\ RunsInv /\ StoredInv

LEMMA IInvImplies == IInv => SyncInv /\ RowDescribesItsVersion
  BY DEF IInv, RunsInv, StoredInv, MemoryOf, ReadingOf, StoredOf, SyncInv,
         UsableTagsAreTrue, ReadsStand, AnswersStand, RowDescribesItsVersion

-----------------------------------------------------------------------------
(***************************************************************************)
(* The values that stand for nothing.                                      *)
(***************************************************************************)
LEMMA NoneIsNoContent == None \notin Content /\ None \notin Run
  BY SyncAssumption

LEMMA NoRowIsNoRow == NoRow \notin Row
  BY DEF NoRow, Row, Status

LEMMA NoVersionIsNoVersion == NoVersion \notin Version
  BY NoneIsNoContent DEF NoVersion, Version

LEMMA UnreadType ==
  /\ Unread \in [row : Row \cup {NoRow}, version : Version \cup {NoVersion}]
  /\ Unread.row = NoRow /\ Unread.version = NoVersion
  BY DEF Unread

LEMMA NoAnswerType ==
  NoAnswer \in Answer \cup {NoAnswer} /\ NoAnswer.kind = "unavailable"
  BY DEF NoAnswer

LEMMA NoPlanType == NoPlan \in Plan /\ CursorIsKnown(NoPlan) /\ Len(NoPlan.selected) = 0
  <1>1. <<>> \in Seq(Document)
    OBVIOUS
  <1> QED
    BY <1>1 DEF NoPlan, Plan, CursorIsKnown

LEMMA SubjectIsDocument ==
  ASSUME TypeOK, NEW r \in Run, step[r] \in Working
  PROVE  Subject(r) \in Document
  <1>1. plan[r] \in Plan /\ handled[r] \in Nat /\ handled[r] < Len(plan[r].selected)
    BY DEF TypeOK
  <1>2. plan[r].selected \in Seq(Document)
    BY <1>1 DEF Plan
  <1>3. handled[r] + 1 \in 1 .. Len(plan[r].selected)
    BY <1>1, <1>2
  <1> QED
    BY <1>2, <1>3 DEF Subject

LEMMA SeenType ==
  ASSUME TypeOK, NEW r \in Run
  PROVE  /\ seen[r].row \in Row \cup {NoRow}
         /\ seen[r].version \in Version \cup {NoVersion}
         /\ answer[r] \in Answer \cup {NoAnswer}
         /\ step[r] \in Working \cup {"idle", "complete", "abort"}
  BY DEF TypeOK

-----------------------------------------------------------------------------
(***************************************************************************)
(* What an action does to the runs that do not take it, and to the one that*)
(* forgets what it read.                                                   *)
(***************************************************************************)
MemoryStays(r) ==
  /\ step'[r] = step[r] /\ plan'[r] = plan[r] /\ handled'[r] = handled[r]
  /\ seen'[r] = seen[r] /\ answer'[r] = answer[r]

RowsStay == \A d \in Document : row[d] # NoRow => row'[d] # NoRow

LEMMA OthersKeep ==
  ASSUME TypeOK, NEW r \in Run, MemoryOf(r), ReadingOf(r), MemoryStays(r), RowsStay,
         holder' = r => holder = r /\ row' = row /\ current' = current
  PROVE  MemoryOf(r)' /\ ReadingOf(r)'
  <1>1. MemoryOf(r)'
    BY DEF MemoryOf, MemoryStays, TrueTag, Known
  <1>2. step[r] \in Working => Subject(r) \in Document
    BY SubjectIsDocument
  <1>3. Subject(r)' = Subject(r)
    BY DEF Subject, MemoryStays
  <1>4. ReadingOf(r)'
    BY <1>2, <1>3 DEF ReadingOf, MemoryStays, RowsStay, Known, Working
  <1> QED
    BY <1>1, <1>4

LEMMA ForgottenIsFine ==
  ASSUME NEW r \in Run, seen'[r] = Unread, answer'[r] = NoAnswer,
         step'[r] \in {"idle", "document", "complete", "abort"},
         step'[r] = "idle" => handled'[r] = 0
  PROVE  MemoryOf(r)' /\ ReadingOf(r)'
  <1>1. seen'[r].row = NoRow /\ seen'[r].version = NoVersion
    BY UnreadType
  <1>2. TrueTag(seen[r].version)'
    BY <1>1 DEF TrueTag, NoVersion
  <1>3. MemoryOf(r)'
    BY <1>1, <1>2, NoAnswerType DEF MemoryOf
  <1>4. ReadingOf(r)'
    BY <1>1 DEF ReadingOf, Known, Working
  <1> QED
    BY <1>3, <1>4

(* The types, of what a run has and of what all runs share.                *)
LocalTypes ==
  /\ step \in [Run -> Working \cup {"idle", "complete", "abort"}]
  /\ plan \in [Run -> Plan]
  /\ handled \in [Run -> Nat]
  /\ \A r \in Run : step[r] \in Working => handled[r] < Len(plan[r].selected)
  /\ seen \in [Run -> [row : Row \cup {NoRow}, version : Version \cup {NoVersion}]]
  /\ answer \in [Run -> Answer \cup {NoAnswer}]
  /\ \A r \in Run : CursorIsKnown(plan[r])

CatalogueTypes ==
  /\ row \in [Document -> Row \cup {NoRow}]
  /\ current \in [Document -> Version \cup {NoVersion}]
  /\ changes \in [Document -> (Content \X Content) \cup {None}]

OtherTypes ==
  /\ page \in [Document -> Content]
  /\ holder \in Run \cup {None}
  /\ config \in Configurations
  /\ report \in Output
  /\ CursorIsKnown(report)

LEMMA TypesAreParts == TypeOK <=> LocalTypes /\ CatalogueTypes /\ OtherTypes
  BY DEF TypeOK, LocalTypes, CatalogueTypes, OtherTypes

LEMMA PartsOfTypesNext ==
  TypeOK' <=> LocalTypes' /\ CatalogueTypes' /\ OtherTypes'
  BY DEF TypeOK, LocalTypes, CatalogueTypes, OtherTypes, CursorIsKnown

(* The step of a run that reports, or ends: its own memory is empty, that  *)
(* of the others stands.                                                   *)
LEMMA ReportKeeps ==
  ASSUME IInv, NEW r \in Run, step[r] \in Working, Report(r), plan' = plan,
         RowsStay, holder' = holder, holder # r => row' = row /\ current' = current
  PROVE  LocalTypes' /\ RunsInv'
  <1> USE DEF IInv
  <1>1. /\ step'[r] \in {"document", "complete"}
        /\ handled'[r] = handled[r] + 1
        /\ step'[r] = "document" => handled'[r] # Len(plan[r].selected)
        /\ seen'[r] = Unread /\ answer'[r] = NoAnswer
        /\ step' \in [Run -> Working \cup {"idle", "complete", "abort"}]
        /\ handled' \in [Run -> Nat]
        /\ seen' \in [Run -> [row : Row \cup {NoRow}, version : Version \cup {NoVersion}]]
        /\ answer' \in [Run -> Answer \cup {NoAnswer}]
    BY UnreadType, NoAnswerType DEF TypeOK, Report, Working
  <1>2. \A q \in Run \ {r} : MemoryStays(q)
    BY DEF Report, MemoryStays, TypeOK
  <1>3. handled[r] \in Nat /\ handled[r] < Len(plan[r].selected) /\ Len(plan[r].selected) \in Nat
    BY DEF TypeOK, Plan
  <1>4. \A q \in Run : step'[q] \in Working => handled'[q] < Len(plan'[q].selected)
    <2>1. ASSUME NEW q \in Run \ {r}, step'[q] \in Working
          PROVE  handled'[q] < Len(plan'[q].selected)
      BY <1>2, <2>1 DEF MemoryStays, TypeOK
    <2>2. step'[r] \in Working => handled'[r] < Len(plan'[r].selected)
      BY <1>1, <1>3 DEF Working
    <2> QED
      BY <2>1, <2>2
  <1>5. LocalTypes'
    BY <1>1, <1>4 DEF LocalTypes, TypeOK, CursorIsKnown
  <1>6. ASSUME NEW q \in Run
        PROVE  MemoryOf(q)' /\ ReadingOf(q)'
    <2>1. CASE q = r
      BY <1>1, <2>1, ForgottenIsFine
    <2>2. CASE q # r
      BY <1>2, <2>2, OthersKeep DEF RunsInv
    <2> QED
      BY <2>1, <2>2
  <1> QED
    BY <1>5, <1>6 DEF RunsInv

LEMMA EndKeeps ==
  ASSUME IInv, NEW r \in Run, End(r), holder' \in {holder, None},
         row' = row, current' = current
  PROVE  LocalTypes' /\ RunsInv'
  <1> USE DEF IInv
  <1>1. /\ step'[r] = "idle" /\ handled'[r] = 0 /\ seen'[r] = Unread /\ answer'[r] = NoAnswer
        /\ step' \in [Run -> Working \cup {"idle", "complete", "abort"}]
        /\ plan' \in [Run -> Plan] /\ plan'[r] = NoPlan
        /\ handled' \in [Run -> Nat]
        /\ seen' \in [Run -> [row : Row \cup {NoRow}, version : Version \cup {NoVersion}]]
        /\ answer' \in [Run -> Answer \cup {NoAnswer}]
    BY UnreadType, NoAnswerType, NoPlanType DEF TypeOK, End
  <1>2. \A q \in Run \ {r} : MemoryStays(q)
    BY DEF End, MemoryStays, TypeOK
  <1>3. \A q \in Run : step'[q] \in Working => handled'[q] < Len(plan'[q].selected)
    BY <1>1, <1>2 DEF MemoryStays, TypeOK, Working
  <1>4. \A q \in Run : CursorIsKnown(plan'[q])
    BY <1>1, <1>2, NoPlanType DEF MemoryStays, TypeOK, CursorIsKnown
  <1>5. LocalTypes'
    BY <1>1, <1>3, <1>4 DEF LocalTypes, CursorIsKnown
  <1>6. ASSUME NEW q \in Run
        PROVE  MemoryOf(q)' /\ ReadingOf(q)'
    <2>1. CASE q = r
      BY <1>1, <2>1, ForgottenIsFine
    <2>2. RowsStay /\ (holder' = q => holder = q)
      BY NoneIsNoContent DEF RowsStay
    <2>3. CASE q # r
      BY <1>2, <2>2, <2>3, OthersKeep DEF RunsInv
    <2> QED
      BY <2>1, <2>3
  <1> QED
    BY <1>5, <1>6 DEF RunsInv

-----------------------------------------------------------------------------
(***************************************************************************)
(* The start of a run: every plan is a sequence of documents, and a limited*)
(* one ends with its cursor.                                               *)
(***************************************************************************)
LEMMA CursorHasAnIndex ==
  ASSUME NEW documents \in Seq(Document), NEW cursor \in Range(documents)
  PROVE  CursorIndex(documents, cursor) \in 1 .. Len(documents)
  <1>1. \E i \in DOMAIN documents : documents[i] = cursor
    BY DEF Range
  <1>2. DOMAIN documents = 1 .. Len(documents)
    OBVIOUS
  <1> QED
    BY <1>1, <1>2 DEF CursorIndex

LEMMA PlanType ==
  ASSUME TypeOK, NEW limit \in Limits, NEW resuming \in BOOLEAN, resuming => MayResume
  PROVE  /\ ExecutionPlan(limit, resuming) \in Plan
         /\ CursorIsKnown(ExecutionPlan(limit, resuming))
  <1> DEFINE documents == config[1]
             first == IF resuming THEN CursorIndex(documents, report.cursor) ELSE 0
             rest == SubSeq(documents, first + 1, Len(documents))
             kept == IF limit < Len(rest) THEN limit ELSE Len(rest)
             selected == SubSeq(rest, 1, kept)
             limited == Len(selected) < Len(rest)
             cursor == IF limited THEN Last(selected)
                       ELSE IF resuming THEN report.cursor ELSE None
             before == IF resuming THEN report.processed ELSE <<>>
             p == [selected |-> selected, enabled |-> config[2], limited |-> limited,
                   cursor |-> cursor, fingerprint |-> config, before |-> before]
  <1>1. config \in Configurations /\ documents \in Seq(Document) /\ config[2] \in BOOLEAN
    BY SyncAssumption DEF TypeOK
  <1>2. limit \in Nat \ {0}
    BY SyncAssumption
  <1>3. first \in 0 .. Len(documents)
    <2>1. CASE resuming
      <3>1. report.cursor \in Range(documents)
        BY <2>1 DEF MayResume, TypeOK, CursorIsKnown
      <3> QED
        BY <1>1, <2>1, <3>1, CursorHasAnIndex
    <2>2. CASE ~resuming
      BY <1>1, <2>2
    <2> QED
      BY <2>1, <2>2
  <1>4. rest \in Seq(Document) /\ \A i \in 1 .. Len(rest) : rest[i] \in Range(documents)
    <2> HIDE DEF first, documents
    <2>1. \A i \in first + 1 .. Len(documents) : documents[i] \in Document /\ documents[i] \in Range(documents)
      BY <1>1, <1>3 DEF Range
    <2>2. /\ rest \in Seq(Document) /\ Len(rest) = Len(documents) - first
          /\ \A i \in 1 .. Len(documents) - first : rest[i] = documents[first + i]
      BY <1>1, <1>3, <2>1
    <2> QED
      BY <1>1, <1>3, <2>1, <2>2
  <1>5. kept \in 0 .. Len(rest) /\ (kept < Len(rest) => kept # 0)
    <2> HIDE DEF rest
    <2> QED
      BY <1>2, <1>4
  <1>6. /\ selected \in Seq(Document) /\ Len(selected) = kept
        /\ limited => Last(selected) \in Range(documents)
    <2> HIDE DEF rest, kept, documents
    <2>1. /\ selected \in Seq(Document) /\ Len(selected) = kept
          /\ \A i \in 1 .. kept : selected[i] = rest[i]
      BY <1>4, <1>5
    <2>2. limited => Last(selected) = rest[kept] /\ kept \in 1 .. Len(rest)
      BY <1>4, <1>5, <2>1 DEF Last
    <2> QED
      BY <1>4, <2>1, <2>2
  <1>7. Range(documents) \subseteq Document
    BY <1>1 DEF Range
  <1>8. cursor \in Document \cup {None} /\ before \in Seq(Document)
    <2>1. report.cursor \in Document \cup {None} /\ report.processed \in Seq(Document)
      BY DEF TypeOK, Output
    <2> HIDE DEF selected, limited, documents
    <2> QED
      BY <1>6, <1>7, <2>1
  <1>9. ExecutionPlan(limit, resuming) = p
    BY DEF ExecutionPlan
  <1> HIDE DEF selected, limited, cursor, before, documents
  <1>10. p \in Plan /\ limited \in BOOLEAN
    BY <1>1, <1>6, <1>8 DEF Plan, limited
  <1>11. CursorIsKnown(p)
    BY <1>1, <1>6 DEF CursorIsKnown, cursor, documents
  <1> QED
    BY <1>9, <1>10, <1>11

LEMMA InitIInv == Init => IInv
  <1> SUFFICES ASSUME Init PROVE IInv
    OBVIOUS
  <1>1. LocalTypes
    BY UnreadType, NoAnswerType, NoPlanType DEF Init, LocalTypes, Working
  <1>2. CatalogueTypes
    BY DEF Init, CatalogueTypes
  <1>3. OtherTypes
    <2>1. <<>> \in Seq(Document)
      OBVIOUS
    <2> QED
      BY <2>1 DEF Init, OtherTypes, NoReport, Output, CursorIsKnown
  <1>4. ASSUME NEW r \in Run PROVE MemoryOf(r) /\ ReadingOf(r)
    <2>1. /\ seen[r].version = NoVersion /\ answer[r].kind = "unavailable"
          /\ step[r] = "idle" /\ handled[r] = 0
      BY UnreadType, NoAnswerType DEF Init
    <2> QED
      BY <2>1 DEF MemoryOf, ReadingOf, TrueTag, NoVersion, Working
  <1>5. ASSUME NEW d \in Document PROVE StoredOf(d)
    BY DEF Init, StoredOf, TrueTag, NoRow, NoVersion
  <1> QED
    BY <1>1, <1>2, <1>3, <1>4, <1>5, TypesAreParts DEF IInv, RunsInv, StoredInv

(* Steps that leave the documents alone.                                   *)
LEMMA StoredStays ==
  ASSUME IInv, row' = row, current' = current
  PROVE  StoredInv' /\ RowsStay
  BY DEF IInv, StoredInv, StoredOf, TrueTag, RowsStay

LEMMA StartKeeps ==
  ASSUME IInv, NEW r \in Run, NEW limit \in Limits, NEW resuming \in BOOLEAN,
         Start(r, limit, resuming)
  PROVE  IInv'
  <1> USE DEF IInv
  <1> DEFINE p == ExecutionPlan(limit, resuming)
  <1>1. p \in Plan /\ CursorIsKnown(p)
    BY PlanType DEF Start
  <1> HIDE DEF p
  <1>2. /\ step[r] = "idle" /\ handled[r] = 0 /\ holder = None /\ holder' = r
        /\ plan' = [plan EXCEPT ![r] = p]
        /\ step' = [step EXCEPT ![r] = IF plan'[r].selected = <<>> THEN "complete" ELSE "document"]
        /\ UNCHANGED <<page, row, current, changes, config, seen, answer, handled, report>>
    BY DEF Start, p, catalogue, RunsInv, MemoryOf
  <1>3. plan'[r] = p /\ (step'[r] = "complete" \/ (step'[r] = "document" /\ Len(p.selected) > 0))
    <2>1. plan'[r] = p
      BY <1>2 DEF TypeOK
    <2>2. p.selected # <<>> => Len(p.selected) > 0
      BY <1>1 DEF Plan
    <2> QED
      BY <1>2, <2>1, <2>2 DEF TypeOK
  <1>4. \A q \in Run \ {r} : MemoryStays(q)
    BY <1>2 DEF MemoryStays, TypeOK
  <1>5. LocalTypes'
    <2>1. \A q \in Run : step'[q] \in Working => handled'[q] < Len(plan'[q].selected)
      BY <1>2, <1>3, <1>4 DEF MemoryStays, TypeOK, Working
    <2>2. \A q \in Run : CursorIsKnown(plan'[q])
      BY <1>1, <1>3, <1>4 DEF MemoryStays, TypeOK, CursorIsKnown
    <2>3. plan' \in [Run -> Plan] /\ step' \in [Run -> Working \cup {"idle", "complete", "abort"}]
      BY <1>1, <1>2 DEF TypeOK, Working
    <2> QED
      BY <1>2, <2>1, <2>2, <2>3 DEF LocalTypes, TypeOK, CursorIsKnown
  <1>6. ASSUME NEW q \in Run PROVE MemoryOf(q)' /\ ReadingOf(q)'
    <2>1. CASE q # r
      BY <1>2, <1>4, <2>1, StoredStays, OthersKeep DEF RunsInv
    <2>2. CASE q = r
      <3>1. MemoryOf(r)'
        BY <1>2, <1>3 DEF RunsInv, MemoryOf, TrueTag, Known
      <3>2. ReadingOf(r)'
        BY <1>3 DEF ReadingOf, Working
      <3> QED
        BY <2>2, <3>1, <3>2
    <2> QED
      BY <2>1, <2>2
  <1>7. CatalogueTypes' /\ OtherTypes'
    BY <1>2 DEF TypeOK, CatalogueTypes, OtherTypes, CursorIsKnown
  <1> QED
    BY <1>2, <1>5, <1>6, <1>7, StoredStays, PartsOfTypesNext DEF RunsInv

-----------------------------------------------------------------------------
(***************************************************************************)
(* The two reads and the fetch: steps of one run, in its memory alone.     *)
(***************************************************************************)
LEMMA LocalStepKeeps ==
  ASSUME IInv, NEW r \in Run, UNCHANGED <<shared, plan, handled>>,
         step[r] \in Working, NEW s \in Working, NEW m, NEW a,
         step' = [step EXCEPT ![r] = s], seen' = [seen EXCEPT ![r] = m],
         answer' = [answer EXCEPT ![r] = a],
         m \in [row : Row \cup {NoRow}, version : Version \cup {NoVersion}],
         a \in Answer \cup {NoAnswer},
         MemoryOf(r)', ReadingOf(r)'
  PROVE  IInv'
  <1> USE DEF IInv
  <1>1. UNCHANGED <<page, row, current, changes, holder, config, report>>
    BY DEF shared, catalogue
  <1>2. \A q \in Run \ {r} : MemoryStays(q)
    BY DEF MemoryStays, TypeOK
  <1>3. LocalTypes'
    <2>1. \A q \in Run : step'[q] \in Working => handled'[q] < Len(plan'[q].selected)
      BY <1>2 DEF MemoryStays, TypeOK
    <2> QED
      BY <2>1 DEF LocalTypes, TypeOK, CursorIsKnown
  <1>4. ASSUME NEW q \in Run PROVE MemoryOf(q)' /\ ReadingOf(q)'
    BY <1>1, <1>2, StoredStays, OthersKeep DEF RunsInv
  <1>5. CatalogueTypes' /\ OtherTypes'
    BY <1>1 DEF TypeOK, CatalogueTypes, OtherTypes, CursorIsKnown
  <1> QED
    BY <1>1, <1>3, <1>4, <1>5, StoredStays, PartsOfTypesNext DEF RunsInv

LEMMA ReadDocumentKeeps ==
  ASSUME IInv, NEW r \in Run, ReadDocument(r)
  PROVE  IInv'
  <1> USE DEF IInv
  <1> DEFINE m == [row |-> row[Subject(r)], version |-> NoVersion]
  <1>1. /\ step[r] = "document" /\ step' = [step EXCEPT ![r] = "version"]
        /\ seen' = [seen EXCEPT ![r] = m]
        /\ UNCHANGED <<shared, plan, answer, handled>>
        /\ UNCHANGED <<row, current, holder>>
    BY DEF ReadDocument, shared, catalogue
  <1>2. Subject(r) \in Document /\ Subject(r)' = Subject(r) /\ step[r] \in Working
    BY <1>1, SubjectIsDocument DEF Subject, Working
  <1>3. m \in [row : Row \cup {NoRow}, version : Version \cup {NoVersion}]
    BY <1>2 DEF TypeOK
  <1>4. seen'[r].row = row[Subject(r)] /\ seen'[r].version = NoVersion /\ step'[r] = "version"
    BY <1>1 DEF TypeOK
  <1>5. MemoryOf(r)'
    BY <1>4 DEF MemoryOf, TrueTag, NoVersion
  <1>6. ReadingOf(r)'
    BY <1>1, <1>2, <1>4 DEF ReadingOf, Known
  <1>7. answer[r] \in Answer \cup {NoAnswer} /\ answer' = [answer EXCEPT ![r] = answer[r]]
    BY <1>1 DEF TypeOK
  <1> HIDE DEF m
  <1> QED
    BY <1>1, <1>2, <1>3, <1>5, <1>6, <1>7, LocalStepKeeps DEF Working

LEMMA ReadVersionKeeps ==
  ASSUME IInv, NEW r \in Run, ReadVersion(r)
  PROVE  IInv'
  <1> USE DEF IInv
  <1> DEFINE v == IF Known(r) THEN current[Subject(r)] ELSE NoVersion
             m == [row |-> seen[r].row, version |-> v]
  <1>1. /\ step[r] = "version" /\ step' = [step EXCEPT ![r] = "fetch"]
        /\ seen' = [seen EXCEPT ![r] = m]
        /\ UNCHANGED <<shared, plan, answer, handled>>
        /\ UNCHANGED <<row, current, holder>>
    BY DEF ReadVersion, shared, catalogue
  <1>2. Subject(r) \in Document /\ Subject(r)' = Subject(r) /\ step[r] \in Working
    BY <1>1, SubjectIsDocument DEF Subject, Working
  <1>3. m \in [row : Row \cup {NoRow}, version : Version \cup {NoVersion}]
    BY <1>2, SeenType DEF TypeOK
  <1>4. seen'[r].row = seen[r].row /\ seen'[r].version = v /\ step'[r] = "fetch"
    BY <1>1 DEF TypeOK
  <1>5. StoredOf(Subject(r)) /\ ReadingOf(r)
    BY <1>2 DEF StoredInv, RunsInv
  <1>6. MemoryOf(r)'
    BY <1>2, <1>4, <1>5 DEF MemoryOf, Known, StoredOf, TrueTag, NoVersion
  <1>7. ReadingOf(r)'
    <2>1. step[r] \in {"version", "fetch", "write"} /\ Known(r) => row[Subject(r)] # NoRow
      BY <1>5 DEF ReadingOf
    <2>2. step'[r] \in {"version", "fetch", "write"} /\ Known(r)' => row'[Subject(r)'] # NoRow
      BY <1>1, <1>2, <1>4, <2>1 DEF Known
    <2>3. holder' = r /\ seen'[r].version # NoVersion =>
            /\ current'[Subject(r)'] # NoVersion
            /\ current'[Subject(r)'].hash = seen'[r].version.hash
      BY <1>1, <1>2, <1>4
    <2>4. holder' = r /\ Subject(r)' \notin Ingested =>
            seen'[r].row = row'[Subject(r)'] /\ seen'[r].version = current'[Subject(r)']
      BY <1>1, <1>2, <1>4, <1>5 DEF ReadingOf, StoredOf, Known, Working
    <2> QED
      BY <2>2, <2>3, <2>4 DEF ReadingOf
  <1>8. answer[r] \in Answer \cup {NoAnswer} /\ answer' = [answer EXCEPT ![r] = answer[r]]
    BY <1>1 DEF TypeOK
  <1> HIDE DEF m, v
  <1> QED
    BY <1>1, <1>2, <1>3, <1>6, <1>7, <1>8, LocalStepKeeps DEF Working

LEMMA FetchKeeps ==
  ASSUME IInv, NEW r \in Run, NEW kind \in Kind, NEW tagged \in BOOLEAN, NEW via \in Via,
         Fetch(r, kind, tagged, via)
  PROVE  IInv'
  <1> USE DEF IInv
  <1> DEFINE content == IF kind \in {"content", "unchanged"} THEN page[Subject(r)] ELSE None
             tag == IF tagged THEN content ELSE None
             a == [kind |-> kind, content |-> content, via |-> via, tag |-> tag]
  <1>1. /\ step[r] = "fetch" /\ step' = [step EXCEPT ![r] = "write"]
        /\ answer' = [answer EXCEPT ![r] = a]
        /\ kind = "unchanged" => SentTag(seen[r].version) = content
        /\ UNCHANGED <<shared, plan, seen, handled>>
        /\ UNCHANGED <<row, current, holder>>
    BY DEF Fetch, shared, catalogue
  <1>2. Subject(r) \in Document /\ Subject(r)' = Subject(r) /\ step[r] \in Working
    BY <1>1, SubjectIsDocument DEF Subject, Working
  <1>3. /\ content \in Content \cup {None}
        /\ kind \in {"content", "unchanged"} => content \in Content
    BY <1>2 DEF TypeOK
  <1>4. a \in Answer \cup {NoAnswer} /\ tag \in {None, content}
    BY <1>3 DEF Answer
  <1>5. /\ answer'[r].kind = kind /\ answer'[r].content = content /\ answer'[r].tag = tag
        /\ step'[r] = "write" /\ seen'[r] = seen[r]
    BY <1>1 DEF TypeOK
  <1>6. MemoryOf(r) /\ ReadingOf(r)
    BY DEF RunsInv
  <1>7. kind = "unchanged" => seen[r].version # NoVersion /\ content = seen[r].version.hash
    BY <1>1, <1>3, <1>6, NoneIsNoContent DEF SentTag, MemoryOf, TrueTag, NoVersion
  <1> HIDE DEF content, tag, a
  <1>8. MemoryOf(r)'
    BY <1>3, <1>4, <1>5, <1>6, <1>7 DEF MemoryOf, TrueTag, Known
  <1>9. ReadingOf(r)'
    BY <1>1, <1>2, <1>5, <1>6 DEF ReadingOf, Known, Working
  <1>10. seen[r] \in [row : Row \cup {NoRow}, version : Version \cup {NoVersion}]
         /\ seen' = [seen EXCEPT ![r] = seen[r]]
    BY <1>1 DEF TypeOK
  <1> QED
    BY <1>1, <1>2, <1>4, <1>8, <1>9, <1>10, LocalStepKeeps DEF Working

-----------------------------------------------------------------------------
(***************************************************************************)
(* The writes, each of one document.                                       *)
(***************************************************************************)
LEMMA WriteKeeps ==
  ASSUME IInv, NEW r \in Run, step[r] \in Working, Report(r),
         UNCHANGED <<page, holder, config, plan, report>>,
         holder # r => row' = row /\ current' = current,
         CatalogueTypes', StoredInv', RowsStay
  PROVE  IInv'
  <1>1. LocalTypes' /\ RunsInv'
    BY ReportKeeps
  <1>2. OtherTypes'
    BY DEF IInv, TypeOK, OtherTypes, CursorIsKnown
  <1> QED
    BY <1>1, <1>2, PartsOfTypesNext DEF IInv

(* A document written with a row and a version that fit.                   *)
LEMMA DocumentWritten ==
  ASSUME IInv, NEW d \in Document, NEW newRow \in Row, NEW v \in Version \cup {NoVersion},
         row' = [row EXCEPT ![d] = newRow], current' = [current EXCEPT ![d] = v],
         v \in Version \/ (v = current[d] /\ row[d] # NoRow), TrueTag(v),
         d \notin Ingested => newRow.describes = v.hash
  PROVE  StoredInv' /\ RowsStay
  <1>1. row[d] # NoRow => current[d] # NoVersion
    BY DEF IInv, StoredInv, StoredOf
  <1>2. newRow # NoRow /\ v # NoVersion
    BY <1>1, NoRowIsNoRow, NoVersionIsNoVersion
  <1>3. \A x \in Document \ {d} : row'[x] = row[x] /\ current'[x] = current[x]
    BY DEF IInv, TypeOK
  <1>4. row'[d] = newRow /\ current'[d] = v
    BY DEF IInv, TypeOK
  <1>5. ASSUME NEW x \in Document PROVE StoredOf(x)'
    <2>1. CASE x = d
      BY <1>2, <1>4, <2>1 DEF StoredOf, TrueTag
    <2>2. CASE x # d
      BY <1>3, <2>2 DEF IInv, StoredInv, StoredOf, TrueTag
    <2> QED
      BY <2>1, <2>2
  <1>6. RowsStay
    BY <1>2, <1>3, <1>4 DEF RowsStay
  <1> QED
    BY <1>5, <1>6 DEF StoredInv

LEMMA CommitKeeps ==
  ASSUME IInv, NEW r \in Run, CommitRevision(r)
  PROVE  IInv'
  <1> DEFINE d == Subject(r)
             a == answer[r]
             newRow == [status |-> IF a.via = "permanent" THEN "REDIRECTED" ELSE "ACTIVE",
                        describes |-> a.content]
             v == [hash |-> a.content, tag |-> a.tag, usable |-> a.via = "direct"]
  <1>1. /\ step[r] = "write" /\ a.kind = "content" /\ holder = r
        /\ row' = [row EXCEPT ![d] = newRow] /\ current' = [current EXCEPT ![d] = v]
        /\ Changed(d, seen[r].version, a.content)
        /\ Report(r) /\ UNCHANGED <<page, holder, config, plan, report>>
    BY DEF CommitRevision, Renewed
  <1>2. d \in Document /\ step[r] \in Working
    BY <1>1, SubjectIsDocument DEF IInv, Working
  <1>3. a.content \in Content /\ a.tag \in {None, a.content}
    BY <1>1 DEF IInv, RunsInv, MemoryOf
  <1>4. newRow \in Row /\ v \in Version /\ TrueTag(v)
    BY <1>3 DEF Row, Status, Version, TrueTag
  <1>5. newRow.describes = v.hash
    OBVIOUS
  <1>6. seen[r].version \in Version \cup {NoVersion}
    BY SeenType DEF IInv
  <1> HIDE DEF d, a
  <1>7. StoredInv' /\ RowsStay
    <2> HIDE DEF newRow, v
    <2> QED
      BY <1>1, <1>2, <1>4, <1>5, DocumentWritten
  <1>8. changes' \in [Document -> (Content \X Content) \cup {None}]
    <2>1. seen[r].version # NoVersion => seen[r].version.hash \in Content
      BY <1>6 DEF Version
    <2> QED
      BY <1>1, <1>2, <1>3, <2>1 DEF Changed, IInv, TypeOK
  <1>9. CatalogueTypes'
    <2> HIDE DEF newRow, v
    <2> QED
      BY <1>1, <1>2, <1>4, <1>8 DEF CatalogueTypes, IInv, TypeOK
  <1> QED
    BY <1>1, <1>2, <1>7, <1>9, WriteKeeps

LEMMA TouchKeeps ==
  ASSUME IInv, NEW r \in Run, Touch(r)
  PROVE  IInv'
  <1> DEFINE d == Subject(r)
             a == answer[r]
             old == current[d]
             moved == [status |-> "REDIRECTED", describes |-> seen[r].row.describes]
             v == [hash |-> old.hash, tag |-> IF a.tag = None THEN old.tag ELSE a.tag,
                   usable |-> old.usable]
  <1>1. /\ step[r] = "write" /\ a.kind = "unchanged" /\ holder = r
        /\ row' = row \/ row' = [row EXCEPT ![d] = moved]
        /\ Refresh(d, a.tag)
        /\ Report(r) /\ UNCHANGED <<page, changes, holder, config, plan, report>>
    BY DEF Touch, Renewed
  <1>2. d \in Document /\ step[r] \in Working
    BY <1>1, SubjectIsDocument DEF IInv, Working
  <1>3. /\ seen[r].version # NoVersion /\ a.content = seen[r].version.hash
        /\ a.content \in Content /\ a.tag \in {None, a.content} /\ Known(r)
    BY <1>1 DEF IInv, RunsInv, MemoryOf
  <1>4. /\ old # NoVersion /\ (old.usable => old.hash = a.content)
        /\ d \notin Ingested => seen[r].row = row[d]
    BY <1>1, <1>2, <1>3 DEF IInv, RunsInv, ReadingOf, Working
  <1>5. /\ old \in Version /\ row[d] \in Row /\ TrueTag(old)
        /\ d \notin Ingested => row[d].describes = old.hash
    BY <1>2, <1>4 DEF IInv, TypeOK, StoredInv, StoredOf
  <1>6. v \in Version /\ TrueTag(v) /\ v.hash = old.hash
    BY <1>3, <1>4, <1>5 DEF Version, TrueTag
  <1>7. moved \in Row /\ moved.describes = seen[r].row.describes
    BY <1>3, SeenType DEF IInv, Row, Status, Known
  <1>8. current' = [current EXCEPT ![d] = v]
    BY <1>1 DEF Refresh
  <1> HIDE DEF d, a, old
  <1>9. PICK newRow \in Row : /\ row' = [row EXCEPT ![d] = newRow]
                              /\ d \notin Ingested => newRow.describes = v.hash
    <2> HIDE DEF moved, v
    <2>1. CASE row' = row
      <3>1. row' = [row EXCEPT ![d] = row[d]]
        BY <1>2, <2>1 DEF IInv, TypeOK
      <3> QED
        BY <1>5, <1>6, <3>1
    <2>2. CASE row' = [row EXCEPT ![d] = moved]
      BY <1>4, <1>5, <1>6, <1>7, <2>2
    <2> QED
      BY <1>1, <2>1, <2>2
  <1> HIDE DEF v
  <1>10. StoredInv' /\ RowsStay
    BY <1>2, <1>6, <1>8, <1>9, DocumentWritten
  <1>11. CatalogueTypes'
    BY <1>1, <1>2, <1>6, <1>8, <1>9 DEF CatalogueTypes, IInv, TypeOK
  <1> QED
    BY <1>1, <1>2, <1>10, <1>11, WriteKeeps

LEMMA MarkMissingKeeps ==
  ASSUME IInv, NEW r \in Run, MarkMissing(r)
  PROVE  IInv'
  <1> DEFINE d == Subject(r)
             newRow == [status |-> IF answer[r].kind = "gone" THEN "REMOVED" ELSE "STALE",
                        describes |-> seen[r].row.describes]
  <1>1. /\ step[r] = "write" /\ Known(r) /\ holder = r
        /\ row' = [row EXCEPT ![d] = newRow]
        /\ Report(r) /\ UNCHANGED <<page, current, changes, holder, config, plan, report>>
    BY DEF MarkMissing, Missing, Renewed
  <1>2. d \in Document /\ step[r] \in Working
    BY <1>1, SubjectIsDocument DEF IInv, Working
  <1>3. row[d] # NoRow /\ (d \notin Ingested => seen[r].row = row[d])
    BY <1>1, <1>2 DEF IInv, RunsInv, ReadingOf, Working
  <1>4. newRow \in Row
    BY <1>1, SeenType DEF IInv, Row, Status, Known
  <1>5. /\ TrueTag(current[d]) /\ current[d] \in Version \cup {NoVersion}
        /\ d \notin Ingested => newRow.describes = current[d].hash
    BY <1>2, <1>3 DEF IInv, TypeOK, StoredInv, StoredOf
  <1>6. current' = [current EXCEPT ![d] = current[d]]
    BY <1>1, <1>2 DEF IInv, TypeOK
  <1> HIDE DEF d, newRow
  <1>7. StoredInv' /\ RowsStay
    BY <1>1, <1>2, <1>3, <1>4, <1>5, <1>6, DocumentWritten
  <1>8. CatalogueTypes'
    BY <1>1, <1>2, <1>4 DEF CatalogueTypes, IInv, TypeOK
  <1> QED
    BY <1>1, <1>2, <1>7, <1>8, WriteKeeps

(* The entries that are reported without a write.                          *)
LEMMA EntryKeeps ==
  ASSUME IInv, NEW r \in Run, step[r] \in Working, Report(r), UNCHANGED <<shared, plan>>
  PROVE  IInv'
  <1>1. UNCHANGED <<page, row, current, changes, holder, config, plan, report>>
    BY DEF shared, catalogue
  <1>2. CatalogueTypes'
    BY <1>1 DEF CatalogueTypes, IInv, TypeOK
  <1> QED
    BY <1>1, <1>2, StoredStays, WriteKeeps

-----------------------------------------------------------------------------
(***************************************************************************)
(* The end of a run, and what the others do.                               *)
(***************************************************************************)
LEMMA AbortKeeps ==
  ASSUME IInv, NEW r \in Run, Abort(r)
  PROVE  IInv'
  <1> USE DEF IInv
  <1>1. /\ step' = [step EXCEPT ![r] = "abort"]
        /\ seen' = [seen EXCEPT ![r] = Unread] /\ answer' = [answer EXCEPT ![r] = NoAnswer]
        /\ UNCHANGED <<page, row, current, changes, holder, config, report, plan, handled>>
    BY DEF Abort, shared, catalogue
  <1>2. \A q \in Run \ {r} : MemoryStays(q)
    BY <1>1 DEF MemoryStays, TypeOK
  <1>3. step'[r] = "abort" /\ seen'[r] = Unread /\ answer'[r] = NoAnswer
    BY <1>1 DEF TypeOK
  <1>4. LocalTypes'
    <2>1. \A q \in Run : step'[q] \in Working => handled'[q] < Len(plan'[q].selected)
      BY <1>2, <1>3 DEF MemoryStays, TypeOK, Working
    <2> QED
      BY <1>1, <2>1, UnreadType, NoAnswerType DEF LocalTypes, TypeOK, CursorIsKnown
  <1>5. CatalogueTypes' /\ OtherTypes'
    BY <1>1 DEF TypeOK, CatalogueTypes, OtherTypes, CursorIsKnown
  <1>6. ASSUME NEW q \in Run PROVE MemoryOf(q)' /\ ReadingOf(q)'
    <2>1. CASE q = r
      BY <1>3, <2>1, ForgottenIsFine
    <2>2. CASE q # r
      BY <1>1, <1>2, <2>2, StoredStays, OthersKeep DEF RunsInv
    <2> QED
      BY <2>1, <2>2
  <1> QED
    BY <1>1, <1>4, <1>5, <1>6, StoredStays, PartsOfTypesNext DEF RunsInv

LEMMA EndOfRunKeeps ==
  ASSUME IInv, NEW r \in Run, End(r), holder' \in {holder, None},
         UNCHANGED <<page, catalogue, config>>, report' \in Output, CursorIsKnown(report')
  PROVE  IInv'
  <1>1. row' = row /\ current' = current /\ changes' = changes
    BY DEF catalogue
  <1>2. LocalTypes' /\ RunsInv'
    BY <1>1, EndKeeps
  <1>3. CatalogueTypes' /\ OtherTypes'
    BY <1>1 DEF IInv, TypeOK, CatalogueTypes, OtherTypes, CursorIsKnown
  <1> QED
    BY <1>1, <1>2, <1>3, StoredStays, PartsOfTypesNext DEF IInv

LEMMA CompleteKeeps ==
  ASSUME IInv, NEW r \in Run, CompleteRun(r)
  PROVE  IInv'
  <1> DEFINE p == plan[r]
             done == [limited |-> p.limited, cursor |-> p.cursor,
                      fingerprint |-> p.fingerprint, processed |-> p.before \o p.selected]
  <1>1. p \in Plan /\ CursorIsKnown(p)
    BY DEF IInv, TypeOK
  <1>2. p.before \o p.selected \in Seq(Document)
    <2>1. p.before \in Seq(Document) /\ p.selected \in Seq(Document)
      BY <1>1 DEF Plan
    <2> QED
      BY <2>1, ConcatProperties
  <1>3. done \in Output /\ CursorIsKnown(done)
    BY <1>1, <1>2 DEF Plan, Output, CursorIsKnown
  <1>4. /\ End(r) /\ holder' = None /\ report' = done
        /\ UNCHANGED <<page, catalogue, config>>
    BY DEF CompleteRun
  <1> HIDE DEF done
  <1> QED
    BY <1>3, <1>4, EndOfRunKeeps

LEMMA UnreportedEndKeeps ==
  ASSUME IInv, NEW r \in Run, EndAborted(r) \/ Crash(r)
  PROVE  IInv'
  <1>1. /\ End(r) /\ holder' \in {holder, None} /\ report' = report
        /\ UNCHANGED <<page, catalogue, config>>
    BY DEF EndAborted, Crash, shared
  <1>2. report' \in Output /\ CursorIsKnown(report')
    BY <1>1 DEF IInv, TypeOK
  <1> QED
    BY <1>1, <1>2, EndOfRunKeeps

(* Steps outside the runs.                                                 *)
LEMMA OutsideKeeps ==
  ASSUME IInv, local' = local, report' = report, CatalogueTypes', StoredInv',
         page' \in [Document -> Content], config' \in Configurations,
         holder' \in {holder, None}, \A r \in Run : ReadingOf(r)'
  PROVE  IInv'
  <1> USE DEF IInv, local
  <1>1. LocalTypes'
    BY DEF TypeOK, LocalTypes, CursorIsKnown
  <1>2. OtherTypes'
    BY DEF TypeOK, OtherTypes, CursorIsKnown
  <1>3. \A r \in Run : MemoryOf(r)'
    BY DEF RunsInv, MemoryOf, Known, TrueTag
  <1> QED
    BY <1>1, <1>2, <1>3, PartsOfTypesNext DEF RunsInv

LEMMA EnvironmentKeeps ==
  ASSUME IInv, Environment
  PROVE  IInv'
  <1>1. ASSUME RecoverLease \/ (\E d \in Document, c \in Content : ChangePage(d, c))
                 \/ (\E configuration \in Configurations : Configure(configuration))
        PROVE  IInv'
    <2>1. /\ UNCHANGED <<row, current, changes, local, report>>
          /\ holder' \in {holder, None}
      BY <1>1 DEF RecoverLease, ChangePage, Configure, catalogue
    <2>2. page' \in [Document -> Content] /\ config' \in Configurations
      BY <1>1 DEF RecoverLease, ChangePage, Configure, IInv, TypeOK
    <2>3. CatalogueTypes'
      BY <2>1 DEF IInv, TypeOK, CatalogueTypes
    <2>4. ASSUME NEW r \in Run PROVE ReadingOf(r)'
      <3>1. MemoryStays(r) /\ (holder' = r => holder = r)
        BY <2>1, NoneIsNoContent DEF MemoryStays, local
      <3> QED
        BY <2>1, <3>1, StoredStays, OthersKeep DEF IInv, RunsInv
    <2> QED
      BY <2>1, <2>2, <2>3, <2>4, StoredStays, OutsideKeeps
  <1>2. ASSUME NEW d \in Ingested, NEW c \in Content, IngestText(d, c)
        PROVE  IInv'
    <2> DEFINE newRow == [status |-> "ACTIVE", describes |-> c]
               v == [hash |-> c, tag |-> None, usable |-> FALSE]
    <2>1. /\ row' = [row EXCEPT ![d] = newRow] /\ current' = [current EXCEPT ![d] = v]
          /\ UNCHANGED <<page, changes, holder, config, local, report>>
      BY <1>2 DEF IngestText
    <2>2. d \in Document
      BY SyncAssumption
    <2>3. newRow \in Row /\ v \in Version /\ TrueTag(v) /\ ~v.usable
      BY DEF Row, Status, Version, TrueTag
    <2> HIDE DEF newRow, v
    <2>4. StoredInv' /\ RowsStay
      BY <2>1, <2>2, <2>3, DocumentWritten
    <2>5. CatalogueTypes'
      BY <2>1, <2>2, <2>3 DEF CatalogueTypes, IInv, TypeOK
    <2>6. ASSUME NEW r \in Run PROVE ReadingOf(r)'
      <3>1. /\ ReadingOf(r) /\ Known(r)' = Known(r) /\ Subject(r)' = Subject(r)
            /\ step' = step /\ seen' = seen
        BY <2>1 DEF IInv, RunsInv, Known, Subject, local
      <3>2. step[r] \in Working => Subject(r) \in Document
        BY SubjectIsDocument DEF IInv
      <3>3. current'[d] = v /\ v # NoVersion
        BY <2>1, <2>2, <2>3, NoVersionIsNoVersion DEF IInv, TypeOK
      <3>4. \A x \in Document \ {d} : current'[x] = current[x] /\ row'[x] = row[x]
        BY <2>1 DEF IInv, TypeOK
      <3> QED
        BY <2>1, <2>3, <2>4, <3>1, <3>2, <3>3, <3>4 DEF ReadingOf, RowsStay, Working
    <2>7. page' \in [Document -> Content] /\ config' \in Configurations
      BY <2>1 DEF IInv, TypeOK
    <2> QED
      BY <2>1, <2>4, <2>5, <2>6, <2>7, OutsideKeeps
  <1> QED
    BY <1>1, <1>2 DEF Environment

LEMMA StutterKeeps == IInv /\ UNCHANGED vars => IInv'
  <1> SUFFICES ASSUME IInv, UNCHANGED vars PROVE IInv'
    OBVIOUS
  <1>1. /\ UNCHANGED <<page, row, current, changes, holder, config, report>>
        /\ local' = local
    BY DEF vars, shared, catalogue
  <1>2. CatalogueTypes' /\ page' \in [Document -> Content] /\ config' \in Configurations
    BY <1>1 DEF IInv, TypeOK, CatalogueTypes
  <1>3. ASSUME NEW r \in Run PROVE ReadingOf(r)'
    <2>1. MemoryStays(r)
      BY <1>1 DEF MemoryStays, local
    <2> QED
      BY <1>1, <2>1, StoredStays, OthersKeep DEF IInv, RunsInv
  <1> QED
    BY <1>1, <1>2, <1>3, StoredStays, OutsideKeeps

-----------------------------------------------------------------------------
LEMMA NextKeeps == IInv /\ [Next]_vars => IInv'
  <1> SUFFICES ASSUME IInv, [Next]_vars PROVE IInv'
    OBVIOUS
  <1>1. CASE UNCHANGED vars
    BY <1>1, StutterKeeps
  <1>2. CASE Starts
    BY <1>2, StartKeeps DEF Starts
  <1>3. ASSUME NEW r \in Run, Advance(r) PROVE IInv'
    <2>1. CASE SkipDocument(r)
      BY <2>1, EntryKeeps DEF SkipDocument, Working
    <2>2. CASE ReadDocument(r)
      BY <2>2, ReadDocumentKeeps
    <2>3. CASE ReadVersion(r)
      BY <2>3, ReadVersionKeeps
    <2>4. CASE Healthy(r)
      <3>1. Routes \subseteq Via
        BY SyncAssumption DEF Via
      <3> QED
        BY <2>4, <3>1, FetchKeeps DEF Healthy, Kind
    <2>5. CASE CommitRevision(r)
      BY <2>5, CommitKeeps
    <2>6. CASE Touch(r)
      BY <2>6, TouchKeeps
    <2>7. CASE MarkMissing(r)
      BY <2>7, MarkMissingKeeps
    <2>8. CASE RecordUnavailable(r)
      BY <2>8, EntryKeeps DEF RecordUnavailable, Working
    <2>9. CASE MissingUnknown(r)
      BY <2>9, EntryKeeps DEF MissingUnknown, Working
    <2>10. CASE CompleteRun(r)
      BY <2>10, CompleteKeeps
    <2> QED
      BY <1>3, <2>1, <2>2, <2>3, <2>4, <2>5, <2>6, <2>7, <2>8, <2>9, <2>10 DEF Advance, Write
  <1>4. ASSUME NEW r \in Run, Failure(r) PROVE IInv'
    <2>1. CASE Faulty(r)
      BY <2>1, FetchKeeps DEF Faulty, Kind, Via
    <2>2. CASE DocumentFails(r)
      BY <2>2, EntryKeeps DEF DocumentFails, Working
    <2>3. CASE Abort(r)
      BY <2>3, AbortKeeps
    <2>4. CASE EndAborted(r) \/ Crash(r)
      BY <2>4, UnreportedEndKeeps
    <2> QED
      BY <1>4, <2>1, <2>2, <2>3, <2>4 DEF Failure
  <1>5. CASE Environment
    BY <1>5, EnvironmentKeeps
  <1> QED
    BY <1>1, <1>2, <1>3, <1>4, <1>5 DEF Next

LEMMA SpecIInv == Spec => []IInv
  BY InitIInv, NextKeeps, PTL DEF Spec

(* The state is well typed, and every validator a later request carries is *)
(* the one the page gave with the content of the version beside it         *)
(* (refreshCurrentVersionValidators, usesCurrentExtractionContract).       *)
THEOREM SyncInvariant == Spec => []SyncInv
  BY SpecIInv, IInvImplies, PTL

(* A 404, a 410 or a 304 that writes a row back never brings back a title  *)
(* or a URL of an older version (reconcileMissingRemote).                  *)
THEOREM RowsDescribeTheirVersions == Spec => []RowDescribesItsVersion
  BY SpecIInv, IInvImplies, PTL

(* What a run has written of a page is what the page had                   *)
(* (reconcileFetched, reconcileNotModified).                               *)
THEOREM WritesAreWhatThePageHad == Spec => SyncedIsWhatThePageHad
  <1>1. ASSUME IInv, NEW r \in Run,
               CommitRevision(r) \/ (Touch(r) /\ current[Subject(r)].hash = seen[r].version.hash)
        PROVE  current'[Subject(r)].hash = answer[r].content
    <2>1. Subject(r) \in Document /\ step[r] = "write"
      <3>1. step[r] = "write"
        BY <1>1 DEF CommitRevision, Touch
      <3> QED
        BY <1>1, <3>1, SubjectIsDocument DEF IInv, Working
    <2>2. CASE CommitRevision(r)
      BY <1>1, <2>1, <2>2 DEF CommitRevision, IInv, TypeOK
    <2>3. CASE Touch(r) /\ current[Subject(r)].hash = seen[r].version.hash
      <3>1. answer[r].content = seen[r].version.hash
        BY <1>1, <2>1, <2>3 DEF Touch, IInv, RunsInv, MemoryOf
      <3> QED
        BY <1>1, <2>1, <2>3, <3>1 DEF Touch, Refresh, IInv, TypeOK
    <2> QED
      BY <1>1, <2>2, <2>3
  <1>2. IInv /\ [Next]_vars =>
          [\A r \in Run :
             CommitRevision(r) \/ (Touch(r) /\ current[Subject(r)].hash = seen[r].version.hash)
               => current'[Subject(r)].hash = answer[r].content]_vars
    BY <1>1
  <1> QED
    BY SpecIInv, <1>2, PTL DEF Spec, SyncedIsWhatThePageHad

(* A version never replaces another without the event that names both, nor *)
(* with an event about a version that was already gone                     *)
(* (createFetchedDocumentObservation).                                     *)
THEOREM ReplacementsAreRecorded == Spec => ChangesAreRecorded
  <1> DEFINE Recorded ==
        \A d \in Document \ Ingested :
          current[d] # NoVersion /\ current'[d].hash # current[d].hash
            => changes'[d] = <<current[d].hash, current'[d].hash>>
  <1>1. ASSUME IInv, [Next]_vars PROVE Recorded
    <2>1. ASSUME NEW r \in Run, CommitRevision(r) PROVE Recorded
      <3> SUFFICES ASSUME NEW d \in Document \ Ingested,
                          current[d] # NoVersion, current'[d].hash # current[d].hash
                   PROVE  changes'[d] = <<current[d].hash, current'[d].hash>>
        OBVIOUS
      <3>1. /\ step[r] = "write" /\ holder = r
            /\ Changed(Subject(r), seen[r].version, answer[r].content)
            /\ current' = [current EXCEPT ![Subject(r)] =
                              [hash |-> answer[r].content, tag |-> answer[r].tag,
                               usable |-> answer[r].via = "direct"]]
        BY <2>1 DEF CommitRevision, Renewed
      <3>2. d = Subject(r) /\ current'[d].hash = answer[r].content
        BY <1>1, <3>1 DEF IInv, TypeOK
      <3>3. seen[r].version = current[d]
        BY <1>1, <3>1, <3>2 DEF IInv, RunsInv, ReadingOf, Working
      <3> QED
        BY <1>1, <3>1, <3>2, <3>3 DEF Changed, IInv, TypeOK
    <2>2. ASSUME NEW r \in Run, Touch(r) PROVE Recorded
      BY <1>1, <2>2 DEF Touch, Refresh, IInv, TypeOK
    <2>3. ASSUME NEW d \in Ingested, NEW c \in Content, IngestText(d, c) PROVE Recorded
      BY <1>1, <2>3 DEF IngestText, IInv, TypeOK
    <2>4. CASE current' = current
      BY <2>4
    <2>5. \/ current' = current
          \/ \E r \in Run : CommitRevision(r) \/ Touch(r)
          \/ \E d \in Ingested, c \in Content : IngestText(d, c)
      <3> USE DEF shared, catalogue
      <3>1. CASE UNCHANGED vars \/ Starts
        BY <3>1 DEF vars, Starts, Start
      <3>2. ASSUME NEW r \in Run, Advance(r)
            PROVE  current' = current \/ CommitRevision(r) \/ Touch(r)
        BY <3>2 DEF Advance, SkipDocument, ReadDocument, ReadVersion, Healthy, Fetch, Write,
             MarkMissing, RecordUnavailable, MissingUnknown, CompleteRun
      <3>3. ASSUME NEW r \in Run, Failure(r) PROVE current' = current
        BY <3>3 DEF Failure, Faulty, Fetch, DocumentFails, Abort, EndAborted, Crash
      <3>4. ASSUME Environment
            PROVE  current' = current \/ \E d \in Ingested, c \in Content : IngestText(d, c)
        BY <3>4 DEF Environment, RecoverLease, ChangePage, Configure
      <3> QED
        BY <1>1, <3>1, <3>2, <3>3, <3>4 DEF Next
    <2> QED
      BY <2>1, <2>2, <2>3, <2>4, <2>5
  <1>2. IInv /\ [Next]_vars => [Recorded]_vars
    BY <1>1
  <1> QED
    BY SpecIInv, <1>2, PTL DEF Spec, ChangesAreRecorded
-----------------------------------------------------------------------------
(***************************************************************************)
(* The batches.  What has been processed, with or without what the run is  *)
(* at, is the beginning of the configuration that its fingerprint names: up*)
(* to the cursor of a limited plan, and all of it otherwise.               *)
(***************************************************************************)
Covers(fingerprint, limited, cursor, processed) ==
  \E n \in 0 .. Len(fingerprint[1]) :
    /\ processed = SubSeq(fingerprint[1], 1, n)
    /\ limited => n > 0 /\ cursor = fingerprint[1][n]
    /\ ~limited => n = Len(fingerprint[1])

OutputCovers(o) ==
  o.fingerprint \in Configurations /\ Covers(o.fingerprint, o.limited, o.cursor, o.processed)

PlanCovers(p) ==
  /\ p.fingerprint \in Configurations
  /\ Covers(p.fingerprint, p.limited, p.cursor, p.before \o p.selected)

BatchInv ==
  /\ report = NoReport \/ OutputCovers(report)
  /\ \A r \in Run : step[r] = "idle" \/ PlanCovers(plan[r])

(* The documents of a configuration differ, so a cursor has one index.     *)
LEMMA CursorIsAfterTheProcessed ==
  ASSUME NEW c \in Configurations, NEW n \in 1 .. Len(c[1])
  PROVE  CursorIndex(c[1], c[1][n]) = n
  <1>1. c[1] \in Seq(Document) /\ IsInjective(c[1]) /\ DOMAIN c[1] = 1 .. Len(c[1])
    BY SyncAssumption
  <1>2. \A i \in DOMAIN c[1] : c[1][i] = c[1][n] => i = n
    BY <1>1 DEF IsInjective
  <1> QED
    BY <1>1, <1>2 DEF CursorIndex

LEMMA ExecutionPlanCovers ==
  ASSUME TypeOK, BatchInv, NEW limit \in Limits, NEW resuming \in BOOLEAN,
         resuming => MayResume
  PROVE  PlanCovers(ExecutionPlan(limit, resuming))
  <1> DEFINE documents == config[1]
             first == IF resuming THEN CursorIndex(documents, report.cursor) ELSE 0
             rest == SubSeq(documents, first + 1, Len(documents))
             kept == IF limit < Len(rest) THEN limit ELSE Len(rest)
             selected == SubSeq(rest, 1, kept)
             limited == Len(selected) < Len(rest)
             cursor == IF limited THEN Last(selected)
                       ELSE IF resuming THEN report.cursor ELSE None
             before == IF resuming THEN report.processed ELSE <<>>
             p == [selected |-> selected, enabled |-> config[2], limited |-> limited,
                   cursor |-> cursor, fingerprint |-> config, before |-> before]
  <1>1. config \in Configurations /\ documents \in Seq(Document) /\ Len(documents) \in Nat
    BY SyncAssumption DEF TypeOK
  <1>2. limit \in Nat \ {0}
    BY SyncAssumption
  <1>3. first \in 0 .. Len(documents) /\ before = SubSeq(documents, 1, first)
    <2>1. CASE resuming
      <3>1. report.limited /\ report.fingerprint = config
        BY <2>1 DEF MayResume
      <3>2. OutputCovers(report)
        BY <3>1 DEF BatchInv, NoReport
      <3>3. PICK n \in 0 .. Len(documents) :
              report.processed = SubSeq(documents, 1, n) /\ n > 0
                /\ report.cursor = documents[n]
        BY <3>1, <3>2 DEF OutputCovers, Covers
      <3>4. first = n
        BY <1>1, <2>1, <3>3, CursorIsAfterTheProcessed
      <3> QED
        BY <2>1, <3>3, <3>4
    <2>2. CASE ~resuming
      <3>1. SubSeq(documents, 1, 0) = <<>>
        BY <1>1, SubSeqEmpty
      <3> QED
        BY <1>1, <2>2, <3>1
    <2> QED
      BY <2>1, <2>2
  <1> HIDE DEF documents, first, before
  <1>4. rest \in Seq(Document) /\ Len(rest) = Len(documents) - first
    BY <1>1, <1>3
  <1>5. kept \in 0 .. Len(rest) /\ (kept < Len(rest) => kept # 0)
    <2> HIDE DEF rest
    <2> QED
      BY <1>2, <1>4
  <1> DEFINE n == first + kept
  <1>6. n \in 0 .. Len(documents) /\ kept \in Int /\ first \in Int
    <2> HIDE DEF rest, kept
    <2> QED
      BY <1>1, <1>3, <1>4, <1>5
  <1>7. selected = SubSeq(documents, first + 1, n)
    <2>1. CASE kept = 0
      <3> HIDE DEF rest, kept
      <3> QED
        BY <1>1, <1>3, <1>4, <1>6, <2>1, SubSeqEmpty
    <2>2. CASE kept # 0
      <3> HIDE DEF kept
      <3>1. kept \in 1 .. Len(rest)
        BY <1>4, <1>5, <2>2
      <3>2. /\ first + 1 \in 1 .. Len(documents)
            /\ 1 \in 1 .. Len(documents) + 1 - (first + 1)
            /\ kept \in 0 .. Len(documents) + 1 - (first + 1)
            /\ first + 1 + 1 - 1 = first + 1 /\ first + 1 + kept - 1 = n
        <4> HIDE DEF rest
        <4> QED
          BY <1>1, <1>3, <1>4, <1>6, <3>1
      <3> QED
        BY <1>1, <1>3, <1>4, <1>6, <3>1, <3>2
    <2> QED
      BY <2>1, <2>2
  <1>8. /\ Len(selected) = kept
        /\ limited <=> n < Len(documents)
        /\ kept # 0 => Last(selected) = documents[n]
    <2> HIDE DEF rest, kept
    <2>1. Len(selected) = kept
      BY <1>4, <1>5
    <2>2. kept # 0 => selected[kept] = documents[n]
      <3> HIDE DEF selected, n
      <3>1. kept # 0 => n - first = kept /\ kept \in 1 .. n - first /\ first + kept = n
        BY <1>3, <1>5, <1>6 DEF n
      <3> QED
        BY <1>1, <1>3, <1>6, <1>7, <3>1
    <2> HIDE DEF selected
    <2> QED
      BY <1>1, <1>3, <1>4, <1>5, <1>6, <2>1, <2>2 DEF Last, limited
  <1>9. before \o selected = SubSeq(documents, 1, n)
    <2> HIDE DEF selected, n
    <2>1. first \in 0 .. n
      BY <1>3, <1>5, <1>6 DEF n
    <2> QED
      BY <1>1, <1>3, <1>6, <1>7, <2>1, ConcatAdjacentSubSeq
  <1>10. ExecutionPlan(limit, resuming) = p
    BY DEF ExecutionPlan, documents, first, before
  <1> HIDE DEF selected, limited, rest, kept, n
  <1>11. Covers(config, limited, cursor, before \o selected)
    <2>1. limited => n > 0 /\ cursor = documents[n]
      BY <1>3, <1>4, <1>5, <1>6, <1>8 DEF n, limited
    <2>2. ~limited => n = Len(documents)
      BY <1>1, <1>6, <1>8
    <2> QED
      BY <1>6, <1>9, <2>1, <2>2 DEF Covers, documents
  <1> QED
    BY <1>1, <1>10, <1>11 DEF PlanCovers

(* A plan is made when its run starts and lasts until it ends.             *)
LEMMA BatchStep ==
  ASSUME TypeOK, BatchInv, [Next]_vars
  PROVE  BatchInv'
  <1> USE DEF shared, catalogue, local
  <1>1. ASSUME report' = report,
               \A r \in Run : step'[r] = "idle" \/ (step[r] # "idle" /\ plan'[r] = plan[r])
        PROVE  BatchInv'
    BY <1>1 DEF BatchInv
  <1>2. CASE UNCHANGED vars
    BY <1>1, <1>2 DEF vars
  <1>3. ASSUME NEW r \in Run, NEW limit \in Limits, NEW resuming \in BOOLEAN,
               Start(r, limit, resuming)
        PROVE  BatchInv'
    <2>1. PlanCovers(ExecutionPlan(limit, resuming))
      BY <1>3, ExecutionPlanCovers DEF Start
    <2>2. plan' = [plan EXCEPT ![r] = ExecutionPlan(limit, resuming)] /\ report' = report
      BY <1>3 DEF Start
    <2>3. \A q \in Run \ {r} : step'[q] = step[q]
      BY <1>3 DEF Start, TypeOK
    <2> QED
      BY <2>1, <2>2, <2>3 DEF BatchInv, TypeOK
  <1>4. ASSUME NEW r \in Run, Report(r), step[r] # "idle", plan' = plan, report' = report
        PROVE  BatchInv'
    BY <1>1, <1>4 DEF Report, TypeOK
  <1>5. ASSUME NEW r \in Run, End(r)
        PROVE  \A q \in Run : step'[q] = "idle" \/ (step'[q] = step[q] /\ plan'[q] = plan[q])
    BY <1>5 DEF End, TypeOK
  <1>6. ASSUME NEW r \in Run, CompleteRun(r)
        PROVE  BatchInv'
    <2>1. PlanCovers(plan[r])
      BY <1>6 DEF CompleteRun, BatchInv
    <2>2. OutputCovers(report)'
      BY <1>6, <2>1 DEF CompleteRun, PlanCovers, OutputCovers
    <2>3. End(r)
      BY <1>6 DEF CompleteRun
    <2> QED
      BY <1>5, <2>2, <2>3 DEF BatchInv
  <1>7. ASSUME NEW r \in Run, EndAborted(r) \/ Crash(r)
        PROVE  BatchInv'
    <2>1. End(r) /\ report' = report
      BY <1>7 DEF EndAborted, Crash
    <2> QED
      BY <1>5, <2>1 DEF BatchInv
  <1>8. ASSUME NEW r \in Run, ReadDocument(r) \/ ReadVersion(r) \/ Healthy(r) \/ Faulty(r) \/ Abort(r)
        PROVE  BatchInv'
    BY <1>1, <1>8 DEF ReadDocument, ReadVersion, Healthy, Faulty, Fetch, Abort, TypeOK
  <1>9. ASSUME NEW r \in Run, SkipDocument(r) \/ DocumentFails(r) \/ Write(r)
        PROVE  BatchInv'
    BY <1>4, <1>9
    DEF SkipDocument, DocumentFails, Write, CommitRevision, Touch, MarkMissing,
        RecordUnavailable, MissingUnknown
  <1>10. CASE Environment
    BY <1>1, <1>10 DEF Environment, RecoverLease, IngestText, ChangePage, Configure
  <1> QED
    BY <1>2, <1>3, <1>6, <1>7, <1>8, <1>9, <1>10 DEF Next, Starts, Advance, Failure

(* The batches an operator chains with a limit and a cursor take every     *)
(* document of one configuration, once each and in its order, whatever is  *)
(* cut off, fenced or configured meanwhile (createExecutionPlan).          *)
THEOREM BatchesFollowOneConfiguration == Spec => []BatchesCoverTheConfiguration
  <1>1. Init => BatchInv
    BY DEF Init, BatchInv
  <1>2. TypeOK /\ BatchInv /\ [Next]_vars => BatchInv'
    BY BatchStep
  <1>3. BatchInv => BatchesCoverTheConfiguration
    <2> SUFFICES ASSUME OutputCovers(report)
                 PROVE  LET documents == report.fingerprint[1]
                        IN  /\ IsPrefix(report.processed, documents)
                            /\ report.limited => Last(report.processed) = report.cursor
                            /\ ~report.limited => report.processed = documents
      BY DEF BatchInv, BatchesCoverTheConfiguration
    <2> DEFINE documents == report.fingerprint[1]
    <2>1. documents \in Seq(Document)
      BY SyncAssumption DEF OutputCovers
    <2>2. PICK n \in 0 .. Len(documents) :
            /\ report.processed = SubSeq(documents, 1, n)
            /\ report.limited => n > 0 /\ report.cursor = documents[n]
            /\ ~report.limited => n = Len(documents)
      BY DEF OutputCovers, Covers
    <2> HIDE DEF documents
    <2>3. /\ SubSeq(documents, 1, n) \in Seq(Document)
          /\ Len(SubSeq(documents, 1, n)) = n
          /\ \A i \in 1 .. n : SubSeq(documents, 1, n)[i] = documents[i]
      BY <2>1
    <2>4. SubSeq(SubSeq(documents, 1, n), 1, n) = SubSeq(documents, 1, n)
      BY <2>3, SubSeqFull
    <2>5. n = Len(documents) => SubSeq(documents, 1, n) = documents
      BY <2>1, SubSeqFull
    <2> QED
      BY <2>1, <2>2, <2>3, <2>4, <2>5 DEF IsPrefix, Last, documents
  <1>4. SyncInv => TypeOK
    BY DEF SyncInv
  <1> QED
    BY <1>1, <1>2, <1>3, <1>4, SyncInvariant, PTL DEF Spec

-----------------------------------------------------------------------------
(***************************************************************************)
(* The lock beside the synchronizations: its part of a behaviour is one of *)
(* FileLeaseLock, whose theorems hold of it.                               *)
(***************************************************************************)
LockFacts == INSTANCE FileLeaseLockProofs WITH
  Proc <- Lifetimes, PidOf <- ReusedPids, HostOf <- TwoHosts, ProbeMayFail <- FALSE,
  FilesMayFail <- FALSE, seen <- read

(* Lock and LockFacts are instances of the same definitions.               *)
LEMMA SameLock == Lock!Next => LockFacts!Next
  BY DEF
    Lock!files, LockFacts!files, Lock!File, LockFacts!File, Lock!Holding, LockFacts!Holding,
    Lock!Releasing, LockFacts!Releasing, Lock!Alive, LockFacts!Alive, Lock!PidInUse,
    LockFacts!PidInUse, Lock!IoFails, LockFacts!IoFails, Lock!Goto, LockFacts!Goto,
    Lock!Expire, LockFacts!Expire, Lock!Launch, LockFacts!Launch, Lock!Die, LockFacts!Die,
    Lock!Create, LockFacts!Create, Lock!FileOpened, LockFacts!FileOpened, Lock!Write,
    LockFacts!Write, Lock!PublishFirst, LockFacts!PublishFirst, Lock!Owns, LockFacts!Owns,
    Lock!Rollback, LockFacts!Rollback, Lock!Lost, LockFacts!Lost, Lock!RemoveLock,
    LockFacts!RemoveLock, Lock!RollbackUnlink, LockFacts!RollbackUnlink, Lock!Read,
    LockFacts!Read, Lock!Expired, LockFacts!Expired, Lock!MayBeStale, LockFacts!MayBeStale,
    Lock!JudgeAge, LockFacts!JudgeAge, Lock!AgeDecides, LockFacts!AgeDecides,
    Lock!PidIsIdentity, LockFacts!PidIsIdentity, Lock!IdentityOutcomes,
    LockFacts!IdentityOutcomes, Lock!Probe, LockFacts!Probe, Lock!TryAgain,
    LockFacts!TryAgain, Lock!Rename, LockFacts!Rename, Lock!IsTheFileSeen,
    LockFacts!IsTheFileSeen, Lock!Verify, LockFacts!Verify, Lock!Restore, LockFacts!Restore,
    Lock!CleanUp, LockFacts!CleanUp, Lock!CheckOwner, LockFacts!CheckOwner,
    Lock!PublishHeartbeat, LockFacts!PublishHeartbeat, Lock!ConfirmOwner,
    LockFacts!ConfirmOwner, Lock!Finish, LockFacts!Finish, Lock!AfterOwnerCheck,
    LockFacts!AfterOwnerCheck, Lock!Release, LockFacts!Release, Lock!RetryRelease,
    LockFacts!RetryRelease, Lock!Unlink, LockFacts!Unlink, Lock!RemoveHeartbeat,
    LockFacts!RemoveHeartbeat, Lock!AcquireStep, LockFacts!AcquireStep, Lock!RecoveryStep,
    LockFacts!RecoveryStep, Lock!LeaseStep, LockFacts!LeaseStep, Lock!Next, LockFacts!Next

(* A recovery never takes the lock of a process that lives, and no process *)
(* that ended leaves a heartbeat, wherever the lock stands beside          *)
(* synchronizations (recoverStaleLock, release).                           *)
THEOREM LocksAreSoundBesideSyncs == MCSpec => []RecoveryIsSound
  <1>1. MCInit => LockFacts!Init
    BY DEF MCInit, Lock!Init, LockFacts!Init
  <1>2. [MCNext]_mcVars => [LockFacts!Next]_(LockFacts!vars)
    BY SameLock DEF MCNext, Syncs, Locks, Rest, mcVars, lockVars, LockFacts!vars, LockFacts!files
  <1>3. MCSpec => LockFacts!Spec
    BY <1>1, <1>2, PTL DEF MCSpec, LockFacts!Spec
  <1>4. NoFile \notin Lifetimes
    BY LockAssumption DEF Lock!FileAssumption
  <1>5. LockFacts!Spec => []LockFacts!RecoveredOwnersAreDead
    BY <1>4, LockFacts!LiveOwnersAreNotRecovered
  <1>6. LockFacts!Spec => []LockFacts!NoHeartbeatIsLeft
    BY <1>4, LockFacts!NoHeartbeatStays
  <1>7. LockFacts!RecoveredOwnersAreDead /\ LockFacts!NoHeartbeatIsLeft => RecoveryIsSound
    BY DEF RecoveryIsSound, Lock!RecoveredOwnersAreDead, LockFacts!RecoveredOwnersAreDead,
           Lock!NoHeartbeatIsLeft, LockFacts!NoHeartbeatIsLeft
  <1> QED
    BY <1>3, <1>5, <1>6, <1>7, PTL
=============================================================================
