---------------------------- MODULE CatalogSync -----------------------------
(***************************************************************************)
(* Synchronization runs (SyncCatalogDocuments) over the documents of one   *)
(* source.  A run takes the lease of the source, then reads, fetches and   *)
(* writes one document after the other; between two of these steps another *)
(* process may take the lease away and run itself, an operator may ingest a*)
(* text, and the remote pages may change.                                  *)
(*                                                                         *)
(* The lease is that of SyncScopeLease, which CatalogSyncRuns implements:  *)
(* holder is the run whose token the RUNNING row of sync_runs holds.  Every*)
(* write of a run renews the lease in its own transaction, or fails.  Of a *)
(* document there is its row and its current version; CatalogRevisions has *)
(* every version, the sections and the index.                              *)
(***************************************************************************)
EXTENDS Integers, Sequences, SequencesExt

CONSTANTS Run, Document,
          Content,         \* content hashes of the remote pages
          None,            \* an SQL NULL, or no run
          Configurations,  \* <<documents of catalog-sources.yml, source enabled>>
          Limits,          \* values of --limit; one may exceed every sequence
          Routes,          \* how a page may be reached, see Via
          Faults,          \* which of "answers", "writes", "crash" may occur
          Ingested         \* documents that ingest-text also writes

ASSUME SyncAssumption ==
  /\ None \notin Content \cup Run
  /\ Configurations \subseteq Seq(Document) \X BOOLEAN
  /\ \A c \in Configurations : IsInjective(c[1])
  /\ Limits \subseteq Nat \ {0}
  /\ Routes \subseteq {"direct", "temporary", "permanent"}
  /\ Ingested \subseteq Document

VARIABLES page,       \* the content of each remote page
          row,        \* the row of each document
          current,    \* the current version of each document
          changes,    \* last CONTENT_HASH_CHANGED event of each document
          holder,     \* the run that holds the lease of the source
          config,     \* the configuration, and whether the source is enabled
          step, plan, handled, seen, answer, \* what each run has in memory
          report      \* output of the last run that ended well

local == <<step, plan, handled, seen, answer>>
catalogue == <<row, current, changes>>
shared == <<page, catalogue, holder, config, report>>
vars == <<shared, local>>

(* A row has a status and the title and URL of some content; a version has *)
(* its hash and a validator, which is usable when the metadata tell that a *)
(* synchronization wrote it, under this extraction contract, with the      *)
(* requested URL as final URL.                                             *)
Status == {"ACTIVE", "STALE", "REDIRECTED", "REMOVED"}
Row == [status : Status, describes : Content]
NoRow == [status |-> "ABSENT", describes |-> None]
Version == [hash : Content, tag : Content \cup {None}, usable : BOOLEAN]
NoVersion == [hash |-> None, tag |-> None, usable |-> FALSE]

(* A page answers 304 only to the tag of its content, and a redirected     *)
(* request never carries the tag to another URL.                           *)
Kind == {"content", "unchanged", "missing", "gone", "unavailable"}
Via == {"direct", "temporary", "permanent"}
Answer == [kind : Kind, content : Content \cup {None}, tag : Content \cup {None}, via : Via]
NoAnswer == [kind |-> "unavailable", content |-> None, tag |-> None, via |-> "direct"]

NoPlan == [selected |-> <<>>, enabled |-> FALSE, limited |-> FALSE,
           cursor |-> None, fingerprint |-> None, before |-> <<>>]
NoReport == [limited |-> FALSE, cursor |-> None,
             fingerprint |-> None, processed |-> <<>>]

Unread == [row |-> NoRow, version |-> NoVersion]

Subject(r) == plan[r].selected[handled[r] + 1]
Known(r) == seen[r].row # NoRow

-----------------------------------------------------------------------------
Init ==
  /\ page \in [Document -> Content]
  /\ row = [d \in Document |-> NoRow]
  /\ current = [d \in Document |-> NoVersion]
  /\ changes = [d \in Document |-> None]
  /\ holder = None
  /\ config \in Configurations
  /\ step = [r \in Run |-> "idle"]
  /\ plan = [r \in Run |-> NoPlan]
  /\ seen = [r \in Run |-> Unread]
  /\ answer = [r \in Run |-> NoAnswer]
  /\ handled = [r \in Run |-> 0]
  /\ report = NoReport

(* The entry of a document is reported, and the next one comes.            *)
Report(r) ==
  /\ handled' = [handled EXCEPT ![r] = @ + 1]
  /\ step' = [step EXCEPT ![r] =
                IF handled'[r] = Len(plan[r].selected) THEN "complete" ELSE "document"]
  /\ seen' = [seen EXCEPT ![r] = Unread]
  /\ answer' = [answer EXCEPT ![r] = NoAnswer]

(* What a run has in memory is gone when it ends.                          *)
End(r) ==
  /\ step' = [step EXCEPT ![r] = "idle"]
  /\ plan' = [plan EXCEPT ![r] = NoPlan]
  /\ seen' = [seen EXCEPT ![r] = Unread]
  /\ answer' = [answer EXCEPT ![r] = NoAnswer]
  /\ handled' = [handled EXCEPT ![r] = 0]

(***************************************************************************)
(* createExecutionPlan and the start of the run.                           *)
(***************************************************************************)
CursorIndex(documents, cursor) ==
  CHOOSE i \in DOMAIN documents : documents[i] = cursor

LimitedReport == report.limited

(* The operator resumes after a limited report, with its cursor and its    *)
(* fingerprint, and a changed configuration refuses them.                  *)
MayResume ==
  /\ report.limited
  /\ report.fingerprint = config

ExecutionPlan(limit, resuming) ==
  LET documents == config[1]
      first == IF resuming THEN CursorIndex(documents, report.cursor) ELSE 0
      rest == SubSeq(documents, first + 1, Len(documents))
      selected == SubSeq(rest, 1, IF limit < Len(rest) THEN limit ELSE Len(rest))
      limited == Len(selected) < Len(rest)
  IN  [selected |-> selected, enabled |-> config[2], limited |-> limited,
       cursor |-> IF limited THEN Last(selected)
                  ELSE IF resuming THEN report.cursor ELSE None,
       fingerprint |-> config,
       before |-> IF resuming THEN report.processed ELSE <<>>]

Start(r, limit, resuming) ==
  /\ step[r] = "idle"
  /\ holder = None
  /\ resuming => MayResume
  /\ holder' = r
  /\ plan' = [plan EXCEPT ![r] = ExecutionPlan(limit, resuming)]
  /\ step' = [step EXCEPT ![r] =
                IF plan'[r].selected = <<>> THEN "complete" ELSE "document"]
  /\ UNCHANGED <<page, catalogue, config, seen, answer, handled, report>>

Starts == \E r \in Run, limit \in Limits, resuming \in BOOLEAN : Start(r, limit, resuming)

(***************************************************************************)
(* One document: two reads, the fetch, and one write under the lease.      *)
(***************************************************************************)
SkipDocument(r) ==
  /\ step[r] = "document"
  /\ ~plan[r].enabled
  /\ Report(r)
  /\ UNCHANGED <<shared, plan>>

ReadDocument(r) ==
  /\ step[r] = "document"
  /\ plan[r].enabled
  /\ seen' = [seen EXCEPT ![r] = [row |-> row[Subject(r)], version |-> NoVersion]]
  /\ step' = [step EXCEPT ![r] = "version"]
  /\ UNCHANGED <<shared, plan, answer, handled>>

ReadVersion(r) ==
  /\ step[r] = "version"
  /\ seen' = [seen EXCEPT ![r] =
                [row |-> @.row,
                 version |-> IF Known(r) THEN current[Subject(r)] ELSE NoVersion]]
  /\ step' = [step EXCEPT ![r] = "fetch"]
  /\ UNCHANGED <<shared, plan, answer, handled>>

AnyTag(version) == version.tag

(* The validator the request carries, and None when it carries none.       *)
SentTag(version) == IF version.usable THEN version.tag ELSE None

(* The page answers the request.                                           *)
Fetch(r, kind, tagged, via) ==
  LET found == kind \in {"content", "unchanged"}
      content == IF found THEN page[Subject(r)] ELSE None
  IN  /\ step[r] = "fetch"
      /\ kind = "unchanged" => SentTag(seen[r].version) = content
      /\ found \/ "answers" \in Faults
      /\ answer' = [answer EXCEPT ![r] =
                      [kind |-> kind, content |-> content, via |-> via,
                       tag |-> IF tagged THEN content ELSE None]]
      /\ step' = [step EXCEPT ![r] = "write"]
      /\ UNCHANGED <<shared, plan, seen, handled>>

Healthy(r) ==
  \E kind \in {"content", "unchanged"}, tagged \in BOOLEAN, via \in Routes :
    Fetch(r, kind, tagged, via)

Faulty(r) ==
  \E kind \in {"missing", "gone", "unavailable"} : Fetch(r, kind, FALSE, "direct")

(* Any other error of the two reads, the fetch or the write: the document  *)
(* is reported, nothing is written.                                        *)
DocumentFails(r) ==
  /\ \/ step[r] \in {"version", "fetch"}
     \/ step[r] = "document" /\ plan[r].enabled
     \/ step[r] = "write" /\ answer[r].kind \in {"content", "unchanged"}
  /\ "writes" \in Faults
  /\ Report(r)
  /\ UNCHANGED <<shared, plan>>

(* Before a write the lease is renewed in the same transaction.            *)
Renewed(r) == holder = r

Changed(d, old, new) ==
  changes' = IF old # NoVersion /\ old.hash # new
             THEN [changes EXCEPT ![d] = <<old.hash, new>>] ELSE changes

CommitUnfenced(r) ==
  LET d == Subject(r)
      a == answer[r]
  IN  /\ step[r] = "write"
      /\ a.kind = "content"
      /\ row' = [row EXCEPT ![d] =
                   [status |-> IF a.via = "permanent" THEN "REDIRECTED" ELSE "ACTIVE",
                    describes |-> a.content]]
      /\ current' = [current EXCEPT ![d] =
                       [hash |-> a.content, tag |-> a.tag, usable |-> a.via = "direct"]]
      /\ Changed(d, seen[r].version, a.content)
      /\ Report(r)
      /\ UNCHANGED <<page, holder, config, plan, report>>

(* 200: a whole revision.                                                  *)
CommitRevision(r) ==
  LET d == Subject(r)
      a == answer[r]
  IN  /\ step[r] = "write"
      /\ a.kind = "content"
      /\ Renewed(r)
      /\ row' = [row EXCEPT ![d] =
                   [status |-> IF a.via = "permanent" THEN "REDIRECTED" ELSE "ACTIVE",
                    describes |-> a.content]]
      /\ current' = [current EXCEPT ![d] =
                       [hash |-> a.content, tag |-> a.tag, usable |-> a.via = "direct"]]
      /\ Changed(d, seen[r].version, a.content)
      /\ Report(r)
      /\ UNCHANGED <<page, holder, config, plan, report>>

(* The validators of the version that is current now are refreshed.        *)
Refresh(d, tag) ==
  current' = [current EXCEPT ![d] =
               [hash |-> @.hash, tag |-> IF tag = None THEN @.tag ELSE tag, usable |-> @.usable]]

TouchUnfenced(r) ==
  /\ step[r] = "write"
  /\ answer[r].kind = "unchanged"
  /\ Refresh(Subject(r), answer[r].tag)
  /\ Report(r)
  /\ UNCHANGED <<page, row, changes, holder, config, plan, report>>

(* 304: a new permanent redirection rewrites the row from what was read.   *)
Touch(r) ==
  LET d == Subject(r)
      moved == answer[r].via = "permanent"
  IN  /\ step[r] = "write"
      /\ answer[r].kind = "unchanged"
      /\ Renewed(r)
      /\ \/ (moved => seen[r].row.status = "REDIRECTED") /\ row' = row
         \/ moved /\ row' = [row EXCEPT ![d] = [status |-> "REDIRECTED",
                                               describes |-> seen[r].row.describes]]
      /\ Refresh(d, answer[r].tag)
      /\ Report(r)
      /\ UNCHANGED <<page, changes, holder, config, plan, report>>

Missing(r) ==
  row' = [row EXCEPT ![Subject(r)] =
           [status |-> IF answer[r].kind = "gone" THEN "REMOVED" ELSE "STALE",
            describes |-> seen[r].row.describes]]

MarkMissingUnfenced(r) ==
  /\ step[r] = "write"
  /\ answer[r].kind \in {"missing", "gone"}
  /\ Known(r)
  /\ Missing(r)
  /\ Report(r)
  /\ UNCHANGED <<page, current, changes, holder, config, plan, report>>

(* 404 and 410 on a known document: its row is rewritten from what was     *)
(* read before the fetch, and its version stays.                           *)
MarkMissing(r) ==
  /\ step[r] = "write"
  /\ answer[r].kind \in {"missing", "gone"}
  /\ Known(r)
  /\ Renewed(r)
  /\ Missing(r)
  /\ Report(r)
  /\ UNCHANGED <<page, current, changes, holder, config, plan, report>>

(* The site is unavailable: an event on a known document, under the lease. *)
RecordUnavailable(r) ==
  /\ step[r] = "write"
  /\ answer[r].kind = "unavailable"
  /\ Known(r) => Renewed(r)
  /\ Report(r)
  /\ UNCHANGED <<shared, plan>>

MissingUnknown(r) ==
  /\ step[r] = "write"
  /\ answer[r].kind \in {"missing", "gone"}
  /\ ~Known(r)
  /\ Report(r)
  /\ UNCHANGED <<shared, plan>>

(* The renewal finds the row without this token, or the handler of a       *)
(* failure fails itself: the exception leaves the loop.                    *)
Abort(r) ==
  /\ step[r] = "write"
  /\ \/ ~Renewed(r) /\ (Known(r) \/ answer[r].kind = "content")
     \/ answer[r].kind \in {"missing", "gone", "unavailable"} /\ Known(r) /\ "writes" \in Faults
  /\ step' = [step EXCEPT ![r] = "abort"]
  /\ seen' = [seen EXCEPT ![r] = Unread]
  /\ answer' = [answer EXCEPT ![r] = NoAnswer]
  /\ UNCHANGED <<shared, plan, handled>>

(***************************************************************************)
(* The end of a run.                                                       *)
(***************************************************************************)
CompleteRun(r) ==
  LET p == plan[r]
  IN  /\ step[r] = "complete"
      /\ holder = r
      /\ holder' = None
      /\ report' = [limited |-> p.limited,
                    cursor |-> p.cursor,
                    fingerprint |-> p.fingerprint, processed |-> p.before \o p.selected]
      /\ End(r)
      /\ UNCHANGED <<page, catalogue, config>>

(* The lease is lost at the end, or completing fails, and there is no      *)
(* report; completeAbortedRun ends the run if it can.                      *)
EndAborted(r) ==
  /\ \/ step[r] = "abort"
     \/ step[r] = "complete" /\ (holder # r \/ "writes" \in Faults)
  /\ End(r)
  /\ \/ step[r] = "abort" /\ holder = r /\ holder' = None
     \/ (holder = r => "writes" \in Faults) /\ UNCHANGED holder
  /\ UNCHANGED <<page, catalogue, config, report>>

(***************************************************************************)
(* The other processes, the operator and the remote pages.                 *)
(***************************************************************************)
(* recoverAbandonedRuns of another process ends the run of the holder.     *)
RecoverLease ==
  /\ holder # None
  /\ holder' = None
  /\ UNCHANGED <<page, catalogue, config, local, report>>

Crash(r) ==
  /\ step[r] # "idle"
  /\ "crash" \in Faults
  /\ End(r)
  /\ UNCHANGED shared

(* ingest-text commits a revision outside every run, and without metadata  *)
(* of a synchronization.                                                   *)
IngestText(d, c) ==
  /\ row' = [row EXCEPT ![d] = [status |-> "ACTIVE", describes |-> c]]
  /\ current' = [current EXCEPT ![d] = [hash |-> c, tag |-> None, usable |-> FALSE]]
  /\ UNCHANGED <<page, changes, holder, config, local, report>>

ChangePage(d, c) ==
  /\ page' = [page EXCEPT ![d] = c]
  /\ UNCHANGED <<catalogue, holder, config, local, report>>

Configure(configuration) ==
  /\ config' = configuration
  /\ UNCHANGED <<page, catalogue, holder, local, report>>

-----------------------------------------------------------------------------
Write(r) ==
  CommitRevision(r) \/ Touch(r) \/ MarkMissing(r) \/ RecordUnavailable(r) \/ MissingUnknown(r)

Advance(r) ==
  \/ SkipDocument(r) \/ ReadDocument(r) \/ ReadVersion(r) \/ Healthy(r)
  \/ Write(r) \/ CompleteRun(r)

Failure(r) ==
  Faulty(r) \/ DocumentFails(r) \/ Abort(r) \/ EndAborted(r) \/ Crash(r)

Environment ==
  \/ RecoverLease
  \/ \E d \in Ingested, c \in Content : IngestText(d, c)
  \/ \E d \in Document, c \in Content : ChangePage(d, c)
  \/ \E configuration \in Configurations : Configure(configuration)

Next == Starts \/ (\E r \in Run : Advance(r) \/ Failure(r)) \/ Environment

Spec == Init /\ [][Next]_vars

(* The operator synchronizes again and again, and an abandoned lease is    *)
(* recovered.  Runs may fail or be cut off for ever, but a step that runs  *)
(* keep coming to goes through some of the time.                           *)
Fairness ==
  /\ WF_vars(Starts)
  /\ WF_vars(RecoverLease)
  /\ \A r \in Run :
       /\ WF_vars(Advance(r) \/ Failure(r))
       /\ SF_vars(ReadDocument(r))
       /\ SF_vars(ReadVersion(r))
       /\ SF_vars(Healthy(r))
       /\ SF_vars(CommitRevision(r) \/ Touch(r))

LiveSpec == Spec /\ Fairness

-----------------------------------------------------------------------------
Working == {"document", "version", "fetch", "write"}

Plan ==
  [selected : Seq(Document), enabled : BOOLEAN, limited : BOOLEAN,
   cursor : Document \cup {None}, fingerprint : Configurations \cup {None},
   before : Seq(Document)]

Output ==
  [limited : BOOLEAN, cursor : Document \cup {None},
   fingerprint : Configurations \cup {None}, processed : Seq(Document)]

CursorIsKnown(p) ==
  p.limited => p.fingerprint \in Configurations /\ p.cursor \in Range(p.fingerprint[1])

TypeOK ==
  /\ page \in [Document -> Content]
  /\ row \in [Document -> Row \cup {NoRow}]
  /\ current \in [Document -> Version \cup {NoVersion}]
  /\ changes \in [Document -> (Content \X Content) \cup {None}]
  /\ holder \in Run \cup {None}
  /\ config \in Configurations
  /\ step \in [Run -> Working \cup {"idle", "complete", "abort"}]
  /\ plan \in [Run -> Plan]
  /\ handled \in [Run -> Nat]
  /\ \A r \in Run : step[r] \in Working => handled[r] < Len(plan[r].selected)
  /\ seen \in [Run -> [row : Row \cup {NoRow}, version : Version \cup {NoVersion}]]
  /\ answer \in [Run -> Answer \cup {NoAnswer}]
  /\ report \in Output
  /\ CursorIsKnown(report)
  /\ \A r \in Run : CursorIsKnown(plan[r])

TrueTag(v) == v.usable => v.tag \in {None, v.hash}

(* A validator that a later request will carry is the one the page gave    *)
(* with exactly the content of the version it stands beside; otherwise a   *)
(* 304 would keep an outdated version for ever (refreshCurrentVersion-     *)
(* Validators writes to whatever version is current at that time).         *)
UsableTagsAreTrue == \A d \in Document : TrueTag(current[d])

(* While a run holds the lease, what it read still stands when it writes,  *)
(* but for a text an operator ingested, whose validators are not used.     *)
ReadsStand ==
  \A r \in Run :
    holder = r /\ step[r] \in {"fetch", "write"} /\ seen[r].version # NoVersion =>
      /\ current[Subject(r)] # NoVersion
      /\ current[Subject(r)].usable => current[Subject(r)].hash = seen[r].version.hash

AnswersStand ==
  \A r \in Run :
    /\ TrueTag(seen[r].version)
    /\ step[r] = "write" /\ answer[r].kind = "content" => answer[r].tag \in {None, answer[r].content}
    /\ step[r] = "write" /\ answer[r].kind = "unchanged" =>
         /\ seen[r].version # NoVersion
         /\ answer[r].content = seen[r].version.hash
         /\ answer[r].tag \in {None, answer[r].content}

SyncInv == TypeOK /\ UsableTagsAreTrue /\ ReadsStand /\ AnswersStand

(* When a run has written what a page answered, the catalogue holds the    *)
(* content the page had: after a 200, and after a 304 too unless the       *)
(* document was ingested anew since it was read.                           *)
SyncedIsWhatThePageHad ==
  [][\A r \in Run :
       CommitRevision(r) \/ (Touch(r) /\ current[Subject(r)].hash = seen[r].version.hash)
         => current'[Subject(r)].hash = answer[r].content]_vars

(* The title and the URL of a row are those of its current version, though *)
(* a 404, a 410 and a 304 write back what was read before the fetch        *)
(* (reconcileMissingRemote, reconcileNotModified).                         *)
RowDescribesItsVersion ==
  \A d \in Document \ Ingested : row[d].describes = current[d].hash

(* Every replacement of the current version by a run leaves the event that *)
(* names both contents (createFetchedDocumentObservation).                 *)
ChangesAreRecorded ==
  [][\A d \in Document \ Ingested :
       current[d] # NoVersion /\ current'[d].hash # current[d].hash
         => changes'[d] = <<current[d].hash, current'[d].hash>>]_vars

(* The batches an operator chains with --limit and --resume-after go over  *)
(* the documents of one configuration in order, each once and without a gap*)
(* (createExecutionPlan, fingerprintCatalogSyncConfiguration).             *)
BatchesCoverTheConfiguration ==
  report # NoReport =>
    LET documents == report.fingerprint[1]
    IN  /\ IsPrefix(report.processed, documents)
        /\ report.limited => Last(report.processed) = report.cursor
        /\ ~report.limited => report.processed = documents

(* The pages and the configuration no longer change, no text is ingested,  *)
(* and no run that still works is fenced.                                  *)
Quiet ==
  /\ page' = page
  /\ config' = config
  /\ local' = local => catalogue' = catalogue
  /\ \A r \in Run : holder = r /\ step[r] # "idle" /\ step'[r] # "idle" => holder' = r

(* From then on the catalogue comes to hold the content of every page of   *)
(* the configuration, whatever was fenced, ingested or cut off before.     *)
CatalogueConverges ==
  <>[][Quiet]_vars /\ <>[](config[2] /\ Range(config[1]) = Document)
    => <>[](\A d \in Document : current[d].hash = page[d])
=============================================================================
