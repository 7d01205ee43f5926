--------------------------- MODULE SourceCommands ---------------------------
(***************************************************************************)
(* catalog-sources.yml and the commands that read it: load-sources, which  *)
(* writes the sources it declares, sync --dry-run, which tells what a      *)
(* synchronization would fetch, and sync, as far as the documents it       *)
(* selects; and add-source.  Several operators run them, the file is edited*)
(* between two of them, and a command may be killed.                       *)
(*                                                                         *)
(* A key is the sequence of its pieces between colons, and the text of a   *)
(* cursor is one too.                                                      *)
(***************************************************************************)
EXTENDS Integers, Sequences, SequencesExt, FiniteSets

CONSTANTS Operator,        \* those who run commands
          Contents,        \* what the file may hold, see AcceptsFile
          Requests,        \* the command lines, see Start
          SourceKeys,      \* the keys of the sources
          Piece,           \* what is between two colons of a key
          CanonicalLocale, \* of each valid language tag, the canonical one
          MaxCommands,     \* bound: commands run
          None

VARIABLES content, \* of catalog-sources.yml
          rows,    \* catalog_sources: of each key its source, or None
          command, \* the last command of each operator
          report,  \* the cursor and the fingerprint of the last report, None when it had none
          spent    \* commands run

commandVars == <<content, rows, command, report, spent>>

-----------------------------------------------------------------------------
(* parseCatalogSourceConfig.  Whether a mapping is well formed (no property*)
(* unknown, missing, of a wrong type or out of its list, and a valid URL)  *)
(* is a mark of it.                                                        *)
WellFormed(mapping) == mapping.wellFormed

Trim(written) == written.text

ValidSourceKey(key) == Len(key) = 1
ValidStableKey(key) == key # <<>>
ValidLanguage(tag) == tag \in DOMAIN CanonicalLocale

AcceptsDocument(d) ==
  /\ WellFormed(d) /\ ValidStableKey(Trim(d.key))
  /\ d.language = None \/ ValidLanguage(d.language)

AcceptsSource(e) ==
  /\ WellFormed(e) /\ ValidSourceKey(Trim(e.key)) /\ ValidLanguage(e.language)
  /\ \A i \in DOMAIN e.documents : AcceptsDocument(e.documents[i])
  /\ IsInjective([i \in DOMAIN e.documents |-> Trim(e.documents[i].key)])

AcceptsFile(c) ==
  /\ c.version = 1 /\ c.sources # <<>>
  /\ \A i \in DOMAIN c.sources : AcceptsSource(c.sources[i])
  /\ IsInjective([i \in DOMAIN c.sources |-> Trim(c.sources[i].key)])

ParsedSource(e) ==
  [key |-> Trim(e.key), settings |-> e.settings, language |-> CanonicalLocale[e.language],
   enabled |-> e.enabled]

(* A document has the language of its source unless it has its own.        *)
ParsedDocument(e, d) ==
  [source |-> Trim(e.key), key |-> Trim(d.key), page |-> d.page,
   language |-> CanonicalLocale[IF d.language = None THEN e.language ELSE d.language],
   enabled |-> d.enabled]

Parsed(c) ==
  [sources |-> [i \in DOMAIN c.sources |-> ParsedSource(c.sources[i])],
   documents |-> FlattenSeq([i \in DOMAIN c.sources |->
     [j \in DOMAIN c.sources[i].documents |->
        ParsedDocument(c.sources[i], c.sources[i].documents[j])]])]

-----------------------------------------------------------------------------
(* What of a file is accepted are sequences of mappings, and its keys are  *)
(* such sequences of pieces; a command line has passed parseArguments.     *)
IsSequence(s) == Len(s) \in Nat /\ DOMAIN s = 1..Len(s)

CommandsAssumption ==
  /\ \A k \in SourceKeys : k \in Seq(Piece) /\ Len(k) = 1
  /\ None \notin [source : Seq(Piece), key : Seq(Piece)]
  /\ \A c \in Contents : AcceptsFile(c) =>
       /\ IsSequence(c.sources)
       /\ \A e \in ToSet(c.sources) :
            /\ Trim(e.key) \in SourceKeys /\ IsSequence(e.documents)
            /\ \A d \in ToSet(e.documents) : Trim(d.key) \in Seq(Piece)
  /\ \A request \in Requests :
       /\ request.op \in {"load-sources", "add-source", "dry-run", "sync"}
       /\ request.op = "add-source" => Trim(request.source.key) \in SourceKeys
       /\ IF request.op \in {"dry-run", "sync"}
          THEN request.scope \in SourceKeys \cup {None} /\ request.resume \in {"no", "full", "short"}
          ELSE request.resume = "no"
       /\ request.op = "sync" => request.limit \in (Nat \ {0}) \cup {None}

-----------------------------------------------------------------------------
(* The command line.  An operator copies a cursor from the last report, in *)
(* full or, with --source-key, the stable key alone.                       *)
CursorText(request) ==
  IF request.resume = "full" THEN report.cursor.source \o report.cursor.key
  ELSE report.cursor.key

(* Mutant: the cursor is cut at its last colon.                            *)
ParseFromTheEnd(text, scope) ==
  IF Len(text) = 1 THEN [source |-> scope, key |-> text]
  ELSE [source |-> Front(text), key |-> <<Last(text)>>]

(* parseResumeAfter: a text with a colon is cut at the first.              *)
ParseResumeAfter(text, scope) ==
  IF Len(text) = 1 THEN [source |-> scope, key |-> text]
  ELSE [source |-> <<Head(text)>>, key |-> Tail(text)]

(* What parseSync refuses before the catalogue is opened.                  *)
AcceptsArguments(request) ==
  \/ request.op \in {"load-sources", "add-source"}
  \/ request.op = "dry-run" /\ request.limit = None /\ request.resume = "no"
  \/ /\ request.op = "sync"
     /\ (request.resume # "no") <=> request.fingerprint
     /\ request.resume # "no" => Len(CursorText(request)) > 1 \/ request.scope # None

Ended == {"idle", "refused", "failed", "CATALOG_RESUME_CONFIGURATION_CHANGED",
          "CURSOR_NOT_FOUND", "loaded", "planned", "synced"}

Idle ==
  [pc |-> "idle", request |-> None, config |-> None, seen |-> None, at |-> 0,
   isNew |-> FALSE, overwritten |-> {}, given |-> None, cursor |-> None, selected |-> <<>>]

FirstStep(request) == IF request.op = "add-source" THEN "add" ELSE "preload"

Start(o, request) ==
  /\ command[o].pc \in Ended /\ spent < MaxCommands
  /\ request.resume # "no" => report # None
  /\ spent' = spent + 1
  /\ command' = [command EXCEPT ![o] =
       IF ~AcceptsArguments(request) THEN [Idle EXCEPT !.pc = "refused", !.request = request]
       ELSE [Idle EXCEPT !.pc = FirstStep(request), !.request = request,
               !.given = IF request.resume = "no" THEN None ELSE report,
               !.cursor = IF request.resume = "no" THEN None
                          ELSE ParseResumeAfter(CursorText(request), request.scope)]]
  /\ UNCHANGED <<content, rows, report>>

(* preloadCatalogSourceConfig: the file is read whole, once.               *)
NextStep(op) ==
  CASE op = "load-sources" -> "load"
    [] op = "dry-run" -> "plan"
    [] op = "sync" -> "sync"

Preload(o) ==
  /\ command[o].pc = "preload"
  /\ command' = [command EXCEPT ![o] =
       IF AcceptsFile(content)
       THEN [@ EXCEPT !.pc = NextStep(command[o].request.op), !.config = Parsed(content), !.at = 1]
       ELSE [@ EXCEPT !.pc = "refused"]]
  /\ UNCHANGED <<content, rows, report, spent>>

-----------------------------------------------------------------------------
(* LoadCatalogSources: source after source, a statement that reads the row *)
(* and, when it differs, one that writes it.                               *)
Desired(o) == command[o].config.sources[command[o].at]

Advanced(c, key) ==
  [c EXCEPT !.at = @ + 1, !.overwritten = @ \ {key}, !.isNew = FALSE,
            !.pc = IF c.at = Len(c.config.sources) THEN "loaded" ELSE "load"]

(* Of every other load, the source is no longer what it left.              *)
Wrote(o, key, mine) ==
  command' = [p \in Operator |->
    IF p = o THEN mine ELSE [command[p] EXCEPT !.overwritten = @ \cup {key}]]

SourceMatches(existing, desired) == existing = desired

LookUp(o) ==
  LET key == Desired(o).key
  IN  /\ command[o].pc = "load"
      /\ command' = [command EXCEPT ![o] =
           IF rows[key] # None /\ SourceMatches(rows[key], Desired(o)) THEN Advanced(@, key)
           ELSE [@ EXCEPT !.pc = "write", !.isNew = (rows[key] = None)]]
      /\ UNCHANGED <<content, rows, report, spent>>

(* The INSERT of a key that has come meanwhile fails, and the sources that *)
(* follow are not loaded.                                                  *)
WriteSource(o) ==
  LET key == Desired(o).key
  IN  /\ command[o].pc = "write"
      /\ IF command[o].isNew /\ rows[key] # None
         THEN /\ command' = [command EXCEPT ![o].pc = "failed"]
              /\ UNCHANGED rows
         ELSE /\ rows' = [rows EXCEPT ![key] = Desired(o)]
              /\ Wrote(o, key, Advanced(command[o], key))
      /\ UNCHANGED <<content, report, spent>>

AddSource(o) ==
  LET e == command[o].request.source
      key == Trim(e.key)
      ends(pc) == [command[o] EXCEPT !.pc = pc]
  IN  /\ command[o].pc = "add"
      /\ IF ~AcceptsSource(e)
         THEN UNCHANGED rows /\ command' = [command EXCEPT ![o] = ends("refused")]
         ELSE IF rows[key] # None
         THEN UNCHANGED rows /\ command' = [command EXCEPT ![o] = ends("failed")]
         ELSE rows' = [rows EXCEPT ![key] = ParsedSource(e)] /\ Wrote(o, key, ends("loaded"))
      /\ UNCHANGED <<content, report, spent>>

-----------------------------------------------------------------------------
Enabled(sources, key) == sources[key] # None /\ sources[key].enabled

InScope(scope, key) == scope \in {None, key}

(* PlanCatalogSync: source after source; the order is left out.            *)
PlannedOf(config, sources, key) ==
  {d \in ToSet(config.documents) : d.source = key /\ d.enabled /\ Enabled(sources, key)}

Plan(o) ==
  LET scope == command[o].request.scope
      selected == {k \in SourceKeys : rows[k] # None /\ InScope(scope, k)}
      planned == UNION {PlannedOf(command[o].config, rows, k) : k \in selected}
  IN  /\ command[o].pc = "plan"
      /\ command' = [command EXCEPT ![o] =
           IF scope # None /\ selected = {} THEN [@ EXCEPT !.pc = "failed"]
           ELSE [@ EXCEPT !.pc = "planned", !.seen = rows, !.selected = planned]]
      /\ UNCHANGED <<content, rows, report, spent>>

(* createExecutionPlan: those that pass the filter, in their order.        *)
Configured(config, scope) ==
  FlattenSeq([i \in DOMAIN config.documents |->
    LET d == config.documents[i]
    IN  IF InScope(scope, d.source) /\ d.enabled THEN <<d>> ELSE <<>>])

(* The settings of a source are no part of it, but enabled, null when it is*)
(* not in the catalogue.                                                   *)
Fingerprint(documents, sources) ==
  [documents |-> documents,
   enabled |-> [k \in {documents[i].source : i \in DOMAIN documents} |->
                  IF sources[k] = None THEN None ELSE sources[k].enabled]]

IndexOf(documents, cursor) ==
  SelectInSeq(documents, LAMBDA d : d.source = cursor.source /\ d.key = cursor.key)

ApplyResumeCursor(documents, cursor) ==
  IF cursor = None THEN documents ELSE SubSeq(documents, IndexOf(documents, cursor) + 1, Len(documents))

ApplyLimit(documents, limit) ==
  IF limit = None \/ Len(documents) <= limit THEN documents ELSE SubSeq(documents, 1, limit)

Verdict(c, documents) ==
  IF c.request.scope # None /\ rows[c.request.scope] = None THEN "failed"
  ELSE IF c.cursor # None /\ c.given.fingerprint # Fingerprint(documents, rows)
  THEN "CATALOG_RESUME_CONFIGURATION_CHANGED"
  ELSE IF c.cursor # None /\ IndexOf(documents, c.cursor) = 0 THEN "CURSOR_NOT_FOUND"
  ELSE "syncing"

BeginSync(o) ==
  LET c == command[o]
      documents == Configured(c.config, c.request.scope)
      verdict == Verdict(c, documents)
  IN  /\ c.pc = "sync"
      /\ command' = [command EXCEPT ![o] =
           IF verdict # "syncing" THEN [c EXCEPT !.pc = verdict, !.seen = rows]
           ELSE [c EXCEPT !.pc = verdict, !.seen = rows,
                   !.selected = ApplyLimit(ApplyResumeCursor(documents, c.cursor), c.request.limit)]]
      /\ UNCHANGED <<content, rows, report, spent>>

(* The report of a batch that its limit cut has a cursor and a fingerprint;*)
(* that of a resumed one repeats those it was given.                       *)
Limited(c) ==
  Len(c.selected) < Len(ApplyResumeCursor(Configured(c.config, c.request.scope), c.cursor))

CursorFor(d) == [source |-> d.source, key |-> d.key]

ContinuationOf(c) ==
  LET fingerprint == Fingerprint(Configured(c.config, c.request.scope), c.seen)
  IN  CASE Limited(c) -> [cursor |-> CursorFor(Last(c.selected)), fingerprint |-> fingerprint]
        [] ~Limited(c) /\ c.cursor # None -> [cursor |-> c.cursor, fingerprint |-> fingerprint]
        [] OTHER -> None

EndSync(o) ==
  /\ command[o].pc = "syncing"
  /\ command' = [command EXCEPT ![o].pc = "synced"]
  /\ report' = ContinuationOf(command[o])
  /\ UNCHANGED <<content, rows, spent>>

(* The others are skipped: SOURCE_NOT_FOUND, SOURCE_DISABLED.              *)
Fetched(c) == {d \in ToSet(c.selected) : Enabled(c.seen, d.source)}

-----------------------------------------------------------------------------
(* A command is killed, or a run loses its lease: it gives no report.      *)
Stop(o) ==
  /\ command[o].pc \in {"load", "write", "syncing"}
  /\ command' = [command EXCEPT ![o].pc = "failed"]
  /\ UNCHANGED <<content, rows, report, spent>>

EditFile(c) ==
  /\ content # c
  /\ content' = c
  /\ UNCHANGED <<rows, command, report, spent>>

CommandsInit ==
  /\ content \in Contents
  /\ rows = [k \in SourceKeys |-> None]
  /\ command = [o \in Operator |-> Idle]
  /\ report = None
  /\ spent = 0

CommandsNext ==
  \/ \E o \in Operator :
       \/ \E request \in Requests : Start(o, request)
       \/ Preload(o) \/ LookUp(o) \/ WriteSource(o) \/ AddSource(o)
       \/ Plan(o) \/ BeginSync(o) \/ EndSync(o) \/ Stop(o)
  \/ \E c \in Contents : EditFile(c)

-----------------------------------------------------------------------------
(* A load leaves the sources it went through as the file that it read has  *)
(* them, unless another command wrote one of them later: also when it is   *)
(* killed or fails, and when others load at once (load-catalog-sources.ts).*)
LoadsReconcile ==
  \A o \in Operator : command[o].config # None /\ command[o].request.op = "load-sources" =>
    LET c == command[o]
    IN  \A i \in 1..(c.at - 1) :
          LET source == c.config.sources[i]
          IN  source.key \in c.overwritten \/ rows[source.key] = source

(* With the same file and the same sources, a synchronization of the same  *)
(* scope fetches what the dry run announced, and batches nothing else      *)
(* (plan-catalog-sync.ts, sync-catalog-documents.ts).                      *)
PlanForetellsTheSync ==
  \A o, p \in Operator :
    LET plan == command[o]
        sync == command[p]
    IN  /\ plan.pc = "planned" /\ sync.pc = "synced"
        /\ plan.config = sync.config /\ plan.seen = sync.seen
        /\ plan.request.scope = sync.request.scope
        => /\ Fetched(sync) \subseteq plan.selected
           /\ sync.request.limit = None /\ sync.cursor = None => Fetched(sync) = plan.selected

(* The short form of a stable key that has a colon is taken for a full one.*)
Misread(c) == c.request.resume = "short" /\ Len(c.given.cursor.key) > 1

(* A batch that is resumed with what a report gave goes on with the        *)
(* documents that followed, in the configuration that report was about, the*)
(* one it named in full or in short, whatever was edited or loaded         *)
(* meanwhile, or it is refused because of it; but for the short form of a  *)
(* stable key with a colon (cli/catalog.ts:547-566,                        *)
(* docs/reference/catalog-sync-v2.md:107-131).                             *)
BatchesFollowTheCursor ==
  \A o \in Operator : command[o].given # None /\ ~Misread(command[o]) =>
    LET c == command[o]
        documents == c.given.fingerprint.documents
        named == IndexOf(documents, c.given.cursor)
    IN  /\ c.pc # "CURSOR_NOT_FOUND"
        /\ c.pc \in {"syncing", "synced"} =>
             named > 0 /\ c.selected = ApplyLimit(SubSeq(documents, named + 1, Len(documents)),
                                                  c.request.limit)
=============================================================================
