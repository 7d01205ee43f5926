------------------------------ MODULE MCCommands ------------------------------
(***************************************************************************)
(* A small instance of SourceCommands, a part of MCComponents: two         *)
(* operators, two sources, three states of catalog-sources.yml.            *)
(***************************************************************************)
EXTENDS MCDocuments

CONSTANTS Operators, YamlContents, CommandLines, SourceNames, KeyPieces, Locales, MaxRuns

VARIABLES yaml, sourceRows, command, lastReport, spent

Node == <<"node">>
Mdn == <<"mdn">>

Key(text, padded) == [text |-> text, padded |-> padded]

Listed(key, page, language, enabled) ==
  [wellFormed |-> TRUE, key |-> Key(key, FALSE), page |-> page, language |-> language,
   enabled |-> enabled]

Declared(key, settings, language, enabled, documents) ==
  [wellFormed |-> TRUE, key |-> Key(key, FALSE), settings |-> settings,
   language |-> language, enabled |-> enabled, documents |-> documents]

(* The documents of one source, whose keys are one the end of another.     *)
NodePages == <<Listed(<<"node", "fs">>, 1, Nothing, TRUE), Listed(<<"fs">>, 2, "en", TRUE),
               Listed(<<"url">>, 3, Nothing, FALSE), Listed(<<"net">>, 4, Nothing, TRUE)>>
MdnPages == <<Listed(<<"fetch">>, 5, Nothing, TRUE)>>

Yaml(sources) == [version |-> 1, sources |-> sources]

(* A file; an edit of it that disables a source and moves its documents;   *)
(* and one that is refused, for a source and a document that are twice.    *)
FirstContent ==
  Yaml(<<Declared(Node, "a", "EN", TRUE, NodePages), Declared(Mdn, "a", "fr", TRUE, MdnPages)>>)
SomeContents ==
  {FirstContent,
   Yaml(<<Declared(Mdn, "a", "fr", FALSE, MdnPages), Declared(Node, "b", "en", TRUE, NodePages)>>),
   Yaml(<<Declared(Mdn, "a", "fr", TRUE, MdnPages \o MdnPages),
          [Declared(Mdn, "b", "fr", TRUE, <<>>) EXCEPT !.key.padded = TRUE]>>)}

Sync(scope, limit, resume, fingerprint) ==
  [op |-> "sync", scope |-> scope, limit |-> limit, resume |-> resume,
   fingerprint |-> fingerprint]

DryRun(scope, limit) ==
  [op |-> "dry-run", scope |-> scope, limit |-> limit, resume |-> "no", fingerprint |-> FALSE]

Bare(op) == [op |-> op, resume |-> "no"]

Add(source) == [op |-> "add-source", resume |-> "no", source |-> source]

SomeRequests ==
  {Bare("load-sources"), Add(Declared(Mdn, "c", "fr", TRUE, <<>>)),
   Add([Declared(Mdn, "c", "fr", TRUE, <<>>) EXCEPT !.wellFormed = FALSE]),
   DryRun(Nothing, Nothing), DryRun(Node, Nothing),
   Sync(Nothing, Nothing, "no", FALSE), Sync(Nothing, 1, "no", FALSE),
   Sync(Node, 1, "no", FALSE), Sync(Nothing, 2, "full", TRUE), Sync(Node, 1, "short", TRUE),
   Sync(Node, Nothing, "full", FALSE)}

SomeNames == {Node, Mdn}
SomeLocales == [tag \in {"EN", "en", "fr"} |-> IF tag = "fr" THEN "fr" ELSE "en"]

Commands == INSTANCE SourceCommands WITH
  Operator <- Operators, Contents <- YamlContents, Requests <- CommandLines,
  SourceKeys <- SourceNames, Piece <- KeyPieces, CanonicalLocale <- Locales,
  MaxCommands <- MaxRuns, None <- Nothing,
  content <- yaml, rows <- sourceRows, report <- lastReport

sourceVars == <<yaml, sourceRows, command, lastReport, spent>>
=============================================================================
