----------------------------- MODULE MCDocuments ------------------------------
(***************************************************************************)
(* Small instances of what becomes of a document: PdfPool, HtmlExtraction, *)
(* ContentSelection and Snippets.  MCComponents puts them side by side.    *)
(***************************************************************************)
EXTENDS Integers, Sequences

CONSTANTS Nothing, PoolSize, Papers, RepairDelay, PdfTimeout, MaxWorkers, MaxClock,
          PageElements, PageDepth, ActiveTags, IgnoredTags, VoidTags, ResourceTags,
          MarkdownPages, ContentQueries, VersionTerms, SectionCharacters, SectionTokens,
          QueryTokens, SectionCount, TitleCharacters,
          Passages, SoughtTerms, SnippetRadius, SnippetTerms, TermOccurrences,
          MaxWords \* bound: words of a passage

VARIABLES clock, slots, workers, inbox, extracts,
          nesting, ended, metadata, sanitizer, render, doubled,
          document, selection, candidates, selected, remaining, full, truncated,
          passage, sought, anchor, best, snippet

-----------------------------------------------------------------------------
Pool == INSTANCE PdfPool WITH
  Document <- Papers, None <- Nothing, RetryDelay <- RepairDelay, Timeout <- PdfTimeout,
  MaxTime <- MaxClock

poolVars == <<clock, slots, workers, inbox, extracts>>

-----------------------------------------------------------------------------
(* An element of every kind the three passes tell apart.                   *)
Plain(name) == [name |-> name, noisy |-> FALSE, href |-> Nothing]
Noisy(name) == [Plain(name) EXCEPT !.noisy = TRUE]
Link(name) == [Plain(name) EXCEPT !.href = "url"]

SomeElements ==
  {Plain(n) : n \in {"div", "nav", "script", "head", "title", "pre", "code", "br", "a",
                     "link"}}
    \cup {Noisy(n) : n \in {"div", "pre", "br"}} \cup {Link("a"), Link("link")}

Html == INSTANCE HtmlExtraction WITH
  Elements <- PageElements, MaxDepth <- PageDepth, Active <- ActiveTags,
  Ignored <- IgnoredTags, Void <- VoidTags, Resource <- ResourceTags, None <- Nothing

pageVars == <<nesting, ended, metadata, sanitizer, render, doubled>>

-----------------------------------------------------------------------------
(* Documents of up to four lines: texts, headings of two levels, one of    *)
(* them cut, fences of two markers, two lengths, with and without an info  *)
(* string.                                                                 *)
TextLine(characters, terms) == [kind |-> "text", characters |-> characters, terms |-> terms]
HeadingLine(level, characters, terms, kept) ==
  [kind |-> "heading", level |-> level, characters |-> characters, terms |-> terms,
   kept |-> kept]
FenceLine(marker, length, info) ==
  [kind |-> "fence", marker |-> marker, length |-> length, info |-> info,
   characters |-> length, terms |-> <<>>]

Lines ==
  {TextLine(3, <<"x">>), TextLine(1, <<"y", "y", "x">>),
   HeadingLine(1, 3, <<"x">>, [characters |-> 3, terms |-> <<"x">>]),
   HeadingLine(2, 6, <<"y", "x">>, [characters |-> 5, terms |-> <<"y", "z">>]),
   FenceLine("backtick", 3, FALSE), FenceLine("backtick", 4, TRUE),
   FenceLine("tilde", 3, FALSE)}
SomeDocuments == UNION {[1..n -> Lines] : n \in 0..4}

Asked(query, characters, sections) ==
  [query |-> query, maxCharacters |-> characters, maxSections |-> sections]
SomeSelections == {Asked(<<"x">>, 12, 2), Asked(<<"y", "x">>, 8, 3), Asked(<<>>, 7, 3)}

Selection == INSTANCE ContentSelection WITH
  Documents <- MarkdownPages, Selections <- ContentQueries, Versions <- VersionTerms,
  MaxSectionCharacters <- SectionCharacters, MaxSectionTokens <- SectionTokens,
  MaxQueryTokens <- QueryTokens, MaxHeadings <- SectionCount,
  MaxTitleCharacters <- TitleCharacters

choiceVars == <<document, selection, candidates, selected, remaining, full, truncated>>

-----------------------------------------------------------------------------
(* Words of one to three characters, some of them surrogate pairs.         *)
WordOf(term, characters, pairs) == [term |-> term, characters |-> characters, pairs |-> pairs]
SomeWords ==
  {WordOf("a", 2, FALSE), WordOf("b", 1, TRUE), WordOf("c", 3, FALSE), WordOf("c", 3, TRUE)}
SomePassages == UNION {[1..n -> SomeWords] : n \in 1..MaxWords}
SomeTerms == {<<"a", "b">>, <<"b">>, <<"a">>, <<"b", "c">>}

Extracts == INSTANCE Snippets WITH
  Contents <- Passages, Queries <- SoughtTerms, Radius <- SnippetRadius,
  MaxTerms <- SnippetTerms, MaxOccurrences <- TermOccurrences,
  content <- passage, query <- sought

snippetVars == <<passage, sought, anchor, best, snippet>>
=============================================================================
