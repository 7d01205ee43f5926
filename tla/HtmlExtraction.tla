--------------------------- MODULE HtmlExtraction ---------------------------
(***************************************************************************)
(* From the HTML of a page to its title, its canonical URL and its Markdown*)
(* without its navigation, its scripts and its noise.                      *)
(*                                                                         *)
(* The program makes three passes over a string: the metadata from the page*)
(* as it is, and the rendering from the page once it is sanitized.  Each is*)
(* an automaton over the tags, so here they read them side by side, a tag a*)
(* step.  The pages are those whose elements are nested and closed.        *)
(***************************************************************************)
EXTENDS Integers, Sequences, SequencesExt

CONSTANTS Elements,   \* what a page may contain, see Element
          MaxDepth,   \* bound: elements open at once
          Active,     \* ACTIVE_CONTAINER_TAGS
          Ignored,    \* METADATA_IGNORED_CONTAINERS
          Void,       \* VOID_TAGS
          Resource,   \* RESOURCE_TAGS
          None

(* A tag: its name, whether an attribute of it names some noise, and the   *)
(* URL of its href, None when there is none or it is not a valid one.      *)
Element(name, noisy, href) == [name |-> name, noisy |-> noisy, href |-> href]

HtmlAssumption ==
  /\ \A e \in Elements : e.name # None
  /\ Active \cap Void = {} /\ Resource \subseteq Void
  /\ "link" \in Void /\ {"title", "head", "pre", "code", "a"} \cap (Void \cup Active \cup Ignored) = {}

VARIABLES nesting,   \* the elements that are open, the innermost one last
          ended,     \* the end of the page was read
          metadata,  \* the first pass
          sanitizer, \* the active container that is being removed, None outside
          render,    \* the rendering of what is left
          doubled    \* history of the model: an active container held one of its name

htmlVars == <<nesting, ended, metadata, sanitizer, render, doubled>>

HtmlInit ==
  /\ nesting = <<>>
  /\ ended = FALSE
  /\ metadata = [ignored |-> None, depth |-> 0, title |-> 0, titled |-> FALSE, canonical |-> None]
  /\ sanitizer = None
  /\ doubled = FALSE
  /\ render = [noisy |-> None, depth |-> 0, head |-> 0, pre |-> 0, code |-> 0, link |-> None,
               fence |-> FALSE, tick |-> FALSE, bracket |-> FALSE]

-----------------------------------------------------------------------------
(* extractMetadata.  An ignored container is skipped to its own end, those *)
(* of its name inside it counted.                                          *)
MetadataOpens(e) ==
  CASE metadata.ignored # None ->
         [metadata EXCEPT !.depth = @ + (IF e.name = metadata.ignored /\ e.name \notin Void THEN 1 ELSE 0)]
    [] metadata.ignored = None /\ e.name \in Ignored \ Void ->
         [metadata EXCEPT !.ignored = e.name, !.depth = 1]
    [] metadata.ignored = None /\ e.name = "title" -> [metadata EXCEPT !.title = @ + 1]
    [] metadata.ignored = None /\ e.name = "link" /\ metadata.canonical = None ->
         [metadata EXCEPT !.canonical = e.href]
    [] OTHER -> metadata

MetadataCloses(name) ==
  CASE metadata.ignored = name ->
         [metadata EXCEPT !.depth = @ - 1, !.ignored = IF metadata.depth = 1 THEN None ELSE @]
    [] metadata.ignored = None /\ name = "title" ->
         [metadata EXCEPT !.title = IF @ = 0 THEN 0 ELSE @ - 1]
    [] OTHER -> metadata

MetadataReadsText == metadata.ignored = None /\ metadata.title > 0

(* sanitizePreparedHtml.  An active container is removed up to the first   *)
(* end of its name, and so is the rest of the page when there is none.     *)
SanitizerOpens(e) == IF sanitizer = None /\ e.name \in Active THEN e.name ELSE sanitizer
SanitizerCloses(name) == IF sanitizer = name THEN None ELSE sanitizer

(* A tag that the rendering is given: outside of the containers, and not   *)
(* one that loads a resource.                                              *)
Passes(e) == sanitizer = None /\ e.name \notin Active \cup Resource

-----------------------------------------------------------------------------
(* renderSanitizedHtml.  The Markdown is what is open in it: a fence, a    *)
(* tick, the bracket of a link.  Two fences or two ticks are one closed.   *)
CloseBracket(r) == [r EXCEPT !.bracket = r.bracket /\ r.link = None, !.link = None]

IsShown(r) == r.noisy = None /\ r.head = 0

(* Mutant: every element inside a noisy one counts, of its name or not.    *)
DeepensByAny(r, e) == e.name \notin Void

(* An element of the same name inside a noisy one.                         *)
Deepens(r, e) == e.name = r.noisy /\ e.name \notin Void

RenderOpens(r, e) ==
  CASE r.noisy # None ->
         [r EXCEPT !.depth = @ + (IF Deepens(r, e) THEN 1 ELSE 0)]
    [] r.noisy = None /\ e.noisy ->
         IF e.name \in Void THEN r ELSE [r EXCEPT !.noisy = e.name, !.depth = 1]
    [] r.noisy = None /\ ~e.noisy /\ e.name = "head" -> [r EXCEPT !.head = @ + 1]
    [] r.noisy = None /\ ~e.noisy /\ r.head = 0 /\ e.name = "pre" ->
         [r EXCEPT !.pre = @ + 1, !.fence = ~@]
    [] r.noisy = None /\ ~e.noisy /\ r.head = 0 /\ e.name = "code" /\ r.pre = 0 ->
         [r EXCEPT !.code = @ + 1, !.tick = ~@]
    [] r.noisy = None /\ ~e.noisy /\ r.head = 0 /\ e.name = "a" /\ e.href # None ->
         [CloseBracket(r) EXCEPT !.link = e.href, !.bracket = TRUE]
    [] OTHER -> r

RenderCloses(r, name) ==
  CASE r.noisy = name -> [r EXCEPT !.depth = @ - 1, !.noisy = IF r.depth = 1 THEN None ELSE @]
    [] r.noisy = None /\ name = "head" -> [r EXCEPT !.head = IF @ = 0 THEN 0 ELSE @ - 1]
    [] r.noisy = None /\ name = "pre" ->
         [r EXCEPT !.pre = IF @ = 0 THEN 0 ELSE @ - 1, !.fence = (@ # (r.head = 0))]
    [] r.noisy = None /\ name = "code" /\ r.pre = 0 ->
         [r EXCEPT !.code = IF @ = 0 THEN 0 ELSE @ - 1, !.tick = (@ # (r.head = 0))]
    [] r.noisy = None /\ name = "a" /\ r.link # None ->
         IF r.head = 0 THEN CloseBracket(r) ELSE [r EXCEPT !.link = None]
    [] OTHER -> r

(* At the end of the page the link, the ticks and the fences are closed.   *)
RenderEnds(r) ==
  [CloseBracket(r) EXCEPT !.tick = (r.tick # (r.code % 2 = 1)), !.code = 0,
                          !.fence = (r.fence # (r.pre % 2 = 1)), !.pre = 0]

-----------------------------------------------------------------------------
(* HTML: pre, code and a do not contain themselves, the head holds only    *)
(* metadata, the title is in it, and a script holds text.                  *)
Names == {nesting[i].name : i \in DOMAIN nesting}

MayOpen(e) ==
  /\ Len(nesting) < MaxDepth
  /\ e.name \in {"pre", "code", "a", "title", "head"} => e.name \notin Names
  /\ "head" \in Names => e.name \in {"title", "link", "script"} /\ "title" \notin Names
  /\ e.name = "title" => "head" \in Names
  /\ e.name = "head" => nesting = <<>>
  /\ "script" \notin Names

OpenTag(e) ==
  /\ ~ended /\ MayOpen(e)
  /\ nesting' = IF e.name \in Void THEN nesting ELSE Append(nesting, e)
  /\ metadata' = MetadataOpens(e)
  /\ sanitizer' = SanitizerOpens(e)
  /\ render' = IF Passes(e) THEN RenderOpens(render, e) ELSE render
  /\ doubled' = (doubled \/ e.name \in Active \cap Names)
  /\ UNCHANGED ended

CloseTag ==
  /\ ~ended /\ nesting # <<>>
  /\ LET name == Last(nesting).name
     IN  /\ metadata' = MetadataCloses(name)
         /\ sanitizer' = SanitizerCloses(name)
         /\ render' = IF sanitizer = None THEN RenderCloses(render, name) ELSE render
  /\ nesting' = Front(nesting)
  /\ UNCHANGED <<ended, doubled>>

ReadTitle ==
  /\ ~ended /\ MetadataReadsText
  /\ metadata' = [metadata EXCEPT !.titled = TRUE]
  /\ UNCHANGED <<nesting, ended, sanitizer, render, doubled>>

EndPage ==
  /\ ~ended
  /\ ended' = TRUE
  /\ render' = RenderEnds(render)
  /\ UNCHANGED <<nesting, metadata, sanitizer, doubled>>

HtmlNext == (\E e \in Elements : OpenTag(e)) \/ CloseTag \/ ReadTitle \/ EndPage

-----------------------------------------------------------------------------
Hides(e) == e.noisy \/ e.name \in Active \cup {"head"}

(* The text that the Markdown shows is the text outside of the head, of the*)
(* active containers and of the noisy elements, all of it and no other,    *)
(* however they are nested, and between two elements no fence, tick or link*)
(* is open in the Markdown, nor at the end of a page that was cut; except  *)
(* after an active container inside one of its name, whose end is taken for*)
(* that of both.  The title is read outside of what is ignored, always     *)
(* (extractMetadata, sanitizePreparedHtml, renderSanitizedHtml).           *)
OnlyContentIsShown ==
  /\ MetadataReadsText <=> "title" \in Names
  /\ doubled \/ ended \/
       ((sanitizer = None /\ IsShown(render)) <=> \A i \in DOMAIN nesting : ~Hides(nesting[i]))
  /\ (~doubled /\ (ended \/ nesting = <<>>)) =>
       ~render.fence /\ ~render.tick /\ ~render.bracket
=============================================================================
