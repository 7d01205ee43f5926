------------------------------ MODULE FetchUrl ------------------------------
(***************************************************************************)
(* The tool fetch_url: the URL is approved, the cache read, the page       *)
(* downloaded (with the validators of a stale entry), extracted and stored,*)
(* and the final URL approved.  All of it has one deadline.                *)
(*                                                                         *)
(* The Web is what it answers at each moment: a page has a content, the tag*)
(* of a page is that of its content, so that two pages may have the same   *)
(* tag, and a page may redirect to another one.                            *)
(***************************************************************************)
EXTENDS WebCache

CONSTANTS Url, Requested,  \* pages, and those that clients ask for
          Content,
          SizeOf,          \* bytes of the payload of each content
          TtlOf,           \* lifetime of an entry, by the path of its final URL
          Timeout,         \* ticks a call may take
          Extractions,     \* outcomes of an extraction, see Extraction
          Tagged,          \* which answers may carry an ETag
          Redirects,       \* where Requested pages may redirect to
          Changing         \* bound: pages whose content changes

ASSUME FetchAssumption ==
  /\ Requested \subseteq Url
  /\ SizeOf \in [Content -> Nat]
  /\ TtlOf \in [Url -> Nat]
  /\ Timeout \in Nat
  /\ Tagged \subseteq BOOLEAN
  /\ Redirects \cup Changing \subseteq Url
  /\ Extractions \subseteq
       [type : {"html", "pdf", "image", "json", "markup", "text", "other"},
        text : {"useful", "thin", "empty", "invalid"},
        answer : {"useful", "thin", "empty", "garbled", "unreachable", "unsuccessful"},
        readable : BOOLEAN]
  /\ \A e \in Extractions : e.text = "invalid" => e.type \in {"json", "pdf"}

VARIABLES page,    \* the content of each page
          route,   \* where a page redirects to, itself when it does not
          served   \* when a page last answered a request for a URL; Never

web == <<page, route, served>>

Never == -100
Body(url) == <<route[url], page[route[url]]>>

(* Of FetchedContent: the body and its final URL, the tag, and how it was  *)
(* extracted.                                                              *)
Fetched(body, final, tag, mode, readable) ==
  [body |-> body, final |-> final, tag |-> tag, mode |-> mode, readable |-> readable]

FetchedValue ==
  [body : Url \X Content, final : Url, tag : Content \cup {None},
   mode : {"static", "native-render"}, readable : BOOLEAN]

FetchErrors ==
  {"CACHE_UNAVAILABLE", "URL_REFUSED", "REQUEST_TIMEOUT", "HTTP_BUSY", "HTTP_ERROR",
   "CONTENT_PROVIDER_UNAVAILABLE", "EXTRACTION_FAILED", "OCR_REQUIRED_NOT_SUPPORTED",
   "UNSUPPORTED_CONTENT_TYPE"}

ASSUME FetchErrorsAssumption == None \notin FetchErrors

FetchInit(pages, routes) ==
  /\ page = pages
  /\ route = routes
  /\ served = [u \in Requested |-> [b \in Url \X Content |-> Never]]

(* What a page answered until now is noted when it changes.                *)
Note ==
  served' = [u \in Requested |-> [served[u] EXCEPT ![Body(u)] = now]]

ChangePage(u, content) ==
  /\ content # page[u]
  /\ page' = [page EXCEPT ![u] = content]
  /\ Note /\ Event
  /\ UNCHANGED <<route, now, rows, usage, failedAt, call>>

ChangeRoute(u, target) ==
  /\ target # route[u]
  /\ route' = [route EXCEPT ![u] = target]
  /\ Note /\ Event
  /\ UNCHANGED <<page, now, rows, usage, failedAt, call>>

ServedAt(u, body) == IF body = Body(u) THEN now ELSE served[u][body]

-----------------------------------------------------------------------------
ContentKey(u) == <<"content", u>>

Fetching(c, steps) == call[c].tool = "fetch_url" /\ call[c].step \in steps

StartFetch(c, u) ==
  /\ Fetching(c, {"idle"})
  /\ call' = [call EXCEPT ![c].step = "approve", ![c].asked = u,
                          ![c].started = now, ![c].deadline = now + Timeout]
  /\ UNCHANGED <<now, events, rows, usage, failedAt, web>>

(* assertAllowed of the requested URL: the policy may refuse it.           *)
ApproveRequest(c) ==
  /\ Fetching(c, {"approve"})
  /\ \/ MayAnswer(c) /\ call' = [call EXCEPT ![c].step = "read"]
     \/ MayAnswer(c) /\ Answered(c, "URL_REFUSED")
     \/ TimesOut(c) /\ Answered(c, "REQUEST_TIMEOUT")
  /\ UNCHANGED <<now, events, rows, usage, failedAt, web>>

ReadContent(c) ==
  /\ Fetching(c, {"read", "settle"})
  /\ LET key == ContentKey(call[c].asked)
     IN  Select(c, key, "final", "download") \/ Settle(c, key, "final", "download")
  /\ UNCHANGED web

(* isTransientProviderError: a status that may pass counts as well.        *)
Transient == {"CONTENT_PROVIDER_UNAVAILABLE", "REQUEST_TIMEOUT", "HTTP_BUSY"}

(* A failure of the provider: the stale entry answers for a transient one. *)
ProviderFails(c, error) ==
  IF call[c].seen # NoRow /\ error \in Transient
  THEN Decided(c, "final", call[c].seen.value, "STALE_FALLBACK")
  ELSE Answered(c, error)

(* Mutant: the tag goes to any URL.                                        *)
SentAnyTag(c) == call[c].seen.tag

(* validatorsApplyTo: the tag goes only to the URL whose answer carried it.*)
SentTag(c) ==
  IF call[c].seen.url = call[c].asked THEN call[c].seen.tag ELSE None

(* mergeNotModifiedContent keeps the body the entry had.                   *)
MergeNotModified(c) == [call[c].seen.value EXCEPT !.final = call[c].asked]

(* A page that does not redirect answers 304 to the tag of its content.    *)
AnswersUnchanged(c) ==
  LET url == call[c].asked
  IN  route[url] = url /\ SentTag(c) # None /\ SentTag(c) = page[url]

Download(c) ==
  LET url == call[c].asked
  IN  /\ Fetching(c, {"download"})
      /\ \/ /\ MayAnswer(c)
            /\ IF AnswersUnchanged(c)
               THEN call' = [call EXCEPT ![c].step = "store", ![c].status = "HIT",
                                         ![c].value = MergeNotModified(c)]
               ELSE \E tagged \in Tagged :
                      call' = [call EXCEPT ![c].step = "extract", ![c].status = "MISS",
                                 ![c].value = Fetched(Body(url), route[url],
                                    IF tagged THEN page[route[url]] ELSE None, "static", TRUE)]
         \/ \E error \in {"HTTP_BUSY", "HTTP_ERROR"} :
              MayAnswer(c) /\ ProviderFails(c, error)
         \/ TimesOut(c) /\ ProviderFails(c, "REQUEST_TIMEOUT")
      /\ UNCHANGED <<now, events, rows, usage, failedAt, web>>

(* decodeResource: the text that the body gives without a browser.         *)
Decode(type, text) ==
  CASE type = "image" -> "OCR_REQUIRED_NOT_SUPPORTED"
    [] type = "other" -> "UNSUPPORTED_CONTENT_TYPE"
    [] type \in {"json", "pdf"} /\ text = "invalid" -> "EXTRACTION_FAILED"
    [] OTHER -> text

(* renderPreparedHtml.                                                     *)
Render(answer) ==
  CASE answer \in {"unreachable", "garbled"} -> "CONTENT_PROVIDER_UNAVAILABLE"
    [] answer = "unsuccessful" -> "EXTRACTION_FAILED"
    [] OTHER -> answer

(* extractMarkdown: a page whose static text is too thin is rendered, and  *)
(* the rendering is used when it is useful.                                *)
Extraction(type, text, answer) ==
  LET static == Decode(type, text)
      rendered == Render(answer)
      renders == type = "html" /\ static \in {"thin", "empty"}
  IN  IF static \notin {"useful", "thin", "empty"} THEN static
      ELSE IF renders /\ rendered = "useful" THEN "native-render"
      ELSE IF renders /\ rendered \notin {"thin", "empty"} THEN rendered
      ELSE IF static = "empty" THEN "EXTRACTION_FAILED"
      ELSE "static"

(* toFetchedContent.  The rendering waits as well.                         *)
Extract(c) ==
  /\ Fetching(c, {"extract"})
  /\ \/ /\ MayAnswer(c)
        /\ \E e \in Extractions :
             LET outcome == Extraction(e.type, e.text, e.answer)
             IN  IF outcome \in {"static", "native-render"}
                 THEN call' = [call EXCEPT ![c].step = "store", ![c].value.mode = outcome,
                                           ![c].value.readable = e.readable]
                 ELSE ProviderFails(c, outcome)
     \/ TimesOut(c) /\ ProviderFails(c, "REQUEST_TIMEOUT")
  /\ UNCHANGED <<now, events, rows, usage, failedAt, web>>

(* setContent, inside the same try as the download.                        *)
StoreContent(c) ==
  LET v == call[c].value
      row == Entry(v, v.readable, TtlOf[v.final], SizeOf[v.body[2]], v.tag,
                   IF v.tag = None THEN None ELSE v.final)
  IN  /\ Fetching(c, {"store"})
      /\ \/ Set(c, ContentKey(call[c].asked), row) /\ Decided(c, "final", v, call[c].status)
         \/ NotSet(c) /\ IF ContinueOnError
                         THEN Decided(c, "final", v, "DISABLED")
                         ELSE ProviderFails(c, "CACHE_UNAVAILABLE")
      /\ UNCHANGED web

(* assertAllowed of the final URL, of the canonical one and of the links.  *)
ApproveFinal(c) ==
  /\ Fetching(c, {"final"})
  /\ \/ MayAnswer(c) /\ Answered(c, None)
     \/ MayAnswer(c) /\ Answered(c, "URL_REFUSED")
     \/ TimesOut(c) /\ Answered(c, "REQUEST_TIMEOUT")
  /\ UNCHANGED <<now, events, rows, usage, failedAt, web>>

FetchWarnings(c) ==
  LET v == call[c].value
  IN  {w \in {"STALE_CACHE_USED", "REDIRECTED_URL", "JAVASCRIPT_FALLBACK_USED"} :
         \/ w = "STALE_CACHE_USED" /\ call[c].status = "STALE_FALLBACK"
         \/ w = "REDIRECTED_URL" /\ v.final # call[c].asked
         \/ w = "JAVASCRIPT_FALLBACK_USED" /\ v.mode = "native-render"}

FetchStep(c) ==
  \/ \E u \in Requested : StartFetch(c, u)
  \/ ApproveRequest(c)
  \/ ReadContent(c)
  \/ Download(c)
  \/ Extract(c)
  \/ StoreContent(c)
  \/ ApproveFinal(c)

WebStep ==
  \/ \E u \in Changing, content \in Content : ChangePage(u, content)
  \/ \E u \in Requested : \E target \in Redirects \cup {u} : ChangeRoute(u, target)

-----------------------------------------------------------------------------
(* What fetch_url answers is what the page answered no longer ago than the *)
(* life of an entry and the time of a call, and with STALE_CACHE_USED than *)
(* the stale retention more: even when another server refreshes or replaces*)
(* the entry between the read of the cache and the answer of the page, and *)
(* when pages that redirect to each other have the same tag.               *)
AnswersAreRecent ==
  \A c \in Call :
    Fetching(c, {"final", "answered"}) /\ call[c].error = None =>
      LET v == call[c].value
          age == TtlOf[v.final] + Timeout
                   + IF "STALE_CACHE_USED" \in FetchWarnings(c)
                     THEN StaleRetention + Timeout ELSE 0
      IN  call[c].decided - ServedAt(call[c].asked, v.body) < age
=============================================================================
