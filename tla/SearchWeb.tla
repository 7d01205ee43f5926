----------------------------- MODULE SearchWeb ------------------------------
(***************************************************************************)
(* The tool search_web: one search of SearXNG, or with the policy strict   *)
(* one among the official sources that the query names, one among the other*)
(* official sources when that finds none of them, and one in English when  *)
(* nothing was found; then the results are filtered, ranked and cached.    *)
(*                                                                         *)
(* A server reads the registry of official sources when it starts, and the *)
(* registry may be another one when it starts again.                       *)
(***************************************************************************)
EXTENDS WebCache, OfficialSources

CONSTANTS Queries,        \* what each client asks: terms, policy, language,
                          \* allowed and excluded domains, number of results
          Registry,       \* versions of the registry servers may start with
          SourcesOf,      \* the official sources of each version
          Result,         \* results that SearXNG may answer
          SearchTtl,
          SearchTimeout   \* ticks for all the passes of a call

Query == [terms : SUBSET STRING, policy : STRING \cup {None}, language : STRING \cup {None},
          allowed : SUBSET Seq(STRING), excluded : SUBSET Seq(STRING), maxResults : Int]

ASSUME SearchAssumption ==
  /\ Queries \in [Call -> SUBSET Query]
  /\ \A c \in Call : \A q \in Queries[c] : IsFiniteSet(q.terms)
  /\ IsFiniteSet(Result)
  /\ \A r \in Result : r.rank \in Nat /\ r.provider \in 0..100
  /\ \A version \in Registry :
       /\ AcceptsRegistry(SourcesOf[version])
       /\ IsFiniteSet(SourcesOf[version])
       /\ \A s \in SourcesOf[version] : s.priority \in Int
  /\ {SearchTtl, SearchTimeout} \subseteq Nat

VARIABLE registry  \* the registry of each server

SearchErrors ==
  {"INVALID_ARGUMENT", "CACHE_UNAVAILABLE", "SEARCH_PROVIDER_UNAVAILABLE"}

ASSUME SearchErrorsAssumption == None \notin SearchErrors

Warnings == {"FALLBACK_LANGUAGE_USED", "NO_VERIFIED_OFFICIAL_SOURCE", "NO_RESULTS",
             "NON_OFFICIAL_RESULTS_INCLUDED", "RESULTS_TRUNCATED"}

SearchAnswer ==
  [results : SUBSET Result, cut : SUBSET Result, warnings : SUBSET Warnings]

Searching(c, steps) == call[c].tool = "search_web" /\ call[c].step \in steps

(* Results that a registry verifies, whatever the query.                   *)
VerifiedBy == [version \in Registry |->
                 {r \in Result : FindByUrl(SourcesOf[version], r.url) # {}}]
Verified(c) == VerifiedBy[registry[ServerOf[c]]]

(* normalizeSearchRequest; an argument out of its range is refused.        *)
IsValidRequest(query) ==
  /\ query.policy \in {None, "strict", "prefer", "any"}
  /\ query.maxResults \in 1..10

Normalized(query) ==
  [query EXCEPT !.policy = IF @ = None THEN "prefer" ELSE @,
                !.language = IF @ = None THEN "fr" ELSE @]

(* Mutant: a key without the version of the registry.                      *)
SearchKeyOfQuery(c) ==
  <<"search", call[c].asked, CHOOSE version \in Registry : TRUE>>

(* createSearchCacheKey: the version of the registry is part of the key.   *)
SearchKey(c) == <<"search", call[c].asked, registry[ServerOf[c]]>>

SearchInit(versions) == registry = versions

StartSearch(c, query) ==
  /\ Searching(c, {"idle"})
  /\ IF IsValidRequest(query)
     THEN call' = [call EXCEPT ![c].step = "read", ![c].started = now,
                     ![c].deadline = now + SearchTimeout, ![c].asked = Normalized(query)]
     ELSE Answered(c, "INVALID_ARGUMENT")
  /\ UNCHANGED <<now, events, rows, usage, failedAt, registry>>

-----------------------------------------------------------------------------
(* The sources of the two passes of collectStrictResponses.                *)
AllowsHost(asked, host) ==
  /\ asked.allowed = {} \/ \E d \in asked.allowed : MatchesDomain(host, d)
  /\ ~\E d \in asked.excluded : MatchesDomain(host, d)

IsAllowedOfficialSource(source, asked) ==
  /\ source.enabled
  /\ ~\E d \in asked.excluded : MatchesDomain(source.domain, d)
  /\ \/ asked.allowed = {}
     \/ \E d \in asked.allowed :
          MatchesDomain(source.domain, d) \/ MatchesDomain(d, source.domain)

TargetedSources(version, asked) ==
  {s \in FindForQuery(SourcesOf[version], asked.terms) : IsAllowedOfficialSource(s, asked)}

FallbackSources(version, asked) ==
  {s \in SourcesOf[version] \ TargetedSources(version, asked) :
     IsAllowedOfficialSource(s, asked)}

HasSources(c, pass) ==
  LET version == registry[ServerOf[c]]
  IN  IF pass = "targeted"
      THEN TargetedSources(version, call[c].asked) # {}
      ELSE FallbackSources(version, call[c].asked) # {}

IsEnglish(c) == call[c].asked.language = "en"

(* Without any source nothing is asked, and nothing is found.              *)
FirstPass(c) ==
  IF call[c].asked.policy # "strict" THEN "first"
  ELSE IF HasSources(c, "targeted") THEN "targeted"
  ELSE IF HasSources(c, "fallback") THEN "fallback"
  ELSE "rank"

(* A result that the request excludes counts as an official one here.      *)
NextPass(c, pass, collected) ==
  IF /\ pass = "targeted" /\ HasSources(c, "fallback")
     /\ collected \cap Verified(c) = {}
     /\ MayAnswer(c)
  THEN "fallback"
  ELSE IF pass # "english" /\ collected = {} /\ ~IsEnglish(c) THEN "english" ELSE "rank"

ReadSearch(c) ==
  /\ Searching(c, {"read", "settle"})
  /\ \/ Select(c, SearchKey(c), "answered", FirstPass(c))
     \/ Settle(c, SearchKey(c), "answered", FirstPass(c))
  /\ UNCHANGED registry

(* fetchJson: an answer, a status, or none; an answer that is too large or *)
(* no JSON makes the provider unavailable.                                 *)
Attempt == {"answered", "garbled", "busy", "rejected", "unreachable"}

(* requestJson tries once more after a status that may pass, and search    *)
(* checks the contract of the answer.                                      *)
Attempts(first, second) == IF first = "busy" THEN second ELSE first
Outcomes == {Attempts(first, second) : first, second \in Attempt}

TransientSearch == {"garbled", "busy", "unreachable", "REQUEST_TIMEOUT"}

(* A stale entry answers for a provider that may come back.                *)
SearchFails(c, error) ==
  IF call[c].seen # NoRow /\ error \in TransientSearch
  THEN Decided(c, "answered", call[c].seen.value, "STALE_FALLBACK")
  ELSE Answered(c, "SEARCH_PROVIDER_UNAVAILABLE")

Passes == {"first", "targeted", "fallback", "english"}

(* SearXNG answers with anything: the constraint to domains is a request.  *)
SearchProvider(c) ==
  /\ Searching(c, Passes)
  /\ \/ /\ MayAnswer(c)
        /\ \/ \E error \in Outcomes \ {"answered"} : SearchFails(c, error)
           \/ \E found \in SUBSET Result :
                LET collected == call[c].collected \cup found
                    next == NextPass(c, call[c].step, collected)
                IN  call' = [call EXCEPT ![c].collected = collected, ![c].step = next,
                                         ![c].english = @ \/ next = "english"]
     \/ TimesOut(c) /\ SearchFails(c, "REQUEST_TIMEOUT")
  /\ UNCHANGED <<now, events, rows, usage, failedAt, registry>>

-----------------------------------------------------------------------------
(* classifySource.                                                         *)
Words(url) == ToSet(url.host) \cup ToSet(url.path)
ThirdPartyDomains == {<<"stackoverflow", "com">>, <<"medium", "com">>}

IsThirdParty(url) ==
  \/ \E d \in ThirdPartyDomains : MatchesDomain(url.host, d)
  \/ Words(url) \cap {"blog", "community", "forum"} # {}

LooksLikeDocumentation(url) == Words(url) \cap {"docs", "api", "reference"} # {}

SourceSignal(r, verified) ==
  IF r \in verified THEN 500 ELSE IF IsThirdParty(r.url) THEN -80 ELSE 0

Share(terms, text) == Cardinality(terms \cap text)

Priority(sources, url) ==
  Max({0} \cup {Min({s.priority, 1000}) : s \in FindByUrl(sources, url)})

(* scoreResult, in thousandths; provider is the signal of the score that   *)
(* the provider gave, in percent.                                          *)
Score(r, asked, version) ==
  LET terms == asked.terms
      number == Max({1, Cardinality(terms)})
  IN  120 + (120 * r.provider) \div 100 + SourceSignal(r, VerifiedBy[version])
        + (150 * Share(terms, r.title)) \div number
        + (50 * Share(terms, Words(r.url))) \div number
        + (IF LooksLikeDocumentation(r.url) THEN 40 ELSE 0)
        + (50 * Priority(SourcesOf[version], r.url)) \div 1000

Before(r, s, asked, version) ==
  LET of == Score(r, asked, version)  other == Score(s, asked, version)
  IN  of > other \/ (of = other /\ r.rank < s.rank)

(* The domains of the request, and applySourcePolicy.                      *)
Candidates(c) ==
  {r \in call[c].collected :
     /\ AllowsHost(call[c].asked, r.url.host)
     /\ call[c].asked.policy = "strict" => r \in Verified(c)}

(* rankAndDeduplicate and the cut to maxResults.                           *)
Kept(c, candidates) ==
  {r \in candidates :
     Cardinality({s \in candidates :
                    Before(s, r, call[c].asked, registry[ServerOf[c]])})
       < call[c].asked.maxResults}

(* The warnings are part of the value, and cached with it.                 *)
SearchWarnings(c, candidates, kept) ==
  {w \in Warnings :
     \/ w = "FALLBACK_LANGUAGE_USED" /\ call[c].english
     \/ /\ w = "NO_VERIFIED_OFFICIAL_SOURCE"
        /\ kept = {} /\ call[c].asked.policy = "strict"
     \/ w = "NO_RESULTS" /\ kept = {} /\ call[c].asked.policy # "strict"
     \/ w = "RESULTS_TRUNCATED" /\ kept # candidates
     \/ /\ w = "NON_OFFICIAL_RESULTS_INCLUDED"
        /\ call[c].asked.policy = "prefer"
        /\ ~(kept \subseteq Verified(c))}

SearchValue(c) ==
  LET candidates == Candidates(c)
      kept == Kept(c, candidates)
  IN  [results |-> kept, cut |-> candidates \ kept,
       warnings |-> SearchWarnings(c, candidates, kept)]

StoreSearch(c) ==
  LET v == SearchValue(c)
  IN  /\ Searching(c, {"rank"})
      /\ \/ /\ Set(c, SearchKey(c), Entry(v, TRUE, SearchTtl, 1, None, None))
            /\ Decided(c, "answered", v, "MISS")
         \/ /\ NotSet(c)
            /\ IF ContinueOnError THEN Decided(c, "answered", v, "DISABLED")
                              ELSE Answered(c, "CACHE_UNAVAILABLE")
      /\ UNCHANGED registry

SearchStep(c) ==
  \/ \E query \in Queries[c] : StartSearch(c, query)
  \/ ReadSearch(c)
  \/ SearchProvider(c)
  \/ StoreSearch(c)

(* A server ends and another one starts, with the registry of that moment. *)
Restart(s, version) ==
  /\ version # registry[s]
  /\ \A c \in Call : ServerOf[c] = s => call[c].step = "idle"
  /\ registry' = [registry EXCEPT ![s] = version]
  /\ failedAt' = [failedAt EXCEPT ![s] = Up]
  /\ Event
  /\ UNCHANGED <<now, rows, usage, call>>

-----------------------------------------------------------------------------
(* With the policy strict every result is one that the registry of the     *)
(* answering server verifies, and with any policy no verified result gives *)
(* way to another one, and with prefer the others come with their warning: *)
(* for cached and stale answers too, which servers with other registries   *)
(* may have written, and whatever a provider answers that was asked for    *)
(* other domains.                                                          *)
AnswersFollowThePolicy ==
  \A c \in Call :
    Searching(c, {"answered"}) /\ call[c].error = None =>
      LET v == call[c].value
      IN  /\ call[c].asked.policy = "strict" => v.results \subseteq Verified(c)
          /\ v.cut \cap Verified(c) # {} => v.results \subseteq Verified(c)
          /\ call[c].asked.policy = "prefer" /\ ~(v.results \subseteq Verified(c)) =>
               "NON_OFFICIAL_RESULTS_INCLUDED" \in v.warnings
          /\ \A r \in v.results : AllowsHost(call[c].asked, r.url.host)
=============================================================================
