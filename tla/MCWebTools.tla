---------------------------- MODULE MCWebTools ------------------------------
(***************************************************************************)
(* Small instances of WebTools for TLC.                                    *)
(***************************************************************************)
EXTENDS WebTools, TLC

CONSTANTS c1, c2, s1, s2, u, w, v1, v2, old, new

OwnServer == [c \in Call |-> IF c = c1 THEN s1 ELSE s2]

Case(tools, target, versions) ==
  [tool |-> tools, page |-> [x \in Url |-> v1],
   route |-> [x \in Url |-> IF x = u THEN target ELSE x], registry |-> versions]
All(tool) == [c \in Call |-> tool]
Apart == [s \in Server |-> IF s = s1 THEN old ELSE new]

Fetch2 == {Case(All("fetch_url"), target, Apart) : target \in Url}
Search1 == {Case([c \in Call |-> IF c = c1 THEN "search_web" ELSE None], u, Apart)}
Mixed == {Case([c \in Call |-> IF c = c1 THEN "fetch_url" ELSE "search_web"], u, Apart)}
AllCases == Fetch2 \cup Search1 \cup Mixed

Ask(policy, language, excluded) ==
  [terms |-> {"node", "fs"}, policy |-> policy, language |-> language, allowed |-> {},
   excluded |-> excluded, maxResults |-> 1]
Strict == Ask("strict", None, {<<"forum", "org">>})
Prefer == Ask(None, "en", {})
Asks == [c \in Call |-> IF c = c1 THEN {Strict, Prefer, [Prefer EXCEPT !.maxResults = 0]} ELSE {Prefer}]

Keys == {<<"content", x>> : x \in Requested}
          \cup {<<"search", q, r>> : q \in {Normalized(Strict), Normalized(Prefer)}, r \in Registry}

(* v2 alone is larger than the whole cache.                                *)
Sizes == [x \in Content |-> IF x = v1 THEN 1 ELSE 4]
Lifetimes == [x \in Url |-> 1]

(* A page that is rendered, one whose payload no read accepts, and one that*)
(* the renderer is missing for.                                            *)
Rendered == [type |-> "html", text |-> "thin", answer |-> "useful", readable |-> TRUE]
Pages == {Rendered,
          [Rendered EXCEPT !.text = "useful", !.readable = FALSE],
          [Rendered EXCEPT !.answer = "garbled"]}

(* A verified result without any other signal, another one with all, and   *)
(* one that is excluded from a request.                                    *)
Page(host, path) == [scheme |-> "https", host |-> host, port |-> 443, path |-> path]
Plain == [rank |-> 1, url |-> Page(<<"org">>, <<>>), provider |-> 0, title |-> {}]
Loud == [rank |-> 2, url |-> Page(<<"docs", "io">>, <<"node", "fs">>), provider |-> 100,
         title |-> {"node", "fs"}]
Found == {Plain, Loud}

Official(id, host, keywords) ==
  [id |-> id, domain |-> host, base |-> Page(host, <<>>), pathPrefix |-> <<>>,
   includeSubdomains |-> TRUE, githubOrganizations |-> {}, keywords |-> keywords,
   priority |-> 0, enabled |-> TRUE]
Files == [r \in Registry |-> {Official("org", <<"org">>, {"fs"})}
            \cup (IF r = old THEN {Official("io", <<"io">>, {"http"})} ELSE {})]
=============================================================================
