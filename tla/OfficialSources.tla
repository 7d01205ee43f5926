--------------------------- MODULE OfficialSources --------------------------
(***************************************************************************)
(* The registry of official sources: which entries of its file it accepts, *)
(* which source verifies a URL, and which sources a query names.           *)
(*                                                                         *)
(* A host is the sequence of its labels, a path that of its segments, and  *)
(* text is the set of the terms it is made of.                             *)
(***************************************************************************)
EXTENDS Integers, Sequences, SequencesExt

(* Equal to the domain, or below it.                                       *)
MatchesDomain(host, domain) == IsSuffix(domain, host)

DomainMatches(host, domain, includeSubdomains) ==
  host = domain \/ (includeSubdomains /\ MatchesDomain(host, domain))

PathMatches(path, prefix) == IsPrefix(prefix, path)

Hub == {<<"github", "com">>, <<"www", "github", "com">>}

GithubOrganizationMatches(url, organizations) ==
  url.host \in Hub /\ Len(url.path) > 0 /\ url.path[1] \in organizations

(* The constructor refuses the whole file for one entry.                   *)
IsValidSource(source) ==
  /\ source.domain # <<>>
  /\ source.base.scheme = "https"
  /\ DomainMatches(source.base.host, source.domain, source.includeSubdomains)
  /\ PathMatches(source.base.path, source.pathPrefix)

AcceptsRegistry(sources) ==
  /\ \A s \in sources : IsValidSource(s)
  /\ \A s, t \in sources : s.id = t.id => s = t

Enabled(sources) == {s \in sources : s.enabled}

Verifies(source, url) ==
  /\ url.scheme = "https"
  /\ \/ /\ url.port = source.base.port
        /\ DomainMatches(url.host, source.domain, source.includeSubdomains)
        /\ PathMatches(url.path, source.pathPrefix)
     \/ url.port = 443 /\ GithubOrganizationMatches(url, source.githubOrganizations)

(* findByUrl returns one of them.                                          *)
FindByUrl(sources, url) == {s \in Enabled(sources) : Verifies(s, url)}

FindForQuery(sources, terms) == {s \in Enabled(sources) : s.keywords \cap terms # {}}
=============================================================================
