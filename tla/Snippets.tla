------------------------------ MODULE Snippets ------------------------------
(***************************************************************************)
(* The snippet of a search result: of the windows that begin Radius before *)
(* an occurrence of a term of the query, the one that holds most terms, and*)
(* of those the one that holds them closest together.                      *)
(*                                                                         *)
(* A content is a sequence of words with a space between two of them.  The *)
(* positions are those of the program, in UTF-16 units: a character of a   *)
(* word with pairs has two, and a window may begin between them.           *)
(***************************************************************************)
EXTENDS Integers, Sequences, FiniteSets, FiniteSetsExt, Functions

CONSTANTS Contents,        \* sequences of words, see Word
          Queries,         \* sequences of different terms
          Radius,          \* SEARCH_SNIPPET_RADIUS
          MaxTerms,        \* MAX_SNIPPET_TERMS
          MaxOccurrences   \* MAX_SNIPPET_OCCURRENCES_PER_TERM

(* A word without its accents and its case, its characters, and whether    *)
(* each is a surrogate pair.                                               *)
Word(term, characters, pairs) == [term |-> term, characters |-> characters, pairs |-> pairs]

SnippetAssumption ==
  /\ {Radius, MaxTerms, MaxOccurrences} \subseteq Nat \ {0}
  /\ \A content \in Contents :
       /\ content \in Seq(Range(content)) /\ content # <<>>
       /\ \A i \in DOMAIN content : content[i].characters \in Nat \ {0}

VARIABLES content, query,
          anchor,  \* the last occurrence whose window was scored, 0 before the first
          best,    \* the best of the windows scored so far, {} before the first
          snippet  \* the start of the snippet and what is shown of it, {} before

snippetVars == <<content, query, anchor, best, snippet>>

-----------------------------------------------------------------------------
(* Positions.                                                              *)
Units(word) == IF word.pairs THEN 2 * word.characters ELSE word.characters

(* The words before have their units, and a space each.                    *)
UnitsBefore(i) == UNION {{j} \X (0..Units(content[j])) : j \in 1..(i - 1)}

StartOf(i) == Cardinality(UnitsBefore(i))

EndOf(i) == StartOf(i) + Units(content[i])

ContentLength == EndOf(Len(content))

InsidePair(position) ==
  \E i \in DOMAIN content :
    /\ content[i].pairs /\ position \in StartOf(i)..(EndOf(i) - 1)
    /\ (position - StartOf(i)) % 2 = 1

PreviousUnicodeBoundary(position) == IF InsidePair(position) THEN position - 1 ELSE position

IsSpace(position) == \E i \in DOMAIN content : position = EndOf(i)

(* The characters that begin in a range of positions.                      *)
Characters(from, to) == Cardinality({p \in from..(to - 1) : ~InsidePair(p)})

-----------------------------------------------------------------------------
Terms == {query[k] : k \in {n \in DOMAIN query : n <= MaxTerms}}

(* The first MaxOccurrences of each term.                                  *)
Occurrences ==
  {i \in DOMAIN content :
     /\ content[i].term \in Terms
     /\ Cardinality({j \in 1..i : content[j].term = content[i].term}) <= MaxOccurrences}

SnippetLength == 2 * Radius

WindowStart(position) ==
  Min({Max({0, position - Radius}), Max({0, ContentLength - SnippetLength})})

(* The terms that begin in a window, and the units they spread over.       *)
Score(start) ==
  LET end == Min({ContentLength, start + SnippetLength})
      inside == {i \in Occurrences : StartOf(i) \in start..(end - 1)}
  IN  [start |-> start,
       matched |-> Cardinality({content[i].term : i \in inside}),
       span |-> Max({Min({end, EndOf(i)}) : i \in inside}) - Min({StartOf(i) : i \in inside})]

(* Mutant: the widest of the windows with as many terms.                   *)
IsWiderWindow(window, other) ==
  \/ window.matched > other.matched
  \/ window.matched = other.matched /\ window.span > other.span

IsBetterWindow(window, other) ==
  \/ window.matched > other.matched
  \/ window.matched = other.matched /\ window.span < other.span
  \/ window.matched = other.matched /\ window.span = other.span /\ window.start < other.start

-----------------------------------------------------------------------------
SnippetInit ==
  /\ content \in Contents
  /\ query \in Queries
  /\ anchor = 0
  /\ best = {}
  /\ snippet = {}

ScoreWindow ==
  \E i \in Occurrences :
    /\ anchor < i /\ \A j \in Occurrences : j <= anchor \/ i <= j
    /\ anchor' = i
    /\ LET window == Score(WindowStart(StartOf(i)))
       IN  best' = IF \A other \in best : IsBetterWindow(window, other) THEN {window} ELSE best
    /\ UNCHANGED <<content, query, snippet>>

RequestedStart == IF best = {} THEN 0 ELSE (CHOOSE w \in best : TRUE).start

Trimmed(end) == IF IsSpace(end - 1) THEN end - 1 ELSE end

(* A longer text loses what is after its first SnippetLength - 1 characters*)
(* to an ellipsis.                                                         *)
Truncated(from, to) ==
  IF Characters(from, to) <= SnippetLength THEN to
  ELSE Trimmed(CHOOSE p \in from..to :
                 Characters(from, p) = SnippetLength - 1 /\ ~InsidePair(p))

(* The text from the start, without the spaces around it.                  *)
ShowSnippet ==
  /\ \A j \in Occurrences : j <= anchor
  /\ snippet = {}
  /\ LET start == PreviousUnicodeBoundary(RequestedStart)
         end == PreviousUnicodeBoundary(Min({ContentLength, start + 2 * SnippetLength}))
         from == IF IsSpace(start) THEN start + 1 ELSE start
     IN  snippet' = {[start |-> start, from |-> from, to |-> Truncated(from, Trimmed(end))]}
  /\ UNCHANGED <<content, query, anchor, best>>

SnippetNext == ScoreWindow \/ ShowSnippet

-----------------------------------------------------------------------------
Precedes(window, other) ==
  LET rank(w) == <<0 - w.matched, w.span, w.start>>
  IN  \E k \in 1..3 : /\ \A j \in 1..(k - 1) : rank(window)[j] = rank(other)[j]
                      /\ rank(window)[k] < rank(other)[k]

(* The snippet of a content that has a term of the query begins the window *)
(* that no other one precedes, half a character earlier when it would split*)
(* a pair, shows at most SnippetLength characters, and the occurrence that *)
(* the window was chosen for begins in what it shows, whatever is cut at   *)
(* the ends (createSnippet).                                               *)
SnippetShowsTheBestMatch ==
  \A s \in snippet :
    LET windows == {Score(WindowStart(StartOf(i))) : i \in Occurrences}
    IN  /\ ~InsidePair(s.start) /\ ~InsidePair(s.to) /\ Characters(s.from, s.to) <= SnippetLength
        /\ windows # {} =>
             \E w \in windows :
               /\ \A other \in windows : ~Precedes(other, w)
               /\ s.start \in {w.start - 1, w.start}
               /\ \E i \in Occurrences :
                    w.start = WindowStart(StartOf(i)) /\ StartOf(i) \in s.from..(s.to - 1)
=============================================================================
