-------------------------- MODULE ContentSelection --------------------------
(***************************************************************************)
(* The sections that fetch_url answers of a page: the Markdown is split at *)
(* its headings, the sections are ranked by the terms of the query, and the*)
(* first ones are taken while there is room, the last one of them cut.     *)
(*                                                                         *)
(* A document is a sequence of lines, none of them blank; a line has the   *)
(* number of its characters and the terms that occur in it, and a heading  *)
(* also what is kept of it where it is one of a section.  A section is the *)
(* set of its lines.                                                       *)
(***************************************************************************)
EXTENDS Integers, Sequences, FiniteSets, SequencesExt, FiniteSetsExt, Functions

CONSTANTS Documents,        \* sequences of lines, see Text, Heading and Fence
          Selections,       \* queries and limits of a call
          Versions,         \* the terms that look like a version
          MaxSectionCharacters, MaxSectionTokens, MaxQueryTokens,
          MaxHeadings,      \* MAX_EXTERNAL_DOCUMENT_SECTIONS
          MaxTitleCharacters \* MAX_EXTERNAL_HEADING_CHARACTERS

Text(characters, terms) == [kind |-> "text", characters |-> characters, terms |-> terms]
Heading(level, characters, terms, kept) ==
  [kind |-> "heading", level |-> level, characters |-> characters, terms |-> terms,
   kept |-> kept]
Fence(marker, length, info) ==
  [kind |-> "fence", marker |-> marker, length |-> length, info |-> info,
   characters |-> length, terms |-> <<>>]

(* truncateUnicode: a title that is too long loses its end, and the last of*)
(* the words that are left is another one, for the ellipsis sticks to it.  *)
(* The marks of the heading are not counted.                               *)
IsCut(heading) == heading.characters > heading.level + 1 + MaxTitleCharacters

IsKept(kept, heading) ==
  /\ kept.characters \in Nat \ {0}
  /\ kept.terms \in Seq(Range(kept.terms))
  /\ IF IsCut(heading)
     THEN /\ kept.characters <= heading.level + 1 + MaxTitleCharacters
          /\ Len(kept.terms) \in 1..(Len(heading.terms) + 1)
          /\ \A k \in 1..(Len(kept.terms) - 1) : kept.terms[k] = heading.terms[k]
     ELSE kept.characters = heading.characters /\ kept.terms = heading.terms

SelectionAssumption ==
  /\ {MaxSectionCharacters, MaxSectionTokens, MaxQueryTokens, MaxHeadings, MaxTitleCharacters}
       \subseteq Nat \ {0}
  /\ \A document \in Documents :
       /\ document \in Seq(Range(document))
       /\ \A i \in DOMAIN document :
            /\ document[i].characters \in Nat \ {0}
            /\ document[i].terms \in Seq(Range(document[i].terms))
            /\ document[i].kind = "heading" =>
                 document[i].level \in 1..6 /\ IsKept(document[i].kept, document[i])
  /\ \A s \in Selections : {s.maxSections, s.maxCharacters} \subseteq Nat \ {0}

VARIABLES document, selection,
          candidates, \* the sections that answer the query
          selected,   \* those taken, the best one first, with their length and whether cut
          remaining,  \* characters that are left
          full,       \* no room was left for a ranked section
          truncated   \* contentTruncated

selectionVars == <<document, selection, candidates, selected, remaining, full, truncated>>

-----------------------------------------------------------------------------
(* <<i, k>> for the k-th of the lengths[i] places of each i, and their     *)
(* number.                                                                 *)
Places(lengths) == UNION {{i} \X (1..lengths[i]) : i \in DOMAIN lengths}

Total(lengths) == Cardinality(Places(lengths))

Precedes(p, q) == p[1] < q[1] \/ (p[1] = q[1] /\ p[2] < q[2])

-----------------------------------------------------------------------------
(* scanMarkdownHeadings: the fence that is open after each line, and the   *)
(* lines of the first MaxHeadings headings outside of a fence.             *)
Closes(line, fence) ==
  line.kind = "fence" /\ ~line.info /\ line.marker = fence.marker /\ line.length >= fence.length

OpenFence ==
  LET open[i \in 0..Len(document)] ==
        IF i = 0 THEN {}
        ELSE IF open[i - 1] # {} THEN {fence \in open[i - 1] : ~Closes(document[i], fence)}
        ELSE {line \in {document[i]} : line.kind = "fence"}
  IN  open

FirstOf(S, n) == {x \in S : Cardinality({y \in S : y < x}) < n}

Headings ==
  LET outside == {i \in DOMAIN document :
                    document[i].kind = "heading" /\ OpenFence[i - 1] = {}}
  IN  FirstOf(outside, MaxHeadings)

(* What is before the first heading is a section too.                      *)
Starts == IF document = <<>> THEN {} ELSE Headings \cup {1}

LinesFrom(start) ==
  {i \in start..Len(document) : \A s \in Starts : s <= start \/ i < s}

(* A line, or what is kept of it if it is one of the given headings.       *)
Kept(i, headings) == IF i \in headings THEN document[i].kept ELSE document[i]

(* renderSection: a blank line after the heading, a line feed between the  *)
(* lines of the body.                                                      *)
Rendered(lines, heading) ==
  Total([i \in lines |-> Kept(i, heading).characters])
    + Cardinality(lines) - 1 + (IF heading # {} /\ Cardinality(lines) > 1 THEN 1 ELSE 0)

Tokens(lines, heading, max) ==
  LET places == Places([i \in lines |-> Len(Kept(i, heading).terms)])
  IN  {Kept(p[1], heading).terms[p[2]] :
         p \in {q \in places : Cardinality({o \in places : Precedes(o, q)}) < max}}

HasCode(lines) ==
  LET fences == {i \in lines : document[i].kind = "fence" /\ document[i].marker = "backtick"}
  IN  Total([i \in fences |-> document[i].length \div 3]) >= 2

Section(start) ==
  LET lines == LinesFrom(start)
      heading == {start} \cap Headings
  IN  [from |-> start, lines |-> lines, characters |-> Rendered(lines, heading),
       code |-> HasCode(lines), tokens |-> Tokens(lines, heading, MaxSectionTokens),
       title |-> Tokens(heading, heading, MaxQueryTokens)]

(* splitMarkdown: with a preamble, the last section is left out when there *)
(* are MaxHeadings headings.                                               *)
Sections == {Section(start) : start \in FirstOf(Starts, MaxHeadings)}

Terms == ToSet(SubSeq(selection.query, 1, Min({Len(selection.query), MaxQueryTokens})))

(* lexicalRelevance in twentieths and before its division, which is by the *)
(* same number for all; without a query the first section is the best.     *)
Relevance(section) ==
  LET matched == Terms \cap section.tokens
  IN  IF Terms = {} THEN 0 - section.from
      ELSE 20 * Cardinality(matched) + 10 * Cardinality(matched \cap section.title)
             + 5 * Cardinality(matched \cap Versions)
             + (IF matched # {} /\ section.code THEN 2 ELSE 0)

Candidates == {section \in Sections : Terms = {} \/ Terms \cap section.tokens # {}}

(* In the order of the document when they are as good.                     *)
IsBetter(section, other) ==
  \/ Relevance(section) > Relevance(other)
  \/ Relevance(section) = Relevance(other) /\ section.from < other.from

-----------------------------------------------------------------------------
SelectionInit ==
  /\ document \in Documents
  /\ selection \in Selections
  /\ candidates = Candidates
  /\ selected = <<>>
  /\ remaining = selection.maxCharacters
  /\ full = FALSE
  /\ truncated = (Cardinality(candidates) > selection.maxSections)

Taken == {selected[i].section : i \in DOMAIN selected}

(* The loop goes on to the next of the first maxSections candidates.       *)
GoesOn == ~full /\ Len(selected) < selection.maxSections /\ Taken # candidates

IsNext(section) ==
  section \notin Taken /\ \A other \in (candidates \ Taken) \ {section} : IsBetter(section, other)

(* truncateAtBoundary: where it ends depends on the blanks of the text.    *)
Truncated(max) == 1..max

(* Mutant: the blank line between two sections is not counted.             *)
RemainingUnjoined == remaining

Room == IF selected = <<>> THEN remaining ELSE remaining - 2

Budget == Min({MaxSectionCharacters, Room})

Take(section, characters, isCut) ==
  /\ selected' = Append(selected, [section |-> section, characters |-> characters, cut |-> isCut])
  /\ remaining' = Room - characters
  /\ UNCHANGED <<document, selection, candidates, full, truncated>>

TakeWhole ==
  /\ GoesOn /\ Room > 0
  /\ \E section \in candidates :
       IsNext(section) /\ section.characters <= Budget /\ Take(section, section.characters, FALSE)

TakeCut ==
  /\ GoesOn /\ Room > 0
  /\ \E section \in candidates :
       /\ IsNext(section) /\ section.characters > Budget
       /\ \E characters \in Truncated(Budget) : Take(section, characters, TRUE)

NoRoom ==
  /\ GoesOn /\ Room <= 0
  /\ full' = TRUE
  /\ truncated' = TRUE
  /\ remaining' = Room
  /\ UNCHANGED <<document, selection, candidates, selected>>

SelectionNext == TakeWhole \/ TakeCut \/ NoRoom

-----------------------------------------------------------------------------
Joined ==
  Total([i \in DOMAIN selected |-> selected[i].characters])
    + (IF selected = <<>> THEN 0 ELSE 2 * (Len(selected) - 1))

(* The terms of a section that stand before a place of it.                 *)
TermsBefore(place) ==
  LET headings == Headings
  IN  {p \in Places([i \in DOMAIN document |-> Len(Kept(i, headings).terms)]) :
         Precedes(p, place) /\ \A s \in Starts : s <= p[1] \/ place[1] < s}

(* The last word that is kept of a heading that is cut, and those after it.*)
IsCutOff(place) ==
  /\ place[1] \in Headings
  /\ IsCut(document[place[1]])
  /\ place[2] >= Len(document[place[1]].kept.terms)

(* What is answered, with the blank lines between its sections, is no      *)
(* longer than maxCharacters and no section longer than its own limit;     *)
(* better sections come before worse ones, which are left out first; it    *)
(* says that it is truncated exactly when a relevant section is not there  *)
(* whole, but for its heading, which is cut to MaxTitleCharacters without a*)
(* word about it; and when it does not, every term of the query is there   *)
(* wherever the document has it, but for the end of such a heading, lines  *)
(* after the first MaxHeadings sections and terms after the first          *)
(* MaxSectionTokens of theirs (selectRelevantContent).                     *)
SelectionIsHonest ==
  ~GoesOn =>
    LET whole == {selected[i].section : i \in {j \in DOMAIN selected : ~selected[j].cut}}
        isTruncated == truncated \/ \E i \in DOMAIN selected : selected[i].cut
    IN  /\ Joined <= selection.maxCharacters
        /\ \A i \in DOMAIN selected :
             /\ selected[i].characters <= MaxSectionCharacters
             /\ \A j \in DOMAIN selected :
                  i < j => IsBetter(selected[i].section, selected[j].section)
             /\ \A other \in candidates \ Taken : IsBetter(selected[i].section, other)
        /\ isTruncated <=> whole # candidates
        /\ \A place \in Places([i \in DOMAIN document |-> Len(document[i].terms)]) :
             document[place[1]].terms[place[2]] \in Terms /\ ~isTruncated =>
               \/ \E section \in whole : place[1] \in section.lines
               \/ IsCutOff(place)
               \/ Cardinality({s \in Starts : s <= place[1]}) > MaxHeadings
               \/ Cardinality(TermsBefore(place)) >= MaxSectionTokens
=============================================================================
