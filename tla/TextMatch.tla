------------------------------ MODULE TextMatch ------------------------------
(***************************************************************************)
(* Which words of a query count, and how far a content matches them: the   *)
(* lexical channel of a recall.  A text is a sequence of characters, told  *)
(* apart as far as the patterns do: CJK characters, the pronouns among     *)
(* them, other letters, the hyphen, and blanks.  There is one letter case. *)
(* A score is counted in sixths: its denominators are 1, 2 and 3.          *)
(***************************************************************************)
EXTENDS Integers, SequencesExt

CONSTANTS
  Letters,       \* \p{L} and \p{N} outside CJK
  Ideographs,    \* CJK_SEGMENT
  Pronouns,      \* PERSONAL_PRONOUNS
  MaxQuery, MaxContent    \* bounds on the texts compared

ASSUME TextAssumption ==
  /\ Pronouns \subseteq Ideographs /\ Letters \cap Ideographs = {}
  /\ {"-", " ", "pronoun"} \cap (Letters \cup Ideographs) = {}
  /\ {MaxQuery, MaxContent} \subseteq Nat

Characters == Letters \cup Ideographs \cup {"-", " "}
Words(string) == ToSet(string) \subseteq Letters \cup Ideographs \cup {"-"}
IsCjk(string) == ToSet(string) \subseteq Ideographs
Smaller(a, b) == IF a < b THEN a ELSE b
Largest(S)    == CHOOSE a \in S : \A b \in S : a >= b

\* What SEGMENT_PATTERN matches from a first character: CJK characters only,
\* or letters of any kind, joined by single hyphens.
IsSegment(s) ==
  IF s[1] \in Ideographs THEN IsCjk(s)
  ELSE /\ Words(s) /\ s[1] # "-" /\ s[Len(s)] # "-"
       /\ \A i \in 1..Len(s) - 1 : s[i] = "-" => s[i + 1] # "-"

\* textSegments: the longest match at each position, from left to right.
Segments(string) ==
  LET longest(i) == SubSeq(string, i, CHOOSE j \in i..Len(string) :
                      /\ IsSegment(SubSeq(string, i, j))
                      /\ \A k \in j + 1..Len(string) : ~IsSegment(SubSeq(string, i, k)))
      from[i \in 1..Len(string) + 1] ==
        IF i > Len(string) THEN << >>
        ELSE IF string[i] \in {"-", " "} THEN from[i + 1]
        ELSE <<longest(i)>> \o from[i + Len(longest(i))]
  IN from[1]

\* The parts of n neighbouring characters.
Windows(string, n) == {SubSeq(string, i, i + n - 1) : i \in 1..Len(string) - n + 1}

\* retrievalTerms: segments, long CJK ones in pairs of characters.
RetrievalTerms(string) ==
  UNION {IF IsCjk(s) /\ Len(s) >= 3 THEN Windows(s, 2) ELSE {s} : s \in ToSet(Segments(string))}

\* String.includes.
Includes(string, part) == \E i \in 0..Len(string) - Len(part) : SubSeq(string, i + 1, i + Len(part)) = part

\* Mutant of CjkSegments: pronouns are compared like other characters.
CjkSegmentsAsWritten(string) == {s \in ToSet(Segments(string)) : IsCjk(s)}

\* cjkSegments: one pronoun is as good as another.
CjkSegments(string) ==
  {[i \in DOMAIN s |-> IF s[i] \in Pronouns THEN "pronoun" ELSE s[i]] :
     s \in {s \in ToSet(Segments(string)) : IsCjk(s)}}

\* cjkPhraseScore, of one segment of the query.
PhraseScore(segment, contents) ==
  LET found(part) == \E c \in contents : Includes(c, part)
      windows == Windows(segment, 3)
      matches == Cardinality({w \in windows : found(w)})
  IN CASE Len(segment) < 2 -> 0
       [] Len(segment) = 2 -> IF found(segment) THEN 6 ELSE 0
       [] OTHER -> Smaller((6 * matches) \div Smaller(Cardinality(windows), 3), 6)

\* lexicalScore of a query that has a segment; other queries are refused.
LexicalScore(query, content) ==
  LET segments == Segments(query)
      terms    == {i \in DOMAIN segments : ~IsCjk(segments[i])}
      matches  == Cardinality({i \in terms : Includes(content, segments[i])})
      words    == IF matches = 0 THEN 0 ELSE (6 * matches) \div Smaller(Cardinality(terms), 2)
      contents == CjkSegments(content)
      phrases  == {PhraseScore(s, contents) : s \in CjkSegments(query)}
  IN Largest(phrases \cup {words})

HasLexicalMatch(query, content) == LexicalScore(query, content) > 0

MatchedQueryTerms(query, content) ==
  {t \in RetrievalTerms(query) : Includes(content, t)}

-----------------------------------------------------------------------------
TextsUpTo(n) == UNION {[1..k -> Characters] : k \in 1..n}

\* A query of one segment is found in every content it is written in, with a
\* full score, unless it is a single CJK character or the content has it
\* behind a letter: "react框架" is one segment, in which "框架" is not searched.
\* A hit has a term to show for it (matchedBy of a recall), unless pronouns
\* made it.  Which pronoun a CJK query is put with makes no difference.
SearchTruthful ==
  \A query \in {q \in TextsUpTo(MaxQuery) : Segments(q) # << >>}, content \in TextsUpTo(MaxContent) :
    LET searched(s) == ~IsCjk(s) \/ (Len(s) > 1 /\ \E c \in ToSet(Segments(content)) :
                                                    IsCjk(c) /\ Includes(c, s))
        pronouns(t) == ToSet(t) \cap Pronouns # {}
        with(p) == [i \in DOMAIN query |-> IF query[i] \in Pronouns THEN p ELSE query[i]]
        score == LexicalScore(query, content)
    IN
    /\ Includes(content, query) /\ (\E s \in ToSet(Segments(query)) : searched(s)) => score > 0
    /\ Includes(content, query) /\ Len(Segments(query)) = 1 /\ searched(Segments(query)[1]) => score >= 6
    /\ score > 0 => \/ MatchedQueryTerms(query, content) # {}
                    \/ pronouns(query) /\ pronouns(content)
    /\ pronouns(query) /\ IsCjk(query) =>
         \A p \in Pronouns : LexicalScore(with(p), content) = score

=============================================================================
