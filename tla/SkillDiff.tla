------------------------------ MODULE SkillDiff ------------------------------
(***************************************************************************)
(* What a reviewer is shown of two versions of a SKILL.md: the sections of *)
(* its text (skill-markdown), their differences (skill-diff), and what the *)
(* quality report says of them (skill-validator).                          *)
(*                                                                         *)
(* A text is a sequence of lines; a line is a heading or some other line,  *)
(* one of them blank.  The front matter is a partial function from fields  *)
(* to values.                                                              *)
(***************************************************************************)
EXTENDS Integers, SequencesExt

CONSTANTS
  Titles,       \* headings as they are written
  TitleOf,      \* normalizeSectionTitle
  Lines,        \* lines that are no headings
  Steps,        \* those that are list items
  Blank,        \* the empty line
  Capability,   \* aliases: the normalized titles of each capability
  Fields, Values,
  NoField,      \* a field that is not there, or null
  MaxText, MaxBody      \* bounds on the lines of a text and of a section

ASSUME DiffAssumption ==
  /\ Blank \in Lines /\ Steps \subseteq Lines \ {Blank} /\ Titles \cap Lines = {}
  /\ NoField \notin Values
  /\ DOMAIN TitleOf = Titles /\ "" \notin {TitleOf[t] : t \in Titles}
  /\ DOMAIN Capability = {"trigger", "workflow", "verification", "failure"}

-----------------------------------------------------------------------------
\* skill-markdown

\* makeSection: blank lines at both ends are dropped.
Trimmed(lines) ==
  LET solid == {i \in DOMAIN lines : lines[i] # Blank} IN
  IF solid = {} THEN << >>
  ELSE SubSeq(lines, CHOOSE i \in solid : \A j \in solid : i <= j,
                     CHOOSE i \in solid : \A j \in solid : i >= j)

\* splitSections: one section for each heading, and one without a title for
\* what stands before the first, unless that is blank.
Sections(text) ==
  LET start[i \in 0..Len(text)] ==       \* the headings among the first i lines
        IF i = 0 THEN << >>
        ELSE IF text[i] \in Titles THEN Append(start[i - 1], i) ELSE start[i - 1]
      heads == start[Len(text)]
      ends  == Append(heads, Len(text) + 1)
      preamble == Trimmed(SubSeq(text, 1, ends[1] - 1))
  IN (IF preamble = << >> THEN << >> ELSE <<[title |-> "", body |-> preamble]>>)
     \o [k \in DOMAIN heads |->
          [title |-> TitleOf[text[heads[k]]],
           body  |-> Trimmed(SubSeq(text, heads[k] + 1, ends[k + 1] - 1))]]

\* findSectionByAliases: the first section with one of the titles.
Found(sections, aliases) ==
  LET hits == {k \in DOMAIN sections : sections[k].title \in aliases} IN
  IF hits = {} THEN {} ELSE {sections[CHOOSE k \in hits : \A j \in hits : k <= j]}

\* The warnings of validateSkillDocument that depend on the sections.
SectionWarnings(sections) ==
  LET of(name)  == Found(sections, Capability[name])
      filled(name) == \E s \in of(name) : s.body # << >>
  IN
  {w \in {"TRIGGER_MISSING"} : ~filled("trigger")}
  \cup {w \in {"WORKFLOW_MISSING"} : ~filled("workflow")}
  \cup {w \in {"STEPS_MISSING"} : \E s \in of("workflow") :
          s.body # << >> /\ \A i \in DOMAIN s.body : s.body[i] \notin Steps}
  \cup {w \in {"VERIFICATION_MISSING"} : of("verification") = {}}
  \cup {w \in {"FAILURE_HANDLING_MISSING"} : of("failure") = {}}

-----------------------------------------------------------------------------
\* skill-diff

\* new Map(sections by title): the last of several wins.
Mapped(sections) ==
  [t \in {sections[k].title : k \in DOMAIN sections} |->
     SelectLastInSeq(sections, LAMBDA s : s.title = t)]

\* Mutant of Compared: only what the old version has is looked at.
ComparedOfOld(before, after) == DOMAIN before

\* The union of what both versions have.
Compared(before, after) == DOMAIN before \cup DOMAIN after

Changes(kind, before, after) ==
  LET both    == DOMAIN before \cap DOMAIN after
      entry(change, t, b, a) ==
        [kind |-> kind, change |-> change, target |-> t, before |-> b, after |-> a]
  IN {entry("removed", t, before[t], << >>) : t \in Compared(before, after) \ DOMAIN after}
     \cup {entry("added", t, << >>, after[t]) : t \in Compared(before, after) \ DOMAIN before}
     \cup {entry("modified", t, before[t], after[t]) : t \in {u \in both : before[u] # after[u]}}

\* scalarFields
ScalarFields(doc) == [f \in {g \in Fields : doc.fields[g] # NoField} |-> doc.fields[f]]

\* The text of each title.
BodyOf(text) ==
  LET sections == Sections(text) IN
  [t \in DOMAIN Mapped(sections) |-> sections[Mapped(sections)[t]].body]

\* diffSkillMarkdown
Diff(from, to) ==
  Changes("field", ScalarFields(from), ScalarFields(to))
  \cup Changes("section", BodyOf(from.text), BodyOf(to.text))

\* The lines of a body; an empty one has one blank line.
LinesOf(body) == IF body = << >> THEN <<Blank>> ELSE body

Places(before, after) == (1..(Len(before) + 1)) \X (1..(Len(after) + 1))

\* diffLines, the table: how much the ends of both bodies have in common.
Common(before, after) ==
  LET table[p \in Places(before, after)] ==
        LET i == p[1]
            j == p[2]
        IN IF i > Len(before) \/ j > Len(after) THEN 0
           ELSE IF before[i] = after[j] THEN table[<<i + 1, j + 1>>] + 1
           ELSE IF table[<<i + 1, j>>] >= table[<<i, j + 1>>]
             THEN table[<<i + 1, j>>] ELSE table[<<i, j + 1>>]
  IN table

\* In which body the walk goes on when the lines at hand differ.
Advance(table, i, j) ==
  IF table[<<i + 1, j>>] >= table[<<i, j + 1>>] THEN "before" ELSE "after"

\* diffLines, the walk: the lines it shows as removed and added from each
\* place on.
Walk(before, after) ==
  LET table == Common(before, after)
      walk[p \in Places(before, after)] ==
        LET i == p[1]
            j == p[2]
        IN IF i > Len(before) \/ j > Len(after)
             THEN [removed |-> i..Len(before), added |-> j..Len(after)]
           ELSE IF before[i] = after[j] THEN walk[<<i + 1, j + 1>>]
           ELSE IF Advance(table, i, j) = "before"
             THEN [removed |-> walk[<<i + 1, j>>].removed \cup {i},
                   added   |-> walk[<<i + 1, j>>].added]
           ELSE [removed |-> walk[<<i, j + 1>>].removed,
                 added   |-> walk[<<i, j + 1>>].added \cup {j}]
  IN walk

DiffLines(before, after) == Walk(before, after)[<<1, 1>>]

-----------------------------------------------------------------------------
Texts == UNION {[1..n -> Titles \cup Lines] : n \in 0..MaxText}

Distinct(sections) ==
  \A j, k \in DOMAIN sections : sections[j].title = sections[k].title => j = k

\* What a version becomes when the entries of a diff are applied to it.
Patched(kind, before, entries) ==
  LET mine == {e \in entries : e.kind = kind}
      gone == {e.target : e \in {f \in mine : f.change = "removed"}}
      new  == {e \in mine : e.change # "removed"}
  IN [t \in (DOMAIN before \ gone) \cup {e.target : e \in new} |->
        IF \E e \in new : e.target = t THEN (CHOOSE e \in new : e.target = t).after
                                       ELSE before[t]]

\* The diff a reviewer reads tells all: applied to the old version it gives
\* the fields and sections of the new one.  So if it is empty, and no title
\* occurs twice, both versions have the same sections; and if besides no
\* capability has two of them, the quality report warns of the same things.
\* With a title that occurs twice this fails: see the README.
DiffTellsAll ==
  LET sectionsOf == [t \in Texts |-> Sections(t)]
      bodiesOf   == [t \in Texts |-> BodyOf(t)]
      single(sections) == \A c \in DOMAIN Capability :
        \A j, k \in DOMAIN sections :
          {sections[j].title, sections[k].title} \subseteq Capability[c] => j = k
      plain == {t \in Texts : Distinct(sectionsOf[t])}
  IN
  /\ \A t, u \in Texts :
       Patched("section", bodiesOf[t], Changes("section", bodiesOf[t], bodiesOf[u])) = bodiesOf[u]
  /\ \A t, u \in plain : bodiesOf[t] = bodiesOf[u] =>
       /\ ToSet(sectionsOf[t]) = ToSet(sectionsOf[u])
       /\ single(sectionsOf[t]) =>
            SectionWarnings(sectionsOf[t]) = SectionWarnings(sectionsOf[u])
  /\ \A f, g \in [Fields -> Values \cup {NoField}] :
       LET from == [fields |-> f, text |-> << >>]
           to   == [fields |-> g, text |-> << >>]
       IN Patched("field", ScalarFields(from), Diff(from, to)) = ScalarFields(to)

\* The lines of before at p are those of after at q, in the same order.
SameLines(before, after, p, q) ==
  \E f \in Bijection(p, q) :
    /\ \A i \in p : before[i] = after[f[i]]
    /\ \A i, j \in p : i < j => f[i] < f[j]

\* The lines shown as removed and added are exact and as few as can be: the
\* others are the same lines in both bodies, and no larger choice is.
LineDiffIsMinimal ==
  LET bodies == {LinesOf(body) : body \in UNION {[1..n -> Lines] : n \in 0..MaxBody}} IN
  \A before, after \in bodies :
    LET d == DiffLines(before, after)
        keptBefore == DOMAIN before \ d.removed
        keptAfter  == DOMAIN after \ d.added
    IN
    /\ SameLines(before, after, keptBefore, keptAfter)
    /\ \A p \in SUBSET DOMAIN before, q \in SUBSET DOMAIN after :
         SameLines(before, after, p, q) => Cardinality(p) <= Cardinality(keptBefore)

\* Both together: what a reviewer is shown of a change is what was changed.
DiffIsExact == DiffTellsAll /\ LineDiffIsMinimal

=============================================================================
