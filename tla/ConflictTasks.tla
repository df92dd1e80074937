---------------------------- MODULE ConflictTasks ----------------------------
(***************************************************************************)
(* ConflictService.listTasks: a report over the verified assets of a scope *)
(* that names every pair which says the same, or seems to contradict each  *)
(* other.  It changes nothing and is computed anew on every request.       *)
(***************************************************************************)
EXTENDS TextMatch

CONSTANT MinContainment      \* MIN_CONTAINMENT_LENGTH

\* normalizeForDedup
Normalized(string) == SelectSeq(string, LAMBDA c : c # " ")

\* CONFLICT_OVERLAP_THRESHOLD = 0.6 of the terms of the smaller set.
Overlaps(a, b) ==
  /\ a # {} /\ b # {}
  /\ 5 * Cardinality(a \cap b) >= 3 * Smaller(Cardinality(a), Cardinality(b))

Contained(short, long) ==
  Len(short) <= Len(long) /\ Len(short) >= MinContainment /\ Includes(long, short)

Classify(left, right) ==
  LET l == Normalized(left)
      r == Normalized(right)
  IN IF l = r \/ Contained(l, r) \/ Contained(r, l) THEN "duplicate"
     ELSE IF Overlaps(RetrievalTerms(left), RetrievalTerms(right)) THEN "conflict"
     ELSE "none"

\* detectPairTasks and buildTask: pairs in the order of the listing, named
\* by their kind and the ids of both in an order of their own.
Tasks(listing) ==
  LET pairs   == {p \in (DOMAIN listing) \X (DOMAIN listing) : p[1] < p[2]}
      task(p) == [kind     |-> Classify(listing[p[1]].text, listing[p[2]].text),
                  assetIds |-> {listing[p[1]].id, listing[p[2]].id}]
  IN {t \in {task(p) : p \in pairs} : t.kind # "none"}

-----------------------------------------------------------------------------
\* The report does not depend on the order in which the assets are listed,
\* which every write changes.  A pair that is said to contradict each other
\* differs and can be recalled together, which is what the task warns of:
\* the query for a term both have returns both - but for a single CJK
\* character, which no query finds.
TasksTruthful ==
  \A left, right \in TextsUpTo(MaxQuery) :
    LET a == [id |-> 1, text |-> left]
        b == [id |-> 2, text |-> right]
        shared == RetrievalTerms(left) \cap RetrievalTerms(right)
        both(t) == HasLexicalMatch(t, left) /\ HasLexicalMatch(t, right)
    IN
    /\ Tasks(<<a, b>>) = Tasks(<<b, a>>)
    /\ Classify(left, right) = "conflict" =>
         /\ shared # {}
         /\ \A t \in shared : both(t) \/ (IsCjk(t) /\ Len(t) = 1)

=============================================================================
