---------------------------- MODULE RecallBudget ----------------------------
(***************************************************************************)
(* From the documents a recall has read to its answer: scores of the two   *)
(* channels are fused, hits are ranked, counted and cut to their budgets,  *)
(* and warnings say what is missing.  POST /v1/recall has a loop of its    *)
(* own for the same purpose.                                               *)
(*                                                                         *)
(* A document is its lexical score (times its confidence), the cosine the  *)
(* index returned for it, and the length of its content.  Scores are whole *)
(* numbers; 0 stands for no match, and for a cosine below the threshold.   *)
(***************************************************************************)
EXTENDS Integers, SequencesExt

CONSTANTS
  LexicalWeight, VectorWeight,
  Headroom,                      \* RESULT_HEADROOM
  MaxDocuments, MaxScore, MaxLength, MaxResults, MaxChars    \* bounds

ASSUME BudgetAssumption ==
  /\ {LexicalWeight, VectorWeight, MaxScore, MaxLength, MaxResults, MaxChars} \subseteq Nat \ {0}
  /\ Headroom \in Nat /\ Headroom > 1

Document == [lexical : 0..MaxScore, cosine : 0..MaxScore, length : 1..MaxLength]

\* The documents with a score.
Hits(scores) == {i \in DOMAIN scores : scores[i] > 0}

\* Higher scores come first; equal scores keep the order of the documents.
Ahead(scores, i, j) == scores[i] > scores[j] \/ (scores[i] = scores[j] /\ i < j)

\* The place of a hit: it counts itself and the hits ahead of it.
Place(scores, i) == Cardinality({j \in Hits(scores) : ~Ahead(scores, i, j)})

\* The hits, best first.
Sorted(scores) ==
  [p \in 1..Cardinality(Hits(scores)) |-> CHOOSE i \in Hits(scores) : Place(scores, i) = p]

First(n, seq) == SubSeq(seq, 1, IF n < Len(seq) THEN n ELSE Len(seq))

-----------------------------------------------------------------------------
\* HybridRetriever.rank and rankLexical.

LexicalScores(docs) == [i \in DOMAIN docs |-> docs[i].lexical]

\* Mutant of Fused: a channel that is not active counts as zero.
FusedOverAll(d) == LexicalWeight * d.lexical + VectorWeight * d.cosine

\* The mean of the active channels, times the sum of the weights.
Fused(d) ==
  IF d.lexical > 0 /\ d.cosine > 0 THEN LexicalWeight * d.lexical + VectorWeight * d.cosine
  ELSE (LexicalWeight + VectorWeight) * (IF d.lexical > 0 THEN d.lexical ELSE d.cosine)

\* Without a vector above the threshold, or when the vector channel fails,
\* the order is the lexical one.
Ranking(docs, degraded) ==
  IF degraded \/ \A i \in DOMAIN docs : docs[i].cosine = 0
    THEN Sorted(LexicalScores(docs))
    ELSE Sorted([i \in DOMAIN docs |-> Fused(docs[i])])

-----------------------------------------------------------------------------
\* ContextService.recallInternal, the part of one kind.

\* No room for another hit.
Full(used, maxChars) == used >= maxChars

\* The loop over the best hits: what is given of each.
Filled(docs, top, maxChars) ==
  LET room(used, i) == IF docs[i].length > maxChars - used THEN maxChars - used ELSE docs[i].length
      fill[k \in 0..Len(top)] ==
        IF k = 0 THEN [given |-> << >>, used |-> 0]
        ELSE LET before == fill[k - 1] IN
          IF Full(before.used, maxChars) THEN before
          ELSE [given |-> Append(before.given,
                            [doc |-> top[k], length |-> room(before.used, top[k])]),
                used  |-> before.used + room(before.used, top[k])]
  IN fill[Len(top)]

\* limited: memories are ranked up to a limit, skills without one.
Answer(docs, degraded, limited, maxResults, maxChars) ==
  LET all    == Ranking(docs, degraded)
      ranked == IF limited THEN First(maxResults * Headroom, all) ELSE all
      top    == First(maxResults, ranked)
      filled == Filled(docs, top, maxChars)
  IN [given     |-> filled.given,
      used      |-> filled.used,
      truncated |-> \E k \in DOMAIN filled.given :
                      filled.given[k].length < docs[filled.given[k].doc].length,
      dropped   |-> Len(ranked) - Len(top)]

\* The warnings of one kind: *_BUDGET_TRUNCATED and *_RESULTS_DROPPED.
Warnings(answer) ==
  {w \in {"TRUNCATED"} : answer.truncated} \cup {w \in {"DROPPED"} : answer.dropped > 0}

-----------------------------------------------------------------------------
\* MemoryService.recall with recallRanked, the older route.
PlainRecall(docs, maxResults, maxChars) ==
  LET ranked == First(maxResults, Sorted(LexicalScores(docs)))
      loop[k \in 0..Len(ranked)] ==
        IF k = 0 THEN [output |-> << >>, remaining |-> maxChars]
        ELSE LET before == loop[k - 1]
                 length == docs[ranked[k]].length
                 size   == IF length > before.remaining THEN before.remaining ELSE length
             IN IF before.remaining <= 0 THEN before
                ELSE [output    |-> Append(before.output, [doc |-> ranked[k], length |-> size]),
                      remaining |-> before.remaining - size]
  IN loop[Len(ranked)].output

-----------------------------------------------------------------------------
DocumentLists == UNION {[1..n -> Document] : n \in 1..MaxDocuments}

\* The answer is a prefix of the ranking within both budgets, only its last
\* hit may be cut, and its warnings tell what is missing - but for one case:
\* when whole hits fill the characters exactly, the next ones are left out
\* without a word.
Truthful(docs, degraded, limited, n, c) ==
  LET a    == Answer(docs, degraded, limited, n, c)
      all  == Ranking(docs, degraded)
      last == Len(a.given)
      whole(k) == a.given[k].length = docs[a.given[k].doc].length
  IN
  /\ last <= n /\ a.used <= c
  /\ [k \in 1..last |-> a.given[k].doc] = First(last, all)
  /\ \A k \in 1..last : a.given[k].length > 0 /\ (k < last => whole(k))
  /\ "DROPPED" \in Warnings(a) <=> Len(all) > n
  /\ "TRUNCATED" \in Warnings(a) <=> \E k \in 1..last : ~whole(k)
  /\ Warnings(a) = {} => last = Len(all) \/ a.used = c
  /\ last < Len(First(n, all)) => a.used = c

\* So it is for all documents, limits and budgets, with and without vectors.
BudgetTruthful ==
  \A docs \in DocumentLists, degraded, limited \in BOOLEAN,
     n \in 1..MaxResults, c \in 1..MaxChars : Truthful(docs, degraded, limited, n, c)

\* Vectors add hits and reorder them, no more: documents they do not reach
\* keep their order, and one that has no vector yet is not put behind another
\* whose scores are both smaller than its own.
Reorders(docs, fused, lexical) ==
  LET plain == {i \in DOMAIN docs : docs[i].cosine = 0}
      place(ranking, i) == CHOOSE p \in DOMAIN ranking : ranking[p] = i
  IN
  /\ ToSet(lexical) \subseteq ToSet(fused)
  /\ plain \cap ToSet(fused) \subseteq ToSet(lexical)
  /\ \A i, j \in plain \cap ToSet(lexical) :
       place(fused, i) < place(fused, j) <=> place(lexical, i) < place(lexical, j)
  /\ \A i \in plain \cap ToSet(fused), j \in ToSet(fused) :
       docs[i].lexical > docs[j].lexical /\ docs[i].lexical > docs[j].cosine
         => place(fused, i) < place(fused, j)

\* So it is for all documents; and without vectors the answer is the lexical
\* one, and that of the older route.
VectorsOnlyReorder ==
  \A docs \in DocumentLists :
    /\ Reorders(docs, Ranking(docs, FALSE), Ranking(docs, TRUE))
    /\ \A n \in 1..MaxResults, c \in 1..MaxChars :
         PlainRecall(docs, n, c) = Answer(docs, TRUE, TRUE, n, c).given

\* Both together: the answer is the ranking as far as its budgets reach.
AnswerTruthful == BudgetTruthful /\ VectorsOnlyReorder

=============================================================================
