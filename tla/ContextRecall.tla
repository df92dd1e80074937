--------------------------- MODULE ContextRecall ---------------------------
(***************************************************************************)
(* Recall (ContextService.recall with the HybridRetriever) running beside  *)
(* governance and the index synchronisations of EmbeddingSync.             *)
(*                                                                         *)
(* A recall reads the recallable memories, waits for the embedding of its  *)
(* query, looks the index up and fuses what it finds with the lexical      *)
(* hits; then it does the same for skills.  Reviewers move assets and      *)
(* synchronisations rewrite rows while it waits.  There is one query:      *)
(* which texts it hits lexically and which are near it are constants, and  *)
(* scores only matter by being above their threshold.  The order of the    *)
(* hits and the cut to the budgets are the subject of RecallBudget.        *)
(* A query embedding that is cached makes the wait shorter, never the      *)
(* answer different; waiting every time allows more interleavings.         *)
(***************************************************************************)
EXTENDS EmbeddingSync

CONSTANTS
  Recalls,          \* requests that can be recalling at a time
  LexicalTexts,     \* texts with a lexical score, weighted by confidence, > 0
  NearTexts         \* texts with cosine >= minVectorCosine

ASSUME RecallAssumption ==
  /\ LexicalTexts \subseteq Texts
  /\ NearTexts \subseteq Texts

VARIABLES
  recall,    \* the recall each request is running, or has answered
  visible    \* history: the texts each asset was recallable with since the
             \*          request began, NoText if it was not recallable

recallVars == <<recall, visible>>
allVars == <<vars, recallVars>>

\* docs: the list read for the kind at hand; answer: what was ranked so far.
NoRecall == [kind |-> "none", drafts |-> FALSE, docs |-> Nothing, answer |-> Nothing]
RecallState == [kind : {"none", "memory", "skill", "done"}, drafts : BOOLEAN,
                docs : [Assets -> OptText], answer : [Assets -> OptText]]

RecallTypeOK ==
  /\ TypeOK
  /\ recall  \in [Recalls -> RecallState]
  /\ visible \in [Recalls -> [Assets -> SUBSET OptText]]

RecallInit ==
  /\ Init
  /\ recall  = [r \in Recalls |-> NoRecall]
  /\ visible = [r \in Recalls |-> [a \in Assets |-> {}]]

Asking(r) == recall[r].kind \in {"memory", "skill"}

\* listRecallable of one kind, without the texts of the other.
DocsOf(kind, drafts) ==
  [a \in Assets |-> IF a \in OfKind(kind) THEN Listing(drafts)[a] ELSE NoText]

\* POST /v1/context/recall: the memories are read at once.
Ask(r, drafts) ==
  /\ ~Asking(r)
  /\ recall'  = [recall EXCEPT ![r] =
       [kind |-> "memory", drafts |-> drafts,
        docs |-> DocsOf("memory", drafts), answer |-> Nothing]]
  /\ visible' = [visible EXCEPT ![r] =
       [a \in Assets |-> {Listing(drafts)[a]}]]
  /\ UNCHANGED vars

\* VectorIndex.search: rows of the kind that are near the query, those of
\* assets no longer governed among them.  The candidate limit may cut any of
\* them off, and a failed embedding or search yields none.
Matches(kind) == SUBSET {a \in OfKind(kind) : index[a] \in NearTexts}

\* rankLexical: lexicalScore times the confidence of the memory (1 for a skill) is
\* positive, for the query at hand.  A memory keeps its content and confidence, so
\* the text of one without confidence is a text without score, whatever it says.
\* What has no text has no score.
Scores(t) == t \in LexicalTexts

\* Mutant of Candidates: the index decides, its text stands for the asset's.
CandidatesOfIndex(docs, matches) ==
  [a \in Assets |-> IF a \in matches THEN index[a]
                    ELSE IF Scores(docs[a]) THEN docs[a] ELSE NoText]

\* Mutant of Candidates: only assets that have a row are ranked.
CandidatesIndexed(docs, matches) ==
  [a \in Assets |-> IF Scores(docs[a]) /\ index[a] # NoText
                      THEN docs[a] ELSE NoText]

\* HybridRetriever.rank: documents with a lexical or an active vector score.
\* No matches means no active vector channel, failed or not.
Candidates(docs, matches) ==
  [a \in Assets |-> IF Scores(docs[a]) \/ (docs[a] # NoText /\ a \in matches)
                      THEN docs[a] ELSE NoText]

\* The memories are ranked; the skills are read now.
AfterMemories(r, found) ==
  [kind |-> "skill", drafts |-> recall[r].drafts,
   docs |-> DocsOf("skill", recall[r].drafts), answer |-> found]

\* The query embedding is there or has failed: this kind is ranked.
Rank(r) ==
  LET kind == recall[r].kind IN
  /\ Asking(r)
  /\ \E matches \in Matches(kind) :
       LET hits  == Candidates(recall[r].docs, matches)
           found == [a \in Assets |-> IF a \in OfKind(kind) THEN hits[a]
                                                 ELSE recall[r].answer[a]]
       IN recall' = [recall EXCEPT ![r] =
            IF kind = "memory" THEN AfterMemories(r, found)
            ELSE [@ EXCEPT !.kind = "done", !.docs = Nothing, !.answer = found]]
  /\ UNCHANGED <<vars, visible>>

\* The client is done with the answer.
Forget(r) ==
  /\ recall[r].kind = "done"
  /\ recall'  = [recall EXCEPT ![r] = NoRecall]
  /\ visible' = [visible EXCEPT ![r] = [a \in Assets |-> {}]]
  /\ UNCHANGED vars

\* Governance and synchronisations go on; the history notes what is recallable.
Meanwhile ==
  /\ Next
  /\ UNCHANGED recall
  /\ visible' = [r \in Recalls |-> [a \in Assets |->
       IF Asking(r) THEN visible[r][a] \cup {Listing(recall[r].drafts)'[a]}
                    ELSE visible[r][a]]]

RecallNext ==
  \/ Meanwhile
  \/ \E r \in Recalls :
       \/ \E drafts \in BOOLEAN : Ask(r, drafts)
       \/ Rank(r) \/ Forget(r)

RecallSpec == RecallInit /\ [][RecallNext]_allVars

-----------------------------------------------------------------------------
\* What a recall returns was recallable, with the text it returns, at some
\* moment of the request: rows the index still holds of withdrawn, expired or
\* rewritten assets never bring them back (docs/retrieval.md).
AnswersWereRecallable ==
  \A r \in Recalls, a \in Assets :
    recall[r].answer[a] # NoText => recall[r].answer[a] \in visible[r][a]

\* An asset that is recallable with one and the same text, matching lexically (and
\* not of a confidence of 0), through the whole request is in the answer, whether
\* the embedding worked, failed or was cut by the candidate limit: the vector
\* channel takes no hit away (docs/retrieval.md).
StableHitsFound ==
  \A r \in Recalls, a \in Assets, t \in LexicalTexts :
    (recall[r].kind = "done" /\ visible[r][a] = {t}) => recall[r].answer[a] = t

=============================================================================
