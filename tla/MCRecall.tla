------------------------------ MODULE MCRecall ------------------------------
(***************************************************************************)
(* An instance of ContextRecall for TLC, with the ranking and the budgets  *)
(* of its answers, and the matching of texts.                              *)
(***************************************************************************)
EXTENDS ContextRecall, RecallBudget, ConflictTasks

\* An answer that goes out (ContextService.recall) is the ranking of what was
\* read as far as its budgets reach, and its warnings say where they end.
AnswersGivenAreTruthful == (\E r \in Recalls : recall[r].kind = "done") => AnswerTruthful

\* What matched for an answer (lexicalScore) is what the query asks for, and
\* the pairs that ConflictService reports are those an answer may hold.
AnswersMatchTheirQuery ==
  (\E r \in Recalls : recall[r].kind = "done") => SearchTruthful /\ TasksTruthful

=============================================================================
