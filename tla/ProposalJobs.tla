---------------------------- MODULE ProposalJobs ----------------------------
(***************************************************************************)
(* Proposal jobs (ProposalService.runMemoryProposal): evidence is selected *)
(* and numbered, the model is asked for candidates, and what it answers is *)
(* filtered into drafts.  The model call takes long; captures, deletions,  *)
(* reviews and other jobs go on meanwhile.                                 *)
(*                                                                         *)
(* Jobs are model calls of LlmCall, memories and evidence are those of     *)
(* MemoryGovernance.  A job reads the content and status of memories and   *)
(* whether evidence exists, so of that module the actions are taken that   *)
(* change these; feedback, sweeps, rules and renewals move statuses along  *)
(* transitions a review can make too.                                      *)
(***************************************************************************)
EXTENDS MemoryGovernance, LlmCall, Functions, Sequences

CONSTANTS
  MaxCandidates    \* bound on the candidates of one answer

ASSUME ProposalAssumption == MaxCandidates \in Nat

VARIABLES
  job    \* job[j]: the scope of the request and the evidence it selected

jobVars == <<vars, llmVars, job>>

Jobs     == Calls
NoJob    == [scope |-> "none", selected |-> {}]
JobState == [scope : Scopes, selected : SUBSET EvidenceIds]

\* What the model proposes: a content, the references it gives and whether
\* validateMemoryCandidate accepts it.  A reference is the evidence its
\* number leads to; evidence that was not selected stands for a number that
\* leads nowhere.
Candidate  == [content : Contents, refs : SUBSET EvidenceIds, valid : BOOLEAN]
Candidates == UNION {[1..n -> Candidate] : n \in 0..MaxCandidates}

JobTypeOK ==
  /\ TypeOK
  /\ LlmTypeOK
  /\ job \in [Jobs -> JobState \cup {NoJob}]

JobInit ==
  /\ Init
  /\ LlmInit
  /\ job = [j \in Jobs |-> NoJob]

\* selectEvidence: explicit ids, all of them there, or the latest ones.
Selectable(s, selected) == \A e \in selected : LiveIn(e, s)

\* Without evidence the report is empty and the model is not asked.
StartJob(j, s, selected) ==
  /\ selected # {} /\ Selectable(s, selected)
  /\ Begin(j)
  /\ job' = [job EXCEPT ![j] = [scope |-> s, selected |-> selected]]
  /\ UNCHANGED vars

\* The contents a candidate must not repeat.
Seen(s) ==
  {memory[m].content : m \in {n \in MemoriesOf(s) : status[n] \in {"draft", "verified"}}}

\* resolveEvidenceIds
Sources(j, candidate) == candidate.refs \cap job[j].selected

\* Mutant of Acceptable: the selected evidence is taken to exist still.
AcceptableAsSelected(j, candidate, taken) ==
  /\ candidate.valid
  /\ Sources(j, candidate) # {}
  /\ candidate.content \notin Seen(job[j].scope) \cup taken

\* Mutant of Acceptable: the batch is not compared with itself.
AcceptableInBatch(j, candidate, taken) ==
  /\ candidate.valid
  /\ Sources(j, candidate) # {}
  /\ candidate.content \notin Seen(job[j].scope)
  /\ \A e \in Sources(j, candidate) : LiveIn(e, job[j].scope)

\* A candidate becomes a draft when it is valid, cites evidence of the job,
\* repeats nothing, and memory.propose still finds every source.
Acceptable(j, candidate, taken) ==
  /\ candidate.valid
  /\ Sources(j, candidate) # {}
  /\ candidate.content \notin Seen(job[j].scope) \cup taken
  /\ \A e \in Sources(j, candidate) : LiveIn(e, job[j].scope)

\* One round of the loop over the candidates.  A candidate that is rejected
\* leaves the others alone.
Extended(j, before, candidate) ==
  IF Acceptable(j, candidate, {before[k].content : k \in DOMAIN before})
    THEN Append(before, [scope   |-> job[j].scope,
                         sources |-> Sources(j, candidate),
                         content |-> candidate.content,
                         fit     |-> TRUE])
    ELSE before

\* The drafts that the first i candidates become, in order.
DraftsUpTo(j, candidates) ==
  LET made[i \in 0..Len(candidates)] ==
        IF i = 0 THEN << >> ELSE Extended(j, made[i - 1], candidates[i])
  IN made

Drafts(j, candidates) == DraftsUpTo(j, candidates)[Len(candidates)]

\* The drafts are stored under fresh ids.
Store(drafts, id) ==
  LET new == Range(id) IN
  /\ memory' = [m \in MemoryIds |->
       IF m \in new THEN drafts[CHOOSE i \in DOMAIN id : id[i] = m] ELSE memory[m]]
  /\ links'  = links \cup UNION {{id[i]} \X drafts[i].sources : i \in DOMAIN id}
  /\ status' = [m \in MemoryIds |-> IF m \in new THEN "draft" ELSE status[m]]
  /\ updatedAt' = [m \in MemoryIds |-> IF m \in new THEN now ELSE updatedAt[m]]
  /\ UNCHANGED <<evidence, captured, verifiedBy, validUntil, disputed, now>>

FreshIds(n) ==
  {id \in [1..n -> {m \in MemoryIds : ~Exists(m)}] : IsInjective(id)}

\* The model answers and the rest of the job runs without waiting again.
\* Answers that need more fresh ids than the instance has are cut off.
FinishJob(j) ==
  /\ Answer(j)
  /\ \E drafts \in {Drafts(j, candidates) : candidates \in Candidates} :
       \E id \in FreshIds(Len(drafts)) : Store(drafts, id)
  /\ job' = [job EXCEPT ![j] = NoJob]

\* The call makes a step that is not its answer; a failure ends the job.
Within(j) ==
  /\ job' = [job EXCEPT ![j] = IF At(j, "failed")' THEN NoJob ELSE @]
  /\ UNCHANGED vars

CallStep(j) == Progress(j) /\ Within(j)

\* Requests served while a job waits.
Governance ==
  /\ \/ \E e \in EvidenceIds, row \in Evidence : Capture(e, row)
     \/ \E m \in MemoryIds, p \in Proposal :
          p.fit /\ Propose(m, p, NoExpiry)
     \/ \E m \in MemoryIds, target \in Statuses : Transition(m, target)
     \/ \E e \in EvidenceIds, s \in Scopes : DeleteEvidence(e, s)
  /\ UNCHANGED <<llmVars, job>>

JobNext ==
  \/ Governance
  \/ \E j \in Jobs :
       \/ \E s \in Scopes, selected \in SUBSET EvidenceIds : StartJob(j, s, selected)
       \/ FinishJob(j)
       \/ CallStep(j)

JobSpec == JobInit /\ [][JobNext]_jobVars

\* Timers fire, an aborted request ends, a pause ends.
JobFairSpec ==
  /\ JobSpec
  /\ \A j \in Jobs :
       /\ WF_jobVars(Expire(j) /\ Within(j))
       /\ WF_jobVars((FailAborted(j) /\ Within(j)) \/ (Aborted(j) /\ FinishJob(j)))
       /\ WF_jobVars(Resume(j) /\ Within(j))

-----------------------------------------------------------------------------
\* A draft a job creates repeats no draft or verified memory of its scope:
\* not one that appeared while the model was working, not one of a job that
\* ran at the same time, not one of the same answer.
NewDraftsAreNew ==
  [][\A j \in Jobs, m \in MemoryIds :
       (At(j, "calling") /\ At(j, "answered")' /\ ~Exists(m) /\ Exists(m)') =>
         \A n \in MemoryIds \ {m} :
           (/\ Exists(n)' /\ status'[n] \in {"draft", "verified"}
            /\ memory'[n].scope = memory'[m].scope)
             => memory'[n].content # memory'[m].content]_jobVars

\* Every job ends: with an answer, or with an error once its attempts are
\* used up, whatever the model service does.
JobsEnd ==
  \A j \in Jobs : At(j, "calling") ~> (At(j, "answered") \/ At(j, "failed"))

=============================================================================
