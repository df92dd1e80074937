----------------------- MODULE MemoryGovernance_proof -----------------------
(***************************************************************************)
(* Proofs about MemoryGovernance for every set of ids, scopes and roles,   *)
(* every rule configuration and every bound on the clock; and about the    *)
(* proposal jobs beside it, for every number of jobs, retries and          *)
(* candidates.                                                             *)
(***************************************************************************)
EXTENDS ProposalJobs, Induction

\* WriteStatus, the one writer of the governance fields, keeps their types.
LEMMA WriteStatusType ==
  ASSUME TypeOK, NEW S, NEW target \in Statuses, NEW by \in {"auto", "manual"},
         WriteStatus(S, target, by)
  PROVE  /\ status'     \in [MemoryIds -> Statuses \cup {"absent"}]
         /\ verifiedBy' \in [MemoryIds -> {"none", "auto", "manual"}]
         /\ updatedAt'  \in [MemoryIds -> Times]
  BY DEF TypeOK, WriteStatus

\* A step of the service keeps every type.
LEMMA TypeStep == TypeOK /\ [Next]_vars => TypeOK'
<1> SUFFICES ASSUME TypeOK, [Next]_vars PROVE TypeOK'
  OBVIOUS
<1>1. ASSUME NEW e \in EvidenceIds, NEW row \in Evidence, Capture(e, row)
      PROVE  TypeOK'
  BY <1>1 DEF TypeOK, Capture, governance
<1>2. ASSUME NEW m \in MemoryIds, NEW p \in Proposal,
             NEW until \in Times \cup {NoExpiry}, Propose(m, p, until)
      PROVE  TypeOK'
  BY <1>2 DEF TypeOK, Propose, InsertMemory, Proposal, Statuses
<1>3. ASSUME NEW m \in MemoryIds, NEW target \in Statuses,
             Transition(m, target)
      PROVE  TypeOK'
  BY <1>3, WriteStatusType DEF TypeOK, Transition
<1>4. ASSUME NEW m \in MemoryIds, NEW until \in Times \cup {NoExpiry},
             NEW finished \in BOOLEAN, RenewMemory(m, until, finished)
      PROVE  TypeOK'
  <2>1. CASE WriteStatus({m}, "verified", "manual")
    BY <1>4, <2>1, WriteStatusType DEF TypeOK, RenewMemory, Statuses
  <2>2. CASE /\ updatedAt' = [updatedAt EXCEPT ![m] = now]
             /\ UNCHANGED <<status, verifiedBy>>
    BY <1>4, <2>2 DEF TypeOK, RenewMemory
  <2> QED BY <1>4, <2>1, <2>2 DEF RenewMemory
<1>5. ASSUME NEW S, AutoVerify(S)
      PROVE  TypeOK'
  BY <1>5, WriteStatusType DEF TypeOK, AutoVerify, Statuses
<1>6. ASSUME NEW m \in MemoryIds, NegativeFeedback(m)
      PROVE  TypeOK'
  <2>1. CASE WriteStatus({m}, "deprecated", "manual")
    BY <1>6, <2>1, WriteStatusType DEF TypeOK, NegativeFeedback, Statuses
  <2>2. CASE UNCHANGED <<status, verifiedBy, updatedAt>>
    BY <1>6, <2>2 DEF TypeOK, NegativeFeedback
  <2> QED BY <1>6, <2>1, <2>2 DEF NegativeFeedback
<1>7. ASSUME NEW e \in EvidenceIds, NEW s \in Scopes, DeleteEvidence(e, s)
      PROVE  TypeOK'
  BY <1>7, WriteStatusType DEF TypeOK, DeleteEvidence, Statuses
<1>8. ASSUME NEW s \in Scopes, NEW done \in SUBSET MemoryIds,
             DeprecateExpired(s, done) \/ ArchiveStaleDrafts(s, done)
      PROVE  TypeOK'
  BY <1>8, WriteStatusType
     DEF TypeOK, DeprecateExpired, ArchiveStaleDrafts, Statuses
<1>9. CASE Tick
  BY <1>9, MemoryAssumption DEF TypeOK, Tick, governance, Times
<1>10. CASE UNCHANGED vars
  BY <1>10 DEF TypeOK, vars, governance
<1> QED
  BY <1>1, <1>2, <1>3, <1>4, <1>5, <1>6, <1>7, <1>8, <1>9, <1>10
     DEF Next, Review, Rules, VerifyCreated, EvaluateDrafts, Sweeps

\* Every variable keeps its type: no handler leaves a governance field
\* outside its domain.
THEOREM TypeCorrect == Spec => []TypeOK
<1>1. Init => TypeOK
  BY MemoryAssumption DEF Init, TypeOK, Times, NoExpiry
<1> QED BY <1>1, TypeStep, PTL DEF Spec

-----------------------------------------------------------------------------
\* A step that changes a table is a capture, a proposal or a deletion.
LEMMA TableSteps ==
  ASSUME [Next]_vars
  PROVE  \/ UNCHANGED <<evidence, captured, memory, links>>
         \/ \E e \in EvidenceIds, row \in Evidence : Capture(e, row)
         \/ \E m \in MemoryIds, p \in Proposal, until \in Times \cup {NoExpiry} :
              Propose(m, p, until)
         \/ \E e \in EvidenceIds, s \in Scopes : DeleteEvidence(e, s)
<1>1. CASE Review
  BY <1>1 DEF Review, Transition, RenewMemory
<1>2. CASE Rules
  BY <1>2 DEF Rules, VerifyCreated, EvaluateDrafts, AutoVerify
<1>3. CASE \E m \in MemoryIds : NegativeFeedback(m)
  BY <1>3 DEF NegativeFeedback
<1>4. CASE \E s \in Scopes : Sweeps(s)
  BY <1>4 DEF Sweeps, DeprecateExpired, ArchiveStaleDrafts
<1>5. CASE Tick
  BY <1>5 DEF Tick
<1>6. CASE UNCHANGED vars
  BY <1>6 DEF vars
<1> QED BY <1>1, <1>2, <1>3, <1>4, <1>5, <1>6 DEF Next

\* A step of the service keeps the provenance table sound.
LEMMA LinksStep == TypeOK /\ LinksSound /\ [Next]_vars => LinksSound'
<1> SUFFICES ASSUME TypeOK, LinksSound, [Next]_vars PROVE LinksSound'
  OBVIOUS
<1>1. CASE UNCHANGED <<evidence, captured, memory, links>>
  BY <1>1 DEF LinksSound, Exists, LiveIn, Live
<1>2. ASSUME NEW e \in EvidenceIds, NEW row \in Evidence, Capture(e, row)
      PROVE  LinksSound'
  BY <1>2, MemoryAssumption
     DEF TypeOK, LinksSound, Capture, Exists, LiveIn, Live
<1>3. ASSUME NEW m \in MemoryIds, NEW p \in Proposal,
             NEW until \in Times \cup {NoExpiry}, Propose(m, p, until)
      PROVE  LinksSound'
  BY <1>3, MemoryAssumption
     DEF TypeOK, LinksSound, Propose, InsertMemory, Exists, LiveIn, Live
<1>4. ASSUME NEW e \in EvidenceIds, NEW s \in Scopes, DeleteEvidence(e, s)
      PROVE  LinksSound'
  BY <1>4 DEF TypeOK, LinksSound, DeleteEvidence, Exists, LiveIn, Live
<1> QED BY <1>1, <1>2, <1>3, <1>4, TableSteps

\* The provenance table only joins existing rows of one scope.
THEOREM LinksAlwaysSound == Spec => []LinksSound
<1>1. Init => LinksSound
  BY DEF Init, LinksSound
<1> QED BY <1>1, LinksStep, TypeCorrect, PTL DEF Spec

\* Deleting evidence never touches memories of other scopes.
THEOREM DeletionStaysInScope == Spec => DeletionInScope
<1>1. LinksSound => \A e \in EvidenceIds, s \in Scopes : DeleteEvidence(e, s) =>
        \A m \in MemoryIds :
          (Exists(m) /\ memory[m].scope # s) => status'[m] = status[m]
  BY DEF LinksSound, DeleteEvidence, WriteStatus, WithStatus, Derived, LiveIn
<1> QED BY <1>1, LinksAlwaysSound, PTL DEF DeletionInScope

-----------------------------------------------------------------------------
\* While ids are not reused, a live source is always linked: the row it was
\* proposed from is still the same, so its deletion will find the memory.
SourcesLinked ==
  /\ \A e \in EvidenceIds : Live(e) => e \in captured
  /\ \A m \in MemoryIds : Exists(m) => memory[m].sources \subseteq captured
  /\ \A m \in MemoryIds, e \in EvidenceIds :
       (Exists(m) /\ e \in memory[m].sources /\ Live(e)) => <<m, e>> \in links

LEMMA SourcesStayLinked ==
  ASSUME ReuseIds = FALSE PROVE Spec => []SourcesLinked
<1>1. Init => SourcesLinked
  BY DEF Init, SourcesLinked, Live, Exists
<1>2. TypeOK /\ SourcesLinked /\ [Next]_vars => SourcesLinked'
  <2> SUFFICES ASSUME TypeOK, SourcesLinked, [Next]_vars PROVE SourcesLinked'
    OBVIOUS
  <2>1. CASE UNCHANGED <<evidence, captured, memory, links>>
    BY <2>1 DEF SourcesLinked, Exists, Live
  <2>2. ASSUME NEW e \in EvidenceIds, NEW row \in Evidence, Capture(e, row)
        PROVE  SourcesLinked'
    BY <2>2 DEF TypeOK, SourcesLinked, Capture, Exists, Live
  <2>3. ASSUME NEW m \in MemoryIds, NEW p \in Proposal,
               NEW until \in Times \cup {NoExpiry}, Propose(m, p, until)
        PROVE  SourcesLinked'
    <3>1. p.sources \subseteq captured
      BY <2>3 DEF SourcesLinked, Propose, InsertMemory, Proposal, LiveIn
    <3> QED BY <2>3, <3>1 DEF TypeOK, SourcesLinked, Propose, InsertMemory, Exists, Live
  <2>4. ASSUME NEW e \in EvidenceIds, NEW s \in Scopes, DeleteEvidence(e, s)
        PROVE  SourcesLinked'
    BY <2>4 DEF TypeOK, SourcesLinked, DeleteEvidence, Exists, Live
  <2> QED BY <2>1, <2>2, <2>3, <2>4, TableSteps
<1> QED BY <1>1, <1>2, TypeCorrect, PTL DEF Spec

\* A deletion withdraws exactly what its preview announced, and every verified
\* memory that names the evidence: rows and links tell the same story.
THEOREM DeletionAlwaysWithdraws ==
  ASSUME ReuseIds = FALSE PROVE Spec => DeletionWithdraws
<1>1. ASSUME TypeOK, LinksSound, SourcesLinked,
             NEW e \in EvidenceIds, NEW s \in Scopes, DeleteEvidence(e, s)
      PROVE  /\ {m \in MemoryIds : status[m] = "verified" /\ status'[m] # "verified"}
                  = Impact(e, s)
             /\ \A m \in MemoryIds :
                  Exists(m) /\ e \in memory[m].sources => status'[m] # "verified"
  <2>1. ASSUME NEW m \in MemoryIds
        PROVE  /\ <<m, e>> \in links <=> Exists(m) /\ e \in memory[m].sources
               /\ <<m, e>> \in links <=> m \in MemoriesOf(s) /\ e \in memory[m].sources
    BY <1>1 DEF LinksSound, SourcesLinked, DeleteEvidence, MemoriesOf, LiveIn
  <2>2. \A m \in MemoryIds :
          status'[m] = IF status[m] = "verified" /\ <<m, e>> \in links
                         THEN "deprecated" ELSE status[m]
    BY <1>1 DEF DeleteEvidence, WriteStatus, WithStatus, Derived
  <2>3. {m \in MemoryIds : status[m] = "verified" /\ status'[m] # "verified"}
          = Impact(e, s)
    BY <2>1, <2>2 DEF Impact, WithStatus, MemoriesOf
  <2>4. ASSUME NEW m \in MemoryIds, Exists(m), e \in memory[m].sources
        PROVE  status'[m] # "verified"
    BY <2>1, <2>2, <2>4
  <2> QED BY <2>3, <2>4
<1>2. TypeOK /\ LinksSound /\ SourcesLinked =>
        \A e \in EvidenceIds, s \in Scopes : DeleteEvidence(e, s) =>
          /\ {m \in MemoryIds : status[m] = "verified" /\ status'[m] # "verified"}
               = Impact(e, s)
          /\ \A m \in MemoryIds :
               Exists(m) /\ e \in memory[m].sources => status'[m] # "verified"
  BY <1>1
<1> QED
  BY <1>2, TypeCorrect, LinksAlwaysSound, SourcesStayLinked, PTL DEF DeletionWithdraws

-----------------------------------------------------------------------------
\* A status is that of a row: the handlers that write a status found the row.
RowsHaveStatus == \A m \in MemoryIds : Exists(m) <=> status[m] # "absent"

LEMMA StatusOfRows == Spec => []RowsHaveStatus
<1>1. Init => RowsHaveStatus
  BY DEF Init, RowsHaveStatus, Exists
<1>2. TypeOK /\ LinksSound /\ RowsHaveStatus /\ [Next]_vars => RowsHaveStatus'
  <2> SUFFICES ASSUME TypeOK, LinksSound, RowsHaveStatus, [Next]_vars
               PROVE  RowsHaveStatus'
    OBVIOUS
  <2>1. ASSUME NEW e \in EvidenceIds, NEW row \in Evidence, Capture(e, row)
        PROVE  RowsHaveStatus'
    BY <2>1 DEF Capture, governance, RowsHaveStatus, Exists
  <2>2. ASSUME NEW m \in MemoryIds, NEW p \in Proposal,
               NEW until \in Times \cup {NoExpiry}, Propose(m, p, until)
        PROVE  RowsHaveStatus'
    BY <2>2, MemoryAssumption DEF TypeOK, Propose, InsertMemory, RowsHaveStatus, Exists
  <2>3. ASSUME NEW m \in MemoryIds, NEW target \in Statuses,
               Transition(m, target)
        PROVE  RowsHaveStatus'
    BY <2>3 DEF TypeOK, Transition, WriteStatus, RowsHaveStatus, Exists, Statuses
  <2>4. ASSUME NEW m \in MemoryIds, NEW until \in Times \cup {NoExpiry},
               NEW finished \in BOOLEAN, RenewMemory(m, until, finished)
        PROVE  RowsHaveStatus'
    BY <2>4 DEF TypeOK, RenewMemory, WriteStatus, RowsHaveStatus, Exists
  <2>5. CASE Rules
    BY <2>5 DEF TypeOK, Rules, VerifyCreated, EvaluateDrafts, AutoVerify,
                WriteStatus, WithStatus, MemoriesOf, RowsHaveStatus, Exists
  <2>6. ASSUME NEW m \in MemoryIds, NegativeFeedback(m)
        PROVE  RowsHaveStatus'
    BY <2>6 DEF TypeOK, NegativeFeedback, WriteStatus, RowsHaveStatus, Exists
  <2>7. ASSUME NEW e \in EvidenceIds, NEW s \in Scopes, DeleteEvidence(e, s)
        PROVE  RowsHaveStatus'
    BY <2>7 DEF TypeOK, LinksSound, DeleteEvidence, WriteStatus, WithStatus,
                Derived, RowsHaveStatus, Exists
  <2>8. ASSUME NEW s \in Scopes, NEW done \in SUBSET MemoryIds,
               DeprecateExpired(s, done) \/ ArchiveStaleDrafts(s, done)
        PROVE  RowsHaveStatus'
    BY <2>8 DEF TypeOK, DeprecateExpired, ArchiveStaleDrafts, ExpiredIn,
                StaleDraftsIn, WriteStatus, WithStatus, MemoriesOf,
                RowsHaveStatus, Exists
  <2>9. CASE Tick
    BY <2>9 DEF Tick, governance, RowsHaveStatus, Exists
  <2>10. CASE UNCHANGED vars
    BY <2>10 DEF vars, governance, RowsHaveStatus, Exists
  <2> QED
    BY <2>1, <2>2, <2>3, <2>4, <2>5, <2>6, <2>7, <2>8, <2>9, <2>10
       DEF Next, Review, Sweeps
<1> QED BY <1>1, <1>2, TypeCorrect, LinksAlwaysSound, PTL DEF Spec

-----------------------------------------------------------------------------
InServiceByRules(m) == status[m] = "verified" /\ verifiedBy[m] = "auto"

\* Only the rules put a memory in service by the rules, on a verdict about
\* the tables as they are.
LEMMA RulePublications ==
  ASSUME TypeOK, [Next]_vars, NEW m \in MemoryIds, InServiceByRules(m)'
  PROVE  \/ InServiceByRules(m)
         \/ RulesPass(m) /\ UNCHANGED <<evidence, memory>>
<1>1. ASSUME NEW e \in EvidenceIds, NEW row \in Evidence, Capture(e, row)
      PROVE  InServiceByRules(m)
  BY <1>1 DEF Capture, governance, InServiceByRules
<1>2. ASSUME NEW n \in MemoryIds, NEW p \in Proposal,
             NEW until \in Times \cup {NoExpiry}, Propose(n, p, until)
      PROVE  InServiceByRules(m)
  BY <1>2 DEF TypeOK, Propose, InsertMemory, InServiceByRules
<1>3. ASSUME NEW n \in MemoryIds, NEW target \in Statuses,
             Transition(n, target)
      PROVE  InServiceByRules(m)
  BY <1>3 DEF TypeOK, Transition, WriteStatus, InServiceByRules
<1>4. ASSUME NEW n \in MemoryIds, NEW until \in Times \cup {NoExpiry},
             NEW finished \in BOOLEAN, RenewMemory(n, until, finished)
      PROVE  InServiceByRules(m)
  BY <1>4 DEF TypeOK, RenewMemory, WriteStatus, InServiceByRules
<1>5. CASE Rules
  BY <1>5 DEF TypeOK, Rules, VerifyCreated, EvaluateDrafts, AutoVerify,
              WriteStatus, WithStatus, MemoriesOf, InServiceByRules
<1>6. ASSUME NEW n \in MemoryIds, NegativeFeedback(n)
      PROVE  InServiceByRules(m)
  BY <1>6 DEF TypeOK, NegativeFeedback, WriteStatus, InServiceByRules
<1>7. ASSUME NEW e \in EvidenceIds, NEW s \in Scopes, DeleteEvidence(e, s)
      PROVE  InServiceByRules(m)
  BY <1>7 DEF TypeOK, DeleteEvidence, WriteStatus, InServiceByRules
<1>8. ASSUME NEW s \in Scopes, NEW done \in SUBSET MemoryIds,
             DeprecateExpired(s, done) \/ ArchiveStaleDrafts(s, done)
      PROVE  InServiceByRules(m)
  BY <1>8 DEF TypeOK, DeprecateExpired, ArchiveStaleDrafts, WriteStatus,
              InServiceByRules
<1>9. CASE Tick
  BY <1>9 DEF Tick, governance, InServiceByRules
<1>10. CASE UNCHANGED vars
  BY <1>10 DEF vars, governance, InServiceByRules
<1> QED
  BY <1>1, <1>2, <1>3, <1>4, <1>5, <1>6, <1>7, <1>8, <1>9, <1>10
     DEF Next, Review, Sweeps

\* The verdict of the rules depends on nothing but the two tables.
LEMMA RulesReadTables ==
  ASSUME UNCHANGED <<evidence, memory>>, NEW m \in MemoryIds, RulesPass(m)
  PROVE  RulesPass(m)'
  BY DEF RulesPass, SourceEvidence, LiveIn, Live, DistinctSessions

\* While ids are not reused, a memory in service by the rules alone satisfies
\* them at every moment, not only when it was published.
THEOREM RulesKeepBacking ==
  ASSUME ReuseIds = FALSE PROVE Spec => []AutoVerifiedBacked
<1>1. Init => AutoVerifiedBacked
  BY DEF Init, AutoVerifiedBacked
<1>2. TypeOK /\ SourcesLinked /\ RowsHaveStatus /\ AutoVerifiedBacked
        /\ [Next]_vars => AutoVerifiedBacked'
  <2> SUFFICES ASSUME TypeOK, SourcesLinked, RowsHaveStatus,
                      AutoVerifiedBacked, [Next]_vars,
                      NEW m \in MemoryIds, InServiceByRules(m)'
               PROVE  RulesPass(m)'
    BY DEF AutoVerifiedBacked, InServiceByRules
  <2>1. RulesPass(m) \/ ~InServiceByRules(m)
    BY DEF AutoVerifiedBacked, InServiceByRules
  <2>2. CASE UNCHANGED <<evidence, memory>>
    BY <2>1, <2>2, RulePublications, RulesReadTables
  <2>3. CASE ~UNCHANGED <<evidence, memory>>
    <3>1. InServiceByRules(m) /\ RulesPass(m)
      BY <2>1, <2>3, RulePublications
    <3>2. ASSUME NEW e \in EvidenceIds, NEW row \in Evidence, Capture(e, row),
                 Exists(m)
          PROVE  RulesPass(m)'
      <4>1. e \notin memory[m].sources
        BY <3>2 DEF SourcesLinked, Capture
      <4>2. SourceEvidence(m)' = SourceEvidence(m)
        BY <3>2, <4>1 DEF TypeOK, Capture, SourceEvidence, LiveIn, Live
      <4> QED BY <3>1, <3>2, <4>2 DEF RulesPass, Capture, DistinctSessions
    <3>3. ASSUME NEW n \in MemoryIds, NEW p \in Proposal,
                 NEW until \in Times \cup {NoExpiry}, Propose(n, p, until)
          PROVE  RulesPass(m)'
      <4>1. n # m
        BY <3>1, <3>3 DEF TypeOK, Propose, InsertMemory, InServiceByRules
      <4>2. memory'[m] = memory[m] /\ evidence' = evidence
        BY <3>3, <4>1 DEF TypeOK, Propose, InsertMemory
      <4> QED BY <3>1, <4>2
              DEF RulesPass, SourceEvidence, LiveIn, Live, DistinctSessions
    <3>4. ASSUME NEW e \in EvidenceIds, NEW s \in Scopes, DeleteEvidence(e, s),
                 Exists(m)
          PROVE  RulesPass(m)'
      <4>1. e \notin memory[m].sources
        BY <3>1, <3>4
           DEF TypeOK, SourcesLinked, DeleteEvidence, WriteStatus, WithStatus,
               Derived, LiveIn, InServiceByRules
      <4>2. SourceEvidence(m)' = SourceEvidence(m)
        BY <3>4, <4>1 DEF TypeOK, DeleteEvidence, SourceEvidence, LiveIn, Live
      <4> QED BY <3>1, <3>4, <4>2 DEF RulesPass, DeleteEvidence, DistinctSessions
    <3>5. Exists(m)
      BY <3>1 DEF RowsHaveStatus, InServiceByRules
    <3> QED BY <2>3, <3>2, <3>3, <3>4, <3>5, TableSteps
  <2> QED BY <2>2, <2>3
<1> QED
  BY <1>1, <1>2, TypeCorrect, SourcesStayLinked, StatusOfRows, PTL DEF Spec

-----------------------------------------------------------------------------
\* A disputed memory has left the review queue, to which nothing leads back,
\* and the rules publish from there only.  Who published a memory is on record.
DisputedLeftQueue ==
  /\ \A m \in MemoryIds : status[m] = "verified" => verifiedBy[m] # "none"
  /\ \A m \in disputed :
       /\ status[m] \in Statuses \ {"draft"}
       /\ status[m] = "verified" => verifiedBy[m] = "manual"

\* Whatever a person writes keeps it; whatever a machine writes, as long as it
\* publishes drafts only.
LEMMA DisputedKept ==
  ASSUME TypeOK, DisputedLeftQueue, UNCHANGED disputed,
         NEW S, NEW target \in Statuses, NEW by \in {"auto", "manual"},
         WriteStatus(S, target, by),
         target = "draft" => \A m \in S : status[m] = "draft",
         target = "verified" /\ by # "manual" => \A m \in S : status[m] = "draft"
  PROVE  DisputedLeftQueue'
<1>1. ASSUME NEW m \in MemoryIds
      PROVE  status'[m] = "verified" => verifiedBy'[m] # "none"
  BY <1>1 DEF TypeOK, WriteStatus, DisputedLeftQueue
<1>2. ASSUME NEW m \in disputed
      PROVE  /\ status'[m] \in Statuses \ {"draft"}
             /\ status'[m] = "verified" => verifiedBy'[m] = "manual"
  <2>1. m \in MemoryIds /\ status[m] \in Statuses \ {"draft"}
    BY <1>2 DEF TypeOK, DisputedLeftQueue
  <2>2. CASE m \in S
    BY <2>1, <2>2 DEF WriteStatus
  <2>3. CASE m \notin S
    BY <1>2, <2>1, <2>3 DEF WriteStatus, DisputedLeftQueue
  <2> QED BY <2>2, <2>3
<1> QED BY <1>1, <1>2 DEF DisputedLeftQueue

\* No sequence of feedback, evaluations, reviews, renewals, deletions and
\* sweeps puts a disputed memory back into service without a person.
THEOREM DisputedNeverAuto == Spec => []DisputedNeedsHuman
<1>1. Init => DisputedLeftQueue
  BY DEF Init, DisputedLeftQueue
<1>2. TypeOK /\ RowsHaveStatus /\ DisputedLeftQueue /\ [Next]_vars => DisputedLeftQueue'
  <2> SUFFICES ASSUME TypeOK, RowsHaveStatus, DisputedLeftQueue, [Next]_vars
               PROVE  DisputedLeftQueue'
    OBVIOUS
  <2>1. CASE UNCHANGED <<status, verifiedBy, disputed>>
    BY <2>1 DEF DisputedLeftQueue
  <2>2. ASSUME NEW m \in MemoryIds, NEW p \in Proposal,
               NEW until \in Times \cup {NoExpiry}, Propose(m, p, until)
        PROVE  DisputedLeftQueue'
    <3>1. m \notin disputed
      BY <2>2 DEF Propose, InsertMemory, RowsHaveStatus, DisputedLeftQueue, Statuses
    <3> QED BY <2>2, <3>1 DEF TypeOK, Propose, InsertMemory, DisputedLeftQueue
  <2>3. ASSUME NEW m \in MemoryIds, NEW target \in Statuses, Transition(m, target)
        PROVE  DisputedLeftQueue'
    <3>1. status[m] \in Statuses
      BY <2>3 DEF Transition, RowsHaveStatus, TypeOK
    <3>2. target = "draft" => status[m] = "draft"
      BY <2>3, <3>1 DEF Transition, CanTransition, AllowedTransitions, Statuses
    <3> QED BY <2>3, <3>2, DisputedKept DEF Transition
  <2>4. ASSUME NEW m \in MemoryIds, NEW until \in Times \cup {NoExpiry},
               NEW finished \in BOOLEAN, RenewMemory(m, until, finished)
        PROVE  DisputedLeftQueue'
    <3>1. "verified" \in Statuses
      BY DEF Statuses
    <3> QED BY <2>1, <2>4, <3>1, DisputedKept DEF RenewMemory
  <2>5. ASSUME NEW S, AutoVerify(S), \A m \in S : status[m] = "draft"
        PROVE  DisputedLeftQueue'
    BY <2>5, DisputedKept DEF AutoVerify, Statuses
  <2>6. CASE Rules
    BY <2>5, <2>6 DEF Rules, VerifyCreated, EvaluateDrafts, WithStatus
  <2>7. ASSUME NEW m \in MemoryIds, NegativeFeedback(m)
        PROVE  DisputedLeftQueue'
    <3>1. Exists(m) /\ status[m] \in Statuses
      BY <2>7 DEF NegativeFeedback, RowsHaveStatus, TypeOK
    <3>2. \A d \in disputed' : d \in disputed \/ (d = m /\ status[m] # "draft")
      BY <2>7 DEF NegativeFeedback
    <3>3. CASE InServiceByRules(m)
      <4>1. WriteStatus({m}, "deprecated", "manual")
        BY <2>7, <3>3 DEF NegativeFeedback, InServiceByRules
      <4> QED BY <3>1, <3>2, <4>1 DEF TypeOK, WriteStatus, DisputedLeftQueue, Statuses
    <3>4. CASE ~InServiceByRules(m)
      <4>1. UNCHANGED <<status, verifiedBy>>
        BY <2>7, <3>4 DEF NegativeFeedback, InServiceByRules
      <4>2. status[m] = "verified" => verifiedBy[m] = "manual"
        BY <2>7, <3>4 DEF TypeOK, DisputedLeftQueue, InServiceByRules
      <4> QED BY <3>1, <3>2, <4>1, <4>2 DEF DisputedLeftQueue
    <3> QED BY <3>3, <3>4
  <2>8. ASSUME NEW e \in EvidenceIds, NEW s \in Scopes, DeleteEvidence(e, s)
        PROVE  DisputedLeftQueue'
    BY <2>8, DisputedKept DEF DeleteEvidence, Statuses
  <2>9. ASSUME NEW s \in Scopes, Sweeps(s) PROVE DisputedLeftQueue'
    <3>1. PICK done \in SUBSET MemoryIds :
            DeprecateExpired(s, done) \/ ArchiveStaleDrafts(s, done)
      BY <2>9 DEF Sweeps
    <3>2. {"deprecated", "archived"} \subseteq Statuses
      BY DEF Statuses
    <3>3. CASE DeprecateExpired(s, done)
      BY <3>2, <3>3, DisputedKept DEF DeprecateExpired
    <3>4. CASE ArchiveStaleDrafts(s, done)
      BY <3>2, <3>4, DisputedKept DEF ArchiveStaleDrafts
    <3> QED BY <3>1, <3>3, <3>4
  <2>10. ASSUME NEW e \in EvidenceIds, NEW row \in Evidence, Capture(e, row)
        PROVE  DisputedLeftQueue'
    BY <2>1, <2>10 DEF Capture, governance
  <2>11. CASE Tick \/ UNCHANGED vars
    BY <2>1, <2>11 DEF Tick, vars, governance
  <2> QED
    BY <2>2, <2>3, <2>4, <2>6, <2>7, <2>8, <2>9, <2>10, <2>11 DEF Next, Review
<1>3. DisputedLeftQueue => DisputedNeedsHuman
  BY DEF DisputedLeftQueue, DisputedNeedsHuman
<1> QED BY <1>1, <1>2, <1>3, TypeCorrect, StatusOfRows, PTL DEF Spec

-----------------------------------------------------------------------------
\* A write of one of the four kinds the handlers make is a step of the
\* abstract lifecycle.
LEMMA WriteIsGoverned ==
  ASSUME TypeOK, NEW S \in SUBSET MemoryIds, NEW by, NEW from, NEW target,
         WriteStatus(S, target, by), \A m \in S : status[m] = from,
         \/ from = "draft" /\ target = "verified" /\ by = "auto"
         \/ from = "verified" /\ target = "deprecated"
         \/ from = "draft" /\ target = "archived"
  PROVE  \/ Governed!AutoPublish(S)
         \/ Governed!Withdraw(S, "verified", "deprecated")
         \/ Governed!Withdraw(S, "draft", "archived")
<1>1. status' = [m \in MemoryIds |-> IF m \in S THEN target ELSE status[m]]
  BY DEF WriteStatus
<1>2. target = "verified" =>
        verifiedBy' = [m \in MemoryIds |-> IF m \in S THEN by ELSE verifiedBy[m]]
  BY DEF WriteStatus
<1>3. target # "verified" => verifiedBy' = verifiedBy
  <2> SUFFICES ASSUME target # "verified" PROVE verifiedBy' = verifiedBy
    OBVIOUS
  <2>1. verifiedBy' = [m \in MemoryIds |-> verifiedBy[m]]
    BY DEF WriteStatus
  <2> QED BY <2>1 DEF TypeOK
<1> QED BY <1>1, <1>2, <1>3 DEF Governed!AutoPublish, Governed!Withdraw

\* A reviewer's write on one memory is the abstract review.
LEMMA ReviewIsGoverned ==
  ASSUME TypeOK, NEW m \in MemoryIds, NEW target \in Statuses,
         status[m] # "absent", CanTransition(status[m], target),
         WriteStatus({m}, target, "manual")
  PROVE  Governed!Review(m, target)
<1>1. status' = [status EXCEPT ![m] = target]
  BY DEF TypeOK, WriteStatus
<1>2. verifiedBy' = IF target = "verified"
                      THEN [verifiedBy EXCEPT ![m] = "manual"] ELSE verifiedBy
  BY DEF TypeOK, WriteStatus
<1> QED
  BY <1>1, <1>2
     DEF Governed!Review, Governed!CanTransition, CanTransition,
         Governed!AllowedTransitions, AllowedTransitions

\* The memories implement the abstract lifecycle: drafts first, rules publish
\* drafts only, and nothing but a reviewer brings a memory back.
THEOREM MemoriesAreGoverned == Spec => ImplementsGovernedAssets
<1>1. Init => Governed!Init
  BY DEF Init, Governed!Init
<1>2. TypeOK /\ RowsHaveStatus /\ [Next]_vars => [Governed!Next]_Governed!vars
  <2> SUFFICES ASSUME TypeOK, RowsHaveStatus, [Next]_vars
               PROVE  [Governed!Next]_Governed!vars
    OBVIOUS
  <2>1. CASE UNCHANGED <<status, verifiedBy>>
    BY <2>1 DEF Governed!vars
  <2>2. ASSUME NEW m \in MemoryIds, NEW p \in Proposal,
               NEW until \in Times \cup {NoExpiry}, Propose(m, p, until)
        PROVE  Governed!Next
    <3>1. Governed!Create(m)
      BY <2>2 DEF RowsHaveStatus, Propose, InsertMemory, Governed!Create
    <3> QED BY <3>1 DEF Governed!Next
  <2>3. ASSUME NEW m \in MemoryIds, NEW target \in Statuses,
               Transition(m, target)
        PROVE  Governed!Next
    <3>1. Governed!Review(m, target)
      BY <2>3, ReviewIsGoverned DEF RowsHaveStatus, Transition
    <3> QED BY <3>1 DEF Governed!Next, Governed!Statuses, Statuses
  <2>4. ASSUME NEW m \in MemoryIds, WriteStatus({m}, "verified", "manual"),
               status[m] = "deprecated"
        PROVE  Governed!Next
    <3>1. CanTransition("deprecated", "verified")
      BY DEF CanTransition, AllowedTransitions
    <3>2. Governed!Review(m, "verified")
      BY <2>4, <3>1, ReviewIsGoverned DEF Statuses
    <3> QED BY <3>2 DEF Governed!Next, Governed!Statuses
  <2>5. ASSUME NEW S \in SUBSET MemoryIds, NEW by, NEW from, NEW target,
               WriteStatus(S, target, by), \A m \in S : status[m] = from,
               \/ from = "draft" /\ target = "verified" /\ by = "auto"
               \/ from = "verified" /\ target = "deprecated"
               \/ from = "draft" /\ target = "archived"
        PROVE  Governed!Next
    <3>1. \/ Governed!AutoPublish(S)
          \/ Governed!Withdraw(S, "verified", "deprecated")
          \/ Governed!Withdraw(S, "draft", "archived")
      BY <2>5, WriteIsGoverned
    <3> QED BY <3>1 DEF Governed!Next
  <2>6. ASSUME NEW m \in MemoryIds, NEW until \in Times \cup {NoExpiry},
               NEW finished \in BOOLEAN, RenewMemory(m, until, finished)
        PROVE  [Governed!Next]_Governed!vars
    BY <2>1, <2>4, <2>6 DEF RenewMemory
  <2>7. ASSUME NEW m \in MemoryIds, NegativeFeedback(m)
        PROVE  [Governed!Next]_Governed!vars
    <3>1. CASE status[m] = "verified" /\ WriteStatus({m}, "deprecated", "manual")
      BY <3>1, <2>5
    <3> QED BY <2>1, <2>7, <3>1 DEF NegativeFeedback
  <2>8. ASSUME NEW m \in MemoryIds, VerifyCreated(m) PROVE Governed!Next
    BY <2>5, <2>8 DEF VerifyCreated, AutoVerify
  <2>9. ASSUME NEW s \in Scopes, EvaluateDrafts(s) PROVE Governed!Next
    <3> DEFINE S == {m \in WithStatus(MemoriesOf(s), "draft") : RulesPass(m)}
    <3>1. S \in SUBSET MemoryIds /\ \A m \in S : status[m] = "draft"
      BY DEF WithStatus, MemoriesOf
    <3>2. WriteStatus(S, "verified", "auto")
      BY <2>9 DEF EvaluateDrafts, AutoVerify
    <3> HIDE DEF S
    <3> QED BY <2>5, <3>1, <3>2
  <2>10. ASSUME NEW e \in EvidenceIds, NEW s \in Scopes, DeleteEvidence(e, s)
         PROVE  Governed!Next
    <3> DEFINE S == WithStatus(Derived(e), "verified")
    <3>1. S \in SUBSET MemoryIds /\ \A m \in S : status[m] = "verified"
      BY DEF WithStatus, Derived
    <3>2. WriteStatus(S, "deprecated", "manual")
      BY <2>10 DEF DeleteEvidence
    <3> HIDE DEF S
    <3> QED BY <2>5, <3>1, <3>2
  <2>11. ASSUME NEW s \in Scopes, NEW done \in SUBSET MemoryIds,
                DeprecateExpired(s, done)
         PROVE  Governed!Next
    <3>1. \A m \in done : status[m] = "verified"
      BY <2>11 DEF DeprecateExpired, ExpiredIn, WithStatus
    <3> QED BY <2>5, <2>11, <3>1 DEF DeprecateExpired
  <2>12. ASSUME NEW s \in Scopes, NEW done \in SUBSET MemoryIds,
                ArchiveStaleDrafts(s, done)
         PROVE  Governed!Next
    <3>1. \A m \in done : status[m] = "draft"
      BY <2>12 DEF ArchiveStaleDrafts, StaleDraftsIn, WithStatus
    <3> QED BY <2>5, <2>12, <3>1 DEF ArchiveStaleDrafts
  <2>13. ASSUME NEW e \in EvidenceIds, NEW row \in Evidence, Capture(e, row)
         PROVE  UNCHANGED <<status, verifiedBy>>
    BY <2>13 DEF Capture, governance
  <2>14. CASE Tick \/ UNCHANGED vars
    BY <2>1, <2>14 DEF Tick, vars, governance
  <2> QED
    BY <2>1, <2>2, <2>3, <2>6, <2>7, <2>8, <2>9, <2>10, <2>11, <2>12, <2>13,
       <2>14
       DEF Next, Review, Rules, Sweeps
<1> QED
  BY <1>1, <1>2, TypeCorrect, StatusOfRows, PTL
     DEF Spec, ImplementsGovernedAssets, Governed!Spec

-----------------------------------------------------------------------------
\* The model calls of proposal jobs.

\* The steps of a job, seen from its model call.
CallMoves(c) == Begin(c) \/ Answer(c) \/ Progress(c)

LEMMA JobStepsMoveCalls ==
  [JobNext]_jobVars => UNCHANGED llmVars \/ \E c \in Calls : CallMoves(c)
<1>1. Governance => UNCHANGED llmVars
  BY DEF Governance
<1>2. ASSUME NEW j \in Jobs, NEW s \in Scopes, NEW selected \in SUBSET EvidenceIds,
             StartJob(j, s, selected)
      PROVE  CallMoves(j)
  BY <1>2 DEF StartJob, CallMoves
<1>3. ASSUME NEW j \in Jobs, FinishJob(j) PROVE CallMoves(j)
  BY <1>3 DEF FinishJob, CallMoves
<1>4. ASSUME NEW j \in Jobs, CallStep(j) PROVE CallMoves(j)
  BY <1>4 DEF CallStep, CallMoves
<1>5. UNCHANGED jobVars => UNCHANGED llmVars
  BY DEF jobVars
<1> QED BY <1>1, <1>2, <1>3, <1>4, <1>5 DEF JobNext, Jobs

-----------------------------------------------------------------------------
\* One call on its own.
CallState == [stage   : {"none", "calling", "pausing", "answered", "failed"},
              attempt : 0..(1 + MaxRetries),
              expired : BOOLEAN,
              error   : ErrorKinds \cup {"none"}]

CallSound(c) ==
  /\ call[c].error = "canceled" => c \in canceled
  /\ call[c].stage = "pausing" => call[c].attempt <= MaxRetries
  /\ (call[c].stage = "failed" /\ call[c].error \in Retryable)
       => call[c].attempt = 1 + MaxRetries

CallsSound == LlmTypeOK /\ \A c \in Calls : CallSound(c)

\* A call other than the one that moves is left alone, and no cancellation is
\* taken back; so a step keeps CallsSound if the call that moves stays sound.
LEMMA MoveOne ==
  ASSUME CallsSound, NEW c \in Calls, NEW state \in CallState,
         call' = [call EXCEPT ![c] = state],
         canceled' = canceled,
         state.error = "canceled" => c \in canceled,
         state.stage = "pausing" => state.attempt <= MaxRetries,
         (state.stage = "failed" /\ state.error \in Retryable)
           => state.attempt = 1 + MaxRetries
  PROVE  CallsSound'
<1>1. call'[c] = state /\ \A d \in Calls : d # c => call'[d] = call[d]
  BY DEF CallsSound, LlmTypeOK
<1>2. call' \in [Calls -> CallState]
  BY DEF CallsSound, LlmTypeOK, CallState
<1>3. LlmTypeOK'
  BY <1>2 DEF CallsSound, LlmTypeOK, CallState
<1>4. ASSUME NEW d \in Calls PROVE CallSound(d)'
  <2>1. CASE d = c
    BY <1>1, <2>1 DEF CallSound
  <2>2. CASE d # c
    BY <1>1, <2>2 DEF CallsSound, CallSound
  <2> QED BY <2>1, <2>2
<1> QED BY <1>3, <1>4 DEF CallsSound

LEMMA AttemptSound ==
  ASSUME CallsSound, NEW c \in Calls, NEW number \in 0..(1 + MaxRetries),
         Attempt(c, number), canceled' = canceled
  PROVE  CallsSound'
<1>1. PICK state :
        state = IF c \in canceled
          THEN [stage |-> "failed", attempt |-> number, expired |-> FALSE, error |-> "canceled"]
          ELSE [stage |-> "calling", attempt |-> number, expired |-> FALSE, error |-> "none"]
  OBVIOUS
<1>2. state \in CallState
  BY <1>1 DEF CallState, ErrorKinds, Retryable
<1>3. call' = [call EXCEPT ![c] = state]
  BY <1>1 DEF Attempt
<1> QED BY <1>1, <1>2, <1>3, MoveOne DEF Retryable

LEMMA CallStepSound ==
  ASSUME CallsSound, NEW c \in Calls, CallMoves(c)
  PROVE  CallsSound'
<1>1. call[c] \in CallState /\ CallSound(c) /\ MaxRetries \in Nat
  BY LlmAssumption DEF CallsSound, LlmTypeOK, CallState
<1>2. CASE Begin(c)
  BY <1>1, <1>2, AttemptSound DEF Begin
<1>3. CASE Answer(c)
  <2>1. PICK state : state = [call[c] EXCEPT !.stage = "answered", !.expired = FALSE]
    OBVIOUS
  <2>2. /\ state \in CallState /\ state.stage = "answered"
        /\ state.error = call[c].error
    BY <1>1, <2>1 DEF CallState
  <2>3. call' = [call EXCEPT ![c] = state] /\ canceled' = canceled
    BY <1>3, <2>1 DEF Answer
  <2> QED BY <1>1, <2>2, <2>3, MoveOne DEF CallSound
<1>4. CASE Cancel(c)
  <2>1. call' = call /\ canceled' = canceled \cup {c} /\ c \in Cancellable
    BY <1>4 DEF Cancel
  <2> QED BY <2>1 DEF CallsSound, LlmTypeOK, CallSound
<1>5. CASE Expire(c)
  <2>1. PICK state : state = [call[c] EXCEPT !.expired = TRUE]
    OBVIOUS
  <2>2. /\ state \in CallState /\ state.stage = call[c].stage
        /\ state.error = call[c].error /\ state.attempt = call[c].attempt
    BY <1>1, <2>1 DEF CallState
  <2>3. call' = [call EXCEPT ![c] = state] /\ canceled' = canceled
    BY <1>5, <2>1 DEF Expire
  <2> QED BY <1>1, <2>2, <2>3, MoveOne DEF CallSound
<1>6. ASSUME NEW kind \in ErrorKinds, Fail(c, kind) PROVE CallsSound'
  <2> DEFINE error == Attribution(c, kind)
  <2>1. error \in ErrorKinds /\ (error = "canceled" => c \in canceled)
    BY DEF Attribution, ErrorKinds, Retryable
  <2>2. PICK state : state = [call[c] EXCEPT
            !.error = error, !.expired = FALSE,
            !.stage = IF MayRetry(c, error) THEN "pausing" ELSE "failed"]
    OBVIOUS
  <2>3. call' = [call EXCEPT ![c] = state] /\ canceled' = canceled
    BY <1>6, <2>2 DEF Fail
  <2> HIDE DEF error
  <2>4. /\ state \in CallState
        /\ state.error = error /\ state.attempt = call[c].attempt
        /\ state.stage = IF MayRetry(c, error) THEN "pausing" ELSE "failed"
    BY <1>1, <2>1, <2>2 DEF CallState
  <2>5. call[c].attempt \in 0..(1 + MaxRetries)
    BY <1>1 DEF CallState
  <2>6. state.stage = "pausing" => state.attempt <= MaxRetries
    BY <2>4 DEF MayRetry
  <2>7. (state.stage = "failed" /\ state.error \in Retryable)
          => state.attempt = 1 + MaxRetries
    BY <1>1, <2>4, <2>5 DEF MayRetry
  <2> QED BY <2>1, <2>3, <2>4, <2>6, <2>7, MoveOne
<1>7. CASE Resume(c)
  <2>1. canceled' = canceled /\ call[c].stage = "pausing"
    BY <1>7 DEF Resume, At
  <2>2. CASE c \in canceled /\
             call' = [call EXCEPT ![c].stage = "failed", ![c].error = "canceled"]
    <3>1. PICK state : state = [call[c] EXCEPT !.stage = "failed", !.error = "canceled"]
      OBVIOUS
    <3>2. /\ state \in CallState /\ state.stage = "failed"
          /\ state.error = "canceled"
      BY <1>1, <3>1 DEF CallState, ErrorKinds
    <3>3. call' = [call EXCEPT ![c] = state]
      BY <2>2, <3>1
    <3> QED BY <2>1, <2>2, <3>2, <3>3, MoveOne DEF Retryable
  <2>3. CASE Attempt(c, call[c].attempt + 1)
    <3>1. call[c].attempt + 1 \in 0..(1 + MaxRetries)
      BY <1>1, <2>1 DEF CallState, CallSound
    <3> QED BY <2>1, <2>3, <3>1, AttemptSound
  <2> QED BY <1>7, <2>2, <2>3 DEF Resume
<1> QED
  BY <1>2, <1>3, <1>4, <1>5, <1>6, <1>7 DEF CallMoves, Progress, Reject

LEMMA CallsUnmoved == CallsSound /\ UNCHANGED llmVars => CallsSound'
  BY DEF CallsSound, CallSound, LlmTypeOK, llmVars

\* The invariant of the call loop, whatever the rest of the service does
\* while a call is under way.
THEOREM CallsStaySound == JobSpec => []CallsSound
<1>1. JobInit => CallsSound
  BY LlmAssumption DEF JobInit, LlmInit, CallsSound, CallSound, LlmTypeOK, ErrorKinds,
                       Retryable
<1>2. CallsSound /\ [JobNext]_jobVars => CallsSound'
  BY CallsUnmoved, JobStepsMoveCalls, CallStepSound
<1> QED BY <1>1, <1>2, PTL DEF JobSpec

\* Only a caller that canceled is told so.
THEOREM CancellationTruthful == JobSpec => []CanceledIsTruthful
<1>1. CallsSound => CanceledIsTruthful
  BY DEF CallsSound, CallSound, CanceledIsTruthful
<1> QED BY <1>1, CallsStaySound, PTL

\* A call is given up with an error worth a retry only after every attempt.
THEOREM NoEarlySurrender == JobSpec => []RetriesExhausted
<1>1. CallsSound => RetriesExhausted
  BY DEF CallsSound, CallSound, RetriesExhausted, At
<1> QED BY <1>1, CallsStaySound, PTL

\* What a call reports of its failure is true.
THEOREM FailuresTrue == JobSpec => []CallFailuresTrue
BY CancellationTruthful, NoEarlySurrender, PTL DEF CallFailuresTrue

-----------------------------------------------------------------------------
\* What an answer is turned into.  The loop over its candidates is a recursion;
\* induction over it goes by the least number that refutes a claim.

\* The recursion of the loop has a solution, so the loop is what it says.
LEMMA LoopUnfolds ==
  ASSUME NEW j, NEW candidates, Len(candidates) \in Nat
  PROVE  DraftsUpTo(j, candidates) =
           [i \in 0..Len(candidates) |->
              IF i = 0 THEN << >>
              ELSE Extended(j, DraftsUpTo(j, candidates)[i - 1], candidates[i])]
<1> DEFINE n == Len(candidates)
           Round(g, i)  == IF i = 0 THEN << >> ELSE Extended(j, g[i - 1], candidates[i])
           Loop(g, k)   == g = [i \in 0..k |-> Round(g, i)]
           Stuck        == {k \in 0..n : ~\E g : Loop(g, k)}
<1>1. Stuck = {}
  <2> SUFFICES ASSUME Stuck # {} PROVE FALSE
    OBVIOUS
  <2>1. Stuck \in SUBSET Nat
    OBVIOUS
  <2>2. PICK m \in Stuck : \A k \in Stuck : m <= k
    <3> HIDE DEF Stuck
    <3> QED BY <2>1, LeastNat
  <2>3. m \in 0..n /\ ~\E g : Loop(g, m)
    OBVIOUS
  <2>4. CASE m = 0
    <3> DEFINE h == [i \in 0..0 |-> << >>]
    <3>1. h = [i \in 0..0 |-> Round(h, i)]
      OBVIOUS
    <3> HIDE DEF h, Round
    <3> QED BY <2>3, <2>4, <3>1
  <2>5. CASE m # 0
    <3>1. m - 1 \in 0..n /\ m - 1 \notin Stuck
      <4>1. m \in Nat /\ m - 1 \in 0..n /\ ~(m <= m - 1)
        BY <2>3, <2>5
      <4> HIDE DEF Stuck
      <4> QED BY <2>2, <4>1
    <3>2. PICK g : Loop(g, m - 1)
      BY <3>1
    <3> DEFINE h == [i \in 0..m |-> IF i = m THEN Extended(j, g[m - 1], candidates[m]) ELSE g[i]]
    <3>3. ASSUME NEW i \in 0..m PROVE h[i] = Round(h, i)
      <4>1. CASE i = m
        BY <2>3, <2>5, <4>1
      <4>2. CASE i # m
        <5>1. i \in 0..(m - 1) /\ g[i] = Round(g, i)
          BY <2>3, <3>2, <4>2
        <5>2. i # 0 => i - 1 \in 0..m /\ i - 1 # m
          BY <2>3, <4>2
        <5> QED BY <4>2, <5>1, <5>2
      <4> QED BY <4>1, <4>2
    <3>4. h = [i \in 0..m |-> Round(h, i)]
      <4>1. h = [i \in 0..m |-> h[i]]
        OBVIOUS
      <4> HIDE DEF h, Round
      <4> QED BY <3>3, <4>1
    <3> HIDE DEF h, Round
    <3> QED BY <2>3, <3>4
  <2> QED BY <2>4, <2>5
<1>2. \E g : Loop(g, n)
  <2>1. n \in 0..n
    OBVIOUS
  <2> QED BY <1>1, <2>1
<1>3. DraftsUpTo(j, candidates) = CHOOSE g : Loop(g, n)
  BY DEF DraftsUpTo
<1> HIDE DEF Round
<1>4. Loop(CHOOSE g : Loop(g, n), n)
  BY <1>2
<1>5. Loop(DraftsUpTo(j, candidates), n)
  BY <1>3, <1>4
<1> QED BY <1>5 DEF Round

\* What a job may create: drafts in its scope, each on evidence that is live
\* there, that repeat neither a memory in use nor one another.
DraftsSound(j, drafts) ==
  /\ drafts \in Seq(Proposal)
  /\ \A i \in DOMAIN drafts :
       /\ drafts[i].scope = job[j].scope
       /\ drafts[i].sources # {}
       /\ \A e \in drafts[i].sources : LiveIn(e, job[j].scope)
       /\ drafts[i].content \notin Seen(job[j].scope)
       /\ \A k \in DOMAIN drafts : k # i => drafts[k].content # drafts[i].content

LEMMA ExtendedSound ==
  ASSUME NEW j \in Jobs, job[j] \in JobState, NEW candidate \in Candidate,
         NEW before, DraftsSound(j, before)
  PROVE  DraftsSound(j, Extended(j, before, candidate))
<1> DEFINE taken == {before[k].content : k \in DOMAIN before}
           draft == [scope |-> job[j].scope, sources |-> Sources(j, candidate),
                     content |-> candidate.content, fit |-> TRUE]
<1>1. CASE ~Acceptable(j, candidate, taken)
  BY <1>1 DEF Extended
<1>2. CASE Acceptable(j, candidate, taken)
  <2>1. Extended(j, before, candidate) = Append(before, draft)
    BY <1>2 DEF Extended
  <2>2. /\ draft.sources # {} /\ \A e \in draft.sources : LiveIn(e, job[j].scope)
        /\ draft.content \notin Seen(job[j].scope)
        /\ \A k \in DOMAIN before : before[k].content # draft.content
    BY <1>2 DEF Acceptable
  <2>3. draft \in Proposal /\ draft.scope = job[j].scope
    BY DEF Proposal, JobState, Candidate, Sources
  <2> HIDE DEF draft
  <2>4. /\ Append(before, draft) \in Seq(Proposal)
        /\ DOMAIN Append(before, draft) = 1..(Len(before) + 1)
        /\ DOMAIN before = 1..Len(before) /\ Len(before) \in Nat
        /\ \A k \in 1..Len(before) : Append(before, draft)[k] = before[k]
        /\ Append(before, draft)[Len(before) + 1] = draft
    BY <2>3 DEF DraftsSound
  <2>5. ASSUME NEW i \in 1..(Len(before) + 1)
        PROVE  i \in 1..Len(before) \/ i = Len(before) + 1
    BY <2>4
  <2> QED BY <2>1, <2>2, <2>3, <2>4, <2>5 DEF DraftsSound
<1> QED BY <1>1, <1>2

LEMMA LoopSound ==
  ASSUME NEW j \in Jobs, job[j] \in JobState, NEW candidates \in Seq(Candidate)
  PROVE  DraftsSound(j, Drafts(j, candidates))
<1> DEFINE n    == Len(candidates)
           made == DraftsUpTo(j, candidates)
           Bad  == {k \in 0..n : ~DraftsSound(j, made[k])}
<1>1. n \in Nat
  OBVIOUS
<1>2. \A k \in 0..n : made[k] = IF k = 0 THEN << >>
                                ELSE Extended(j, made[k - 1], candidates[k])
  <2> HIDE DEF made, n
  <2>1. made = [k \in 0..n |-> IF k = 0 THEN << >>
                               ELSE Extended(j, made[k - 1], candidates[k])]
    BY <1>1, LoopUnfolds DEF made, n
  <2> QED BY <2>1
<1>3. Bad = {}
  <2> SUFFICES ASSUME Bad # {} PROVE FALSE
    OBVIOUS
  <2>1. Bad \in SUBSET Nat
    OBVIOUS
  <2>2. PICK m \in Bad : \A k \in Bad : m <= k
    <3> HIDE DEF Bad
    <3> QED BY <2>1, LeastNat
  <2>3. m \in 0..n /\ ~DraftsSound(j, made[m])
    OBVIOUS
  <2> HIDE DEF made
  <2>4. CASE m = 0
    <3>1. made[0] = << >>
      BY <1>2, <2>3, <2>4
    <3> QED BY <2>3, <2>4, <3>1 DEF DraftsSound
  <2>5. CASE m # 0
    <3>1. m - 1 \in 0..n /\ m \in 1..n /\ DraftsSound(j, made[m - 1])
      BY <2>2, <2>3, <2>5
    <3>2. candidates[m] \in Candidate
      BY <3>1
    <3>3. made[m] = Extended(j, made[m - 1], candidates[m])
      BY <1>2, <2>3, <2>5
    <3> QED BY <2>3, <3>1, <3>2, <3>3, ExtendedSound
  <2> QED BY <2>4, <2>5
<1>4. n \in 0..n
  BY <1>1
<1>5. DraftsSound(j, made[n])
  BY <1>3, <1>4
<1> QED BY <1>5 DEF Drafts

-----------------------------------------------------------------------------
\* The tables beside jobs.

\* A call under way has a job of some scope.
JobsBound == \A j \in Jobs : call[j].stage \in {"calling", "pausing"} => job[j] \in JobState

JobInv == JobTypeOK /\ LinksSound /\ JobsBound /\ CallsSound

\* A step of the composed system is one of the service, or the end of a job.
LEMMA JobStepKinds ==
  [JobNext]_jobVars => [Next]_vars \/ \E j \in Jobs : FinishJob(j)
<1>1. Governance => Next
  BY DEF Governance, Next, Review
<1>2. ASSUME NEW j \in Jobs, NEW s, NEW selected, StartJob(j, s, selected)
      PROVE  UNCHANGED vars
  BY <1>2 DEF StartJob
<1>3. ASSUME NEW j \in Jobs, CallStep(j) PROVE UNCHANGED vars
  BY <1>3 DEF CallStep, Within
<1>4. UNCHANGED jobVars => UNCHANGED vars
  BY DEF jobVars
<1> QED BY <1>1, <1>2, <1>3, <1>4 DEF JobNext

\* Storing sound drafts under fresh ids keeps types and links.
LEMMA StoreSound ==
  ASSUME TypeOK, LinksSound, NEW j \in Jobs, NEW drafts, DraftsSound(j, drafts),
         NEW id \in FreshIds(Len(drafts)), Store(drafts, id)
  PROVE  TypeOK' /\ LinksSound'
<1> DEFINE row(m) == drafts[CHOOSE i \in DOMAIN id : id[i] = m]
<1>1. /\ DOMAIN id = DOMAIN drafts /\ DOMAIN drafts = 1..Len(drafts)
      /\ drafts \in [DOMAIN drafts -> Proposal]
      /\ \A i \in DOMAIN id : id[i] \in MemoryIds /\ ~Exists(id[i])
      /\ \A i, k \in DOMAIN id : id[i] = id[k] => i = k
  BY DEF FreshIds, DraftsSound, IsInjective
<1>2. \A m \in Range(id) : \E i \in DOMAIN id : id[i] = m
  BY DEF Range
<1>3. \A i \in DOMAIN id : id[i] \in Range(id)
  BY DEF Range
<1>4. \A i \in DOMAIN id : row(id[i]) = drafts[i]
  BY <1>1
<1> HIDE DEF row
<1>5. memory' = [m \in MemoryIds |-> IF m \in Range(id) THEN row(m) ELSE memory[m]]
  BY DEF Store, row
<1>6. \A m \in Range(id) : row(m) \in Proposal
  BY <1>1, <1>2, <1>4
<1>7. links' = links \cup UNION {{id[i]} \X drafts[i].sources : i \in DOMAIN id}
  BY DEF Store
<1>8. TypeOK'
  <2>1. memory' \in [MemoryIds -> Proposal \cup {NoProposal}]
    BY <1>5, <1>6 DEF TypeOK
  <2>2. links' \subseteq MemoryIds \X EvidenceIds
    <3>1. \A i \in DOMAIN id : id[i] \in MemoryIds /\ drafts[i].sources \subseteq EvidenceIds
      BY <1>1 DEF Proposal
    <3> QED BY <1>7, <3>1 DEF TypeOK
  <2>3. status' \in [MemoryIds -> Statuses \cup {"absent"}]
    BY DEF TypeOK, Store, Statuses
  <2>4. updatedAt' \in [MemoryIds -> Times]
    BY DEF TypeOK, Store
  <2> QED BY <2>1, <2>2, <2>3, <2>4 DEF TypeOK, Store
<1>9. ASSUME NEW m \in MemoryIds, NEW e \in EvidenceIds, <<m, e>> \in links'
      PROVE  Exists(m)' /\ e \in memory'[m].sources /\ LiveIn(e, memory[m].scope)'
  <2>1. evidence' = evidence
    BY DEF Store
  <2>2. CASE m \in Range(id)
    <3>1. PICK i \in DOMAIN id : id[i] = m
      BY <1>2, <2>2
    <3>2. <<m, e>> \notin links
      BY <1>1, <3>1 DEF LinksSound
    <3>3. PICK k \in DOMAIN id : m = id[k] /\ e \in drafts[k].sources
      BY <1>7, <1>9, <3>2
    <3>4. k = i /\ memory'[m] = drafts[i]
      BY <1>1, <1>4, <1>5, <2>2, <3>1, <3>3
    <3>5. /\ drafts[i] # NoProposal /\ drafts[i].scope = job[j].scope
          /\ \A f \in drafts[i].sources : LiveIn(f, job[j].scope)
      BY <1>1, <3>1, MemoryAssumption DEF DraftsSound
    <3> QED BY <2>1, <3>3, <3>4, <3>5 DEF Exists, LiveIn, Live
  <2>3. CASE m \notin Range(id)
    <3>1. <<m, e>> \in links /\ memory'[m] = memory[m]
      BY <1>3, <1>5, <1>7, <1>9, <2>3
    <3> QED BY <2>1, <3>1 DEF LinksSound, Exists, LiveIn, Live
  <2> QED BY <2>2, <2>3
<1>10. LinksSound'
  BY <1>9 DEF LinksSound
<1> QED BY <1>8, <1>10

\* What a finished job stores was made by the loop from a job of some scope.
LEMMA FinishStores ==
  ASSUME JobInv, NEW j \in Jobs, FinishJob(j)
  PROVE  /\ call'[j].stage = "answered" /\ \A k \in Jobs : k # j => call'[k] = call[k]
         /\ \E drafts : /\ DraftsSound(j, drafts)
                        /\ \E id \in FreshIds(Len(drafts)) : Store(drafts, id)
<1>1. At(j, "calling") /\ call' = [call EXCEPT ![j].stage = "answered", ![j].expired = FALSE]
  BY DEF FinishJob, Answer
<1>2. call'[j].stage = "answered" /\ \A k \in Jobs : k # j => call'[k] = call[k]
  BY <1>1 DEF JobInv, JobTypeOK, LlmTypeOK, Jobs
<1>3. job[j] \in JobState
  BY <1>1 DEF JobInv, JobsBound, At
<1>4. PICK candidates \in Candidates :
        \E id \in FreshIds(Len(Drafts(j, candidates))) : Store(Drafts(j, candidates), id)
  BY DEF FinishJob
<1>5. candidates \in Seq(Candidate)
  BY <1>4, ProposalAssumption DEF Candidates
<1> QED BY <1>2, <1>3, <1>4, <1>5, LoopSound

LEMMA JobsBoundStep ==
  ASSUME JobInv, [JobNext]_jobVars
  PROVE  job' \in [Jobs -> JobState \cup {NoJob}] /\ JobsBound'
<1>1. /\ job \in [Jobs -> JobState \cup {NoJob}] /\ Jobs = Calls
      /\ call \in [Calls -> CallState]
  BY DEF JobInv, JobTypeOK, LlmTypeOK, CallState, Jobs
<1>2. CASE UNCHANGED <<call, job>>
  BY <1>1, <1>2 DEF JobInv, JobsBound
<1>3. ASSUME NEW j \in Jobs, NEW s \in Scopes, NEW selected \in SUBSET EvidenceIds,
             StartJob(j, s, selected)
      PROVE  job' \in [Jobs -> JobState \cup {NoJob}] /\ JobsBound'
  BY <1>1, <1>3 DEF StartJob, Begin, Attempt, JobState, JobInv, JobsBound
<1>4. ASSUME NEW j \in Jobs, FinishJob(j)
      PROVE  job' \in [Jobs -> JobState \cup {NoJob}] /\ JobsBound'
  <2>1. job' = [job EXCEPT ![j] = NoJob]
    BY <1>4 DEF FinishJob
  <2> QED BY <1>1, <1>4, <2>1, FinishStores DEF JobInv, JobsBound
<1>5. ASSUME NEW j \in Jobs, CallStep(j)
      PROVE  job' \in [Jobs -> JobState \cup {NoJob}] /\ JobsBound'
  <2>1. job' = [job EXCEPT ![j] = IF At(j, "failed")' THEN NoJob ELSE job[j]]
    BY <1>5 DEF CallStep, Within
  <2>2. /\ \A k \in Jobs : k # j => call'[k] = call[k]
        /\ call'[j].stage \in {"calling", "pausing"} => call[j].stage \in {"calling", "pausing"}
    <3>1. CASE Cancel(j)
      BY <3>1 DEF Cancel
    <3>2. CASE Expire(j)
      BY <1>1, <3>2 DEF Expire, At
    <3>3. CASE Reject(j)
      BY <1>1, <3>3 DEF Reject, Fail, At
    <3>4. CASE Resume(j)
      BY <1>1, <3>4 DEF Resume, Attempt, At
    <3> QED BY <1>5, <3>1, <3>2, <3>3, <3>4 DEF CallStep, Progress
  <2>3. job' \in [Jobs -> JobState \cup {NoJob}] /\ \A k \in Jobs : k # j => job'[k] = job[k]
    BY <1>1, <2>1
  <2>4. call'[j].stage \in {"calling", "pausing"} => job'[j] = job[j]
    BY <1>1, <2>1 DEF At
  <2> QED BY <2>2, <2>3, <2>4 DEF JobInv, JobsBound
<1>6. Governance \/ UNCHANGED jobVars => UNCHANGED <<call, job>>
  BY DEF Governance, jobVars, llmVars
<1> QED BY <1>2, <1>3, <1>4, <1>5, <1>6 DEF JobNext

LEMMA JobInvInit == JobInit => JobInv
<1>1. JobInit => TypeOK /\ LinksSound
  BY MemoryAssumption DEF JobInit, Init, TypeOK, Times, NoExpiry, LinksSound
<1>2. JobInit => CallsSound
  BY LlmAssumption DEF JobInit, LlmInit, CallsSound, CallSound, LlmTypeOK, ErrorKinds,
                       Retryable
<1>3. JobInit => job \in [Jobs -> JobState \cup {NoJob}] /\ JobsBound
  BY DEF JobInit, LlmInit, JobsBound, Jobs
<1> QED BY <1>1, <1>2, <1>3 DEF JobInv, JobTypeOK, CallsSound

LEMMA JobInvStep == JobInv /\ [JobNext]_jobVars => JobInv'
<1> SUFFICES ASSUME JobInv, [JobNext]_jobVars PROVE JobInv'
  OBVIOUS
<1>1. CallsSound'
  BY JobStepsMoveCalls, CallStepSound, CallsUnmoved DEF JobInv
<1>2. TypeOK' /\ LinksSound'
  <2>1. CASE [Next]_vars
    BY <2>1, TypeStep, LinksStep DEF JobInv, JobTypeOK
  <2>2. ASSUME NEW j \in Jobs, FinishJob(j) PROVE TypeOK' /\ LinksSound'
    BY <2>2, FinishStores, StoreSound DEF JobInv, JobTypeOK
  <2> QED BY <2>1, <2>2, JobStepKinds
<1> QED BY <1>1, <1>2, JobsBoundStep DEF JobInv, JobTypeOK, CallsSound

\* The invariant of the service and its jobs together.
THEOREM JobsSound == JobSpec => []JobInv
  BY JobInvInit, JobInvStep, PTL DEF JobSpec

\* Evidence may be deleted and captured in another scope while a model is
\* asked about it: links stay sound all the same.
THEOREM LinksSoundBesideJobs == JobSpec => []LinksSound
<1>1. JobInv => LinksSound
  BY DEF JobInv
<1> QED BY <1>1, JobsSound, PTL

\* What a job creates repeats nothing that is in use when it is created.
LEMMA NewDraftsStep ==
  ASSUME JobInv, [JobNext]_jobVars, NEW j \in Jobs, NEW m \in MemoryIds,
         At(j, "calling"), At(j, "answered")', ~Exists(m), Exists(m)',
         NEW n \in MemoryIds \ {m}, Exists(n)', status'[n] \in {"draft", "verified"},
         memory'[n].scope = memory'[m].scope
  PROVE  memory'[n].content # memory'[m].content
<1>1. PICK k \in Jobs : FinishJob(k)
  <2>1. CASE [Next]_vars /\ UNCHANGED llmVars
    BY <2>1 DEF llmVars, At
  <2>2. ASSUME UNCHANGED vars PROVE FALSE
    BY <2>2 DEF vars, Exists
  <2>3. Governance => UNCHANGED llmVars
    BY DEF Governance
  <2>4. ASSUME NEW i \in Jobs, NEW s, NEW selected, StartJob(i, s, selected)
        PROVE  UNCHANGED vars
    BY <2>4 DEF StartJob
  <2>5. ASSUME NEW i \in Jobs, CallStep(i) PROVE UNCHANGED vars
    BY <2>5 DEF CallStep, Within
  <2>6. UNCHANGED jobVars => UNCHANGED vars
    BY DEF jobVars
  <2>7. UNCHANGED llmVars => FALSE
    BY DEF llmVars, At
  <2> QED BY <2>2, <2>3, <2>4, <2>5, <2>6, <2>7 DEF JobNext
<1>2. PICK drafts : DraftsSound(k, drafts) /\ \E id \in FreshIds(Len(drafts)) : Store(drafts, id)
  BY <1>1, FinishStores
<1>3. PICK id \in FreshIds(Len(drafts)) : Store(drafts, id)
  BY <1>2
<1>4. /\ DOMAIN id = DOMAIN drafts
      /\ \A a, b \in DOMAIN id : id[a] = id[b] => a = b
  BY <1>2 DEF FreshIds, DraftsSound, IsInjective
<1>5. ASSUME NEW x \in MemoryIds
      PROVE  \/ x \notin Range(id) /\ memory'[x] = memory[x] /\ status'[x] = status[x]
             \/ \E i \in DOMAIN id : id[i] = x /\ memory'[x] = drafts[i]
  <2>1. CASE x \notin Range(id)
    BY <1>3, <2>1 DEF Store
  <2>2. CASE x \in Range(id)
    <3>1. \E i \in DOMAIN id : id[i] = x
      BY <2>2 DEF Range
    <3>2. memory'[x] = drafts[CHOOSE i \in DOMAIN id : id[i] = x]
      BY <1>3, <2>2 DEF Store
    <3> QED BY <3>1, <3>2
  <2> QED BY <2>1, <2>2
<1>6. PICK i \in DOMAIN id : id[i] = m /\ memory'[m] = drafts[i]
  BY <1>5 DEF Exists
<1>7. CASE n \notin Range(id) /\ memory'[n] = memory[n] /\ status'[n] = status[n]
  <2>1. memory[n].scope = job[k].scope
    BY <1>2, <1>4, <1>6, <1>7 DEF DraftsSound
  <2>2. n \in MemoriesOf(job[k].scope) /\ status[n] \in {"draft", "verified"}
    BY <1>7, <2>1 DEF MemoriesOf, Exists
  <2>3. memory[n].content \in Seen(job[k].scope)
    BY <2>2 DEF Seen
  <2> QED BY <1>2, <1>4, <1>6, <1>7, <2>3 DEF DraftsSound
<1>8. ASSUME NEW l \in DOMAIN id, id[l] = n, memory'[n] = drafts[l]
      PROVE  memory'[n].content # memory'[m].content
  BY <1>2, <1>4, <1>6, <1>8 DEF DraftsSound
<1> QED BY <1>5, <1>7, <1>8

\* Whatever a call of the model returns: a draft that it leaves behind repeats
\* no draft, no verified memory and no other draft of its batch.
THEOREM NewDraftsAlwaysNew == JobSpec => NewDraftsAreNew
<1>1. JobInv /\ [JobNext]_jobVars =>
        \A j \in Jobs, m \in MemoryIds :
          (At(j, "calling") /\ At(j, "answered")' /\ ~Exists(m) /\ Exists(m)') =>
            \A n \in MemoryIds \ {m} :
              (/\ Exists(n)' /\ status'[n] \in {"draft", "verified"}
               /\ memory'[n].scope = memory'[m].scope)
                => memory'[n].content # memory'[m].content
  BY NewDraftsStep
<1> QED BY <1>1, JobsSound, PTL DEF JobSpec, NewDraftsAreNew

=============================================================================
