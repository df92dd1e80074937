-------------------------- MODULE MemoryGovernance --------------------------
(***************************************************************************)
(* Evidence and the memories derived from it: capture, proposal, review,   *)
(* rule-based publication, feedback, retention, renewal and deletion.      *)
(*                                                                         *)
(* The service is one Node process over a synchronous SQLite connection:   *)
(* every handler part between two awaits runs alone, so it is one action   *)
(* here.  A crash can still fall between two autocommitted statements of   *)
(* one handler: the sweeps and the renewal take the statements that were   *)
(* committed as a parameter.                                               *)
(*                                                                         *)
(* An evidence id can be captured again after its deletion (the client     *)
(* chooses ids).  ReuseIds = FALSE is the environment that never does so;  *)
(* some guarantees of the code hold only there.                            *)
(***************************************************************************)
EXTENDS Lifecycle, Integers

CONSTANTS
  MemoryIds, EvidenceIds, Scopes, Contents, Sessions,
  Roles,           \* EvidenceRole
  AllowedRoles,    \* AutoVerifyConfig.allowedEvidenceRoles
  MultiSession,    \* AutoVerifyConfig.requireMultiSession
  NoEvidence,      \* the evidence row does not exist
  NoProposal,      \* the memory row does not exist
  NoSession,       \* originSessionId absent
  DraftTtl,        \* days of archiveStaleDrafts, in ticks
  MaxTime,         \* bound on the clock
  ReuseIds         \* may an evidence id be captured again after deletion?

Times      == 0..MaxTime
NoExpiry   == -1                  \* governance.validUntil absent
Evidence   == [scope : Scopes, role : Roles, content : Contents,
               origin : Sessions \cup {NoSession}]
\* The immutable part of a memory row.  "fit" is the verdict of the rules
\* that look at the proposal alone: normal sensitivity, an allowed layer and
\* enough confidence.
Proposal   == [scope : Scopes, sources : SUBSET EvidenceIds,
               content : Contents, fit : BOOLEAN]

ASSUME MemoryAssumption ==
  /\ MaxTime \in Nat
  /\ DraftTtl \in Nat \ {0}
  /\ AllowedRoles \subseteq Roles
  /\ ReuseIds \in BOOLEAN
  /\ MultiSession \in BOOLEAN
  /\ NoSession \notin Sessions
  /\ NoEvidence \notin Evidence
  /\ NoProposal \notin Proposal

VARIABLES
  evidence,    \* evidence[e]: the row of table evidence, or NoEvidence
  captured,    \* history: ids that were captured at least once
  memory,      \* memory[m]: the immutable part of the row, or NoProposal
  links,       \* table memory_evidence
  status,      \* governance.status, "absent" when there is no row
  verifiedBy,  \* governance.verifiedBy, "none" when the field is absent
  validUntil,  \* governance.validUntil
  updatedAt,   \* governance.updatedAt
  disputed,    \* history: memories called incorrect or outdated after they had
               \* left the review queue
  now

governance == <<status, verifiedBy, validUntil, updatedAt>>
vars == <<evidence, captured, memory, links, governance, disputed, now>>

TypeOK ==
  /\ evidence   \in [EvidenceIds -> Evidence \cup {NoEvidence}]
  /\ captured   \subseteq EvidenceIds
  /\ memory     \in [MemoryIds -> Proposal \cup {NoProposal}]
  /\ links      \subseteq MemoryIds \X EvidenceIds
  /\ status     \in [MemoryIds -> Statuses \cup {"absent"}]
  /\ verifiedBy \in [MemoryIds -> {"none", "auto", "manual"}]
  /\ validUntil \in [MemoryIds -> Times \cup {NoExpiry}]
  /\ updatedAt  \in [MemoryIds -> Times]
  /\ disputed   \subseteq MemoryIds
  /\ now        \in Times

Init ==
  /\ evidence   = [e \in EvidenceIds |-> NoEvidence]
  /\ captured   = {}
  /\ memory     = [m \in MemoryIds |-> NoProposal]
  /\ links      = {}
  /\ status     = [m \in MemoryIds |-> "absent"]
  /\ verifiedBy = [m \in MemoryIds |-> "none"]
  /\ validUntil = [m \in MemoryIds |-> NoExpiry]
  /\ updatedAt  = [m \in MemoryIds |-> 0]
  /\ disputed   = {}
  /\ now        = 0

-----------------------------------------------------------------------------
Live(e)           == evidence[e] # NoEvidence
LiveIn(e, s)      == Live(e) /\ evidence[e].scope = s      \* getEvidenceScoped
Exists(m)         == memory[m] # NoProposal
MemoriesOf(s)     == {m \in MemoryIds : Exists(m) /\ memory[m].scope = s}
Derived(e)        == {m \in MemoryIds : <<m, e>> \in links}
WithStatus(S, st) == {m \in S : status[m] = st}

\* updateMemoryStatus: one UPDATE of governance_json per asset.
WriteStatus(S, target, by) ==
  /\ status'     = [m \in MemoryIds |-> IF m \in S THEN target ELSE status[m]]
  /\ updatedAt'  = [m \in MemoryIds |-> IF m \in S THEN now ELSE updatedAt[m]]
  /\ verifiedBy' = [m \in MemoryIds |-> IF m \in S /\ target = "verified"
                                          THEN by ELSE verifiedBy[m]]

\* POST /v1/evidence.  Capturing an id that exists changes nothing: it is
\* returned when scope, role and content agree and refused otherwise.
Capture(e, row) ==
  /\ ~Live(e)
  /\ ReuseIds \/ e \notin captured
  /\ evidence' = [evidence EXCEPT ![e] = row]
  /\ captured' = captured \cup {e}
  /\ UNCHANGED <<memory, links, governance, disputed, now>>

\* insertMemory: the row and its links in one transaction.
InsertMemory(m, p, until) ==
  /\ ~Exists(m)
  /\ memory'     = [memory EXCEPT ![m] = p]
  /\ links'      = links \cup ({m} \X p.sources)
  /\ status'     = [status EXCEPT ![m] = "draft"]
  /\ updatedAt'  = [updatedAt EXCEPT ![m] = now]
  /\ validUntil' = [validUntil EXCEPT ![m] = until]
  /\ UNCHANGED <<evidence, captured, verifiedBy, disputed, now>>

\* Mutant of Propose: the scope of the sources is not compared.
ProposeAcrossScopes(m, p, until) ==
  /\ p.sources # {}
  /\ \A e \in p.sources : Live(e)
  /\ InsertMemory(m, p, until)

\* MemoryService.propose: every source must exist in the scope of the memory.
Propose(m, p, until) ==
  /\ p.sources # {}
  /\ \A e \in p.sources : LiveIn(e, p.scope)
  /\ InsertMemory(m, p, until)

\* Mutant of Transition: transitionStatus is not consulted.
TransitionUnchecked(m, target) ==
  /\ Exists(m)
  /\ WriteStatus({m}, target, "manual")
  /\ UNCHANGED <<evidence, captured, memory, links, validUntil, disputed, now>>

\* POST /v1/memories/:id/status, which records a human verification also
\* when the memory is verified already.
Transition(m, target) ==
  /\ Exists(m)
  /\ CanTransition(status[m], target)
  /\ WriteStatus({m}, target, "manual")
  /\ UNCHANGED <<evidence, captured, memory, links, validUntil, disputed, now>>

\* evaluateAutoVerify on the sources that still exist in the scope of the
\* memory (sourceEvidence drops the others).
SourceEvidence(m) ==
  {evidence[e] : e \in {f \in memory[m].sources : LiveIn(f, memory[m].scope)}}

DistinctSessions(rows) == {row.origin : row \in rows} \ {NoSession}

RulesPass(m) ==
  LET rows == SourceEvidence(m) IN
  /\ memory[m].fit
  /\ rows # {}
  /\ \A row \in rows : row.role \in AllowedRoles
  /\ \E row \in rows : row.content = memory[m].content
  /\ MultiSession => \E a, b \in DistinctSessions(rows) : a # b

\* AutoVerifyService.verifyCreated for one new draft, evaluateDrafts for all
\* the drafts of a scope.
AutoVerify(S) ==
  /\ S # {}
  /\ WriteStatus(S, "verified", "auto")
  /\ UNCHANGED <<evidence, captured, memory, links, validUntil, disputed, now>>

VerifyCreated(m) ==
  /\ status[m] = "draft"
  /\ RulesPass(m)
  /\ AutoVerify({m})

\* Mutant of EvaluateDrafts: what was withdrawn is evaluated anew as well.
EvaluateWithdrawn(s) ==
  AutoVerify({m \in MemoriesOf(s) : status[m] \in {"draft", "deprecated"} /\ RulesPass(m)})

EvaluateDrafts(s) ==
  AutoVerify({m \in WithStatus(MemoriesOf(s), "draft") : RulesPass(m)})

\* POST /v1/feedback with kind incorrect or outdated, up to its answer: the
\* record is inserted, then shouldAutoDeprecateFromFeedback decides.  When the
\* process dies between the two, only the record is there and nobody has an
\* answer.  A memory of any status can be disputed; the rules do not look at
\* what was said of a draft.
NegativeFeedback(m) ==
  /\ Exists(m)
  /\ disputed' = IF status[m] = "draft" THEN disputed ELSE disputed \cup {m}
  /\ IF status[m] = "verified" /\ verifiedBy[m] = "auto"
       THEN WriteStatus({m}, "deprecated", "manual")
       ELSE UNCHANGED <<status, verifiedBy, updatedAt>>
  /\ UNCHANGED <<evidence, captured, memory, links, validUntil, now>>

\* Mutant of DeleteEvidence: foreign keys are off, the links stay.
DeleteWithoutCascade(e, s) ==
  LET hit == WithStatus(Derived(e), "verified") IN
  /\ LiveIn(e, s)
  /\ WriteStatus(hit, "deprecated", "manual")
  /\ evidence' = [evidence EXCEPT ![e] = NoEvidence]
  /\ UNCHANGED <<captured, memory, links, validUntil, disputed, now>>

\* Mutant of DeleteEvidence: only memories a human published are withdrawn.
DeleteSparesAuto(e, s) ==
  LET hit == {m \in WithStatus(Derived(e), "verified") : verifiedBy[m] = "manual"} IN
  /\ LiveIn(e, s)
  /\ WriteStatus(hit, "deprecated", "manual")
  /\ evidence' = [evidence EXCEPT ![e] = NoEvidence]
  /\ links'    = links \ (MemoryIds \X {e})
  /\ UNCHANGED <<captured, memory, validUntil, disputed, now>>

\* DELETE /v1/evidence/:id.  The assets are found through memory_evidence,
\* and deleting the row cascades to the links.
DeleteEvidence(e, s) ==
  LET hit == WithStatus(Derived(e), "verified") IN
  /\ LiveIn(e, s)
  /\ WriteStatus(hit, "deprecated", "manual")
  /\ evidence' = [evidence EXCEPT ![e] = NoEvidence]
  /\ links'    = links \ (MemoryIds \X {e})
  /\ UNCHANGED <<captured, memory, validUntil, disputed, now>>

\* ImpactAnalysis.evidenceDeletion: the memories announced to be withdrawn.
\* It reads the sources of the rows, not memory_evidence.
Impact(e, s) ==
  {m \in WithStatus(MemoriesOf(s), "verified") : e \in memory[m].sources}

Expired(m)       == validUntil[m] # NoExpiry /\ validUntil[m] < now
ExpiredIn(s)     == {m \in WithStatus(MemoriesOf(s), "verified") : Expired(m)}
\* Mutant of StaleDraftsIn: the cutoff is compared the wrong way round.
FreshDraftsIn(s) == {m \in WithStatus(MemoriesOf(s), "draft") :
                        updatedAt[m] > now - DraftTtl}

StaleDraftsIn(s) == {m \in WithStatus(MemoriesOf(s), "draft") :
                        updatedAt[m] < now - DraftTtl}

\* deprecateExpired; "done" is what the sweep committed before it ended or
\* the process died.
DeprecateExpired(s, done) ==
  /\ done \subseteq ExpiredIn(s) /\ done # {}
  /\ WriteStatus(done, "deprecated", "manual")
  /\ UNCHANGED <<evidence, captured, memory, links, validUntil, disputed, now>>

\* archiveStaleDrafts, memory half.
ArchiveStaleDrafts(s, done) ==
  /\ done \subseteq StaleDraftsIn(s) /\ done # {}
  /\ WriteStatus(done, "archived", "manual")
  /\ UNCHANGED <<evidence, captured, memory, links, validUntil, disputed, now>>

\* renewMemory writes the validity and then, for a deprecated memory whose
\* new limit is in the future, the status.  "finished" is FALSE when the
\* process dies between the two.
RenewMemory(m, until, finished) ==
  /\ status[m] \in {"verified", "deprecated"}
  /\ validUntil' = [validUntil EXCEPT ![m] = until]
  /\ IF /\ finished
        /\ status[m] = "deprecated"
        /\ until = NoExpiry \/ until > now
       THEN WriteStatus({m}, "verified", "manual")
       ELSE /\ updatedAt' = [updatedAt EXCEPT ![m] = now]
            /\ UNCHANGED <<status, verifiedBy>>
  /\ UNCHANGED <<evidence, captured, memory, links, disputed, now>>

\* The clock of the process, bounded by MaxTime.
Tick ==
  /\ now < MaxTime
  /\ now' = now + 1
  /\ UNCHANGED <<evidence, captured, memory, links, governance, disputed>>

Review ==
  \E m \in MemoryIds :
     \/ \E target \in Statuses : Transition(m, target)
     \/ \E until \in Times \cup {NoExpiry}, finished \in BOOLEAN :
          RenewMemory(m, until, finished)

Rules == \/ \E m \in MemoryIds : VerifyCreated(m)
         \/ \E s \in Scopes : EvaluateDrafts(s)

Sweeps(s) == \E done \in SUBSET MemoryIds :
               DeprecateExpired(s, done) \/ ArchiveStaleDrafts(s, done)

Next ==
  \/ \E e \in EvidenceIds, row \in Evidence : Capture(e, row)
  \/ \E m \in MemoryIds, p \in Proposal, until \in Times \cup {NoExpiry} :
       Propose(m, p, until)
  \/ Review
  \/ Rules
  \/ \E m \in MemoryIds : NegativeFeedback(m)
  \/ \E e \in EvidenceIds, s \in Scopes : DeleteEvidence(e, s)
  \/ \E s \in Scopes : Sweeps(s)
  \/ Tick

Spec == Init /\ [][Next]_vars

\* npm run governance:sweep, driven by an external cron, archives every
\* draft it finds stale.
SweepDrafts(s) == ArchiveStaleDrafts(s, StaleDraftsIn(s))

FairSpec == Spec /\ WF_vars(Tick) /\ \A s \in Scopes : WF_vars(SweepDrafts(s))
-----------------------------------------------------------------------------
\* A memory_evidence row joins rows that exist and agree on the scope, and
\* only ever comes from the sources of the memory.  deleteEvidenceAndPropagate
\* follows these rows without looking at the scope of the memory.
LinksSound ==
  \A m \in MemoryIds, e \in EvidenceIds :
    <<m, e>> \in links =>
       /\ Exists(m)
       /\ e \in memory[m].sources
       /\ LiveIn(e, memory[m].scope)

\* Once a published or withdrawn memory was called incorrect or outdated, it
\* is never again in service by the rules alone: if it is in service, then a
\* person put it there, whatever feedback, evaluations, reviews, renewals,
\* deletions and sweeps came before and after (http-server.ts:582).
DisputedNeedsHuman ==
  \A m \in disputed : status[m] = "verified" => verifiedBy[m] = "manual"

\* Deleting evidence in one scope never touches a memory of another scope,
\* although evidence ids are global and can be captured again elsewhere.
DeletionInScope ==
  [][\A e \in EvidenceIds, s \in Scopes : DeleteEvidence(e, s) =>
       \A m \in MemoryIds :
         (Exists(m) /\ memory[m].scope # s) => status'[m] = status[m]]_vars

\* A deletion withdraws every verified memory that names the evidence as a
\* source (the promise of deleteEvidenceAndPropagate and of docs/api.md), and
\* what POST /v1/evidence/:id/impact announced before it, no more and no less,
\* although the preview follows the sources of the rows and the deletion the
\* links.  Holds while evidence ids are not reused.
DeletionWithdraws ==
  [][\A e \in EvidenceIds, s \in Scopes : DeleteEvidence(e, s) =>
       /\ {m \in MemoryIds : status[m] = "verified" /\ status'[m] # "verified"} = Impact(e, s)
       /\ \A m \in MemoryIds :
            Exists(m) /\ e \in memory[m].sources => status'[m] # "verified"]_vars

\* A memory in service by the rules alone still satisfies them: neither the
\* deletion of a source, nor a capture, renewal or review, can leave in recall
\* a rule-published memory whose evidence no longer supports it.  Holds while
\* evidence ids are not reused.
AutoVerifiedBacked ==
  \A m \in MemoryIds :
    (status[m] = "verified" /\ verifiedBy[m] = "auto") => RulesPass(m)

\* The memories implement the abstract lifecycle.
Governed == INSTANCE GovernedAssets
              WITH Assets <- MemoryIds, publisher <- verifiedBy
ImplementsGovernedAssets == Governed!Spec

\* With the sweep running, a draft nobody touches leaves the review queue:
\* each draft is at last published, rejected or archived, or was updated so
\* late that its time to live ends after the bounded clock (archiveStaleDrafts).
DraftsLeaveQueue ==
  \A m \in MemoryIds :
    (status[m] = "draft" /\ updatedAt[m] + DraftTtl < MaxTime)
      ~> (status[m] # "draft" \/ updatedAt[m] + DraftTtl >= MaxTime)

=============================================================================
