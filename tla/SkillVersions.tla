---------------------------- MODULE SkillVersions ----------------------------
(***************************************************************************)
(* Skills and their versions: creation, optimistic updates by concurrent   *)
(* authors, review, rollback, evidence deletion and the draft sweep.       *)
(*                                                                         *)
(* Table skills keeps one row per skill, with the current version and its  *)
(* status; table skill_versions keeps every version ever written, with a   *)
(* snapshot of its status.  Every handler is one synchronous part and      *)
(* every write one transaction, so each is an action; what interleaves is  *)
(* what clients do between reading a skill and acting on what they read.   *)
(*                                                                         *)
(* Whether a draft is stale is left to chance: nothing else here depends   *)
(* on time.                                                                *)
(***************************************************************************)
EXTENDS Lifecycle, Integers

CONSTANTS
  Skills, Names, Scopes, EvidenceIds, Clients,
  Descriptions, Bodies,
  MaxVersion,      \* bound on the versions of a skill
  NoEvidence,      \* the evidence row does not exist
  NoRow,           \* the skill_versions row does not exist
  ReuseIds         \* may an evidence id be captured again after deletion?

Versions == 1..MaxVersion
\* SKILL.md: the description its frontmatter declares, and the rest.
Content  == [description : Descriptions, body : Bodies]
Row      == [content : Content, status : Statuses]

ASSUME SkillAssumption ==
  /\ MaxVersion \in Nat \ {0}
  /\ ReuseIds \in BOOLEAN
  /\ NoEvidence \notin Scopes
  /\ NoRow \notin Row
  /\ Descriptions # {}

VARIABLES
  evidence,     \* evidence[e]: the scope of the row, or NoEvidence
  captured,     \* history: ids captured at least once
  current,      \* skills.current_version, 0 when there is no row
  identity,     \* scope and name of a skill
  description,  \* skills.description
  status,       \* skills.status, "absent" when there is no row
  sources,      \* skills.sources_json
  links,        \* table skill_evidence
  rows,         \* table skill_versions
  published,    \* history: the versions that were ever verified
  seen,         \* seen[c][k]: the version of k that client c read last
  basis         \* history: the version its writer had read when writing it

skillRow == <<current, identity, description, status, sources>>
vars == <<evidence, captured, skillRow, links, rows, published, seen, basis>>

TypeOK ==
  /\ evidence    \in [EvidenceIds -> Scopes \cup {NoEvidence}]
  /\ captured    \subseteq EvidenceIds
  /\ current     \in [Skills -> 0..MaxVersion]
  /\ identity    \in [Skills -> [scope : Scopes, name : Names]]
  /\ description \in [Skills -> Descriptions]
  /\ status      \in [Skills -> Statuses \cup {"absent"}]
  /\ sources     \in [Skills -> SUBSET EvidenceIds]
  /\ links       \subseteq Skills \X EvidenceIds
  /\ rows        \in [Skills -> [Versions -> Row \cup {NoRow}]]
  /\ published   \in [Skills -> SUBSET Versions]
  /\ seen        \in [Clients -> [Skills -> 0..MaxVersion]]
  /\ basis       \in [Skills -> [Versions -> 0..MaxVersion]]

Init ==
  /\ evidence    = [e \in EvidenceIds |-> NoEvidence]
  /\ captured    = {}
  /\ current     = [k \in Skills |-> 0]
  /\ identity    \in [Skills -> [scope : Scopes, name : Names]]
  /\ description = [k \in Skills |-> CHOOSE d \in Descriptions : TRUE]
  /\ status      = [k \in Skills |-> "absent"]
  /\ sources     = [k \in Skills |-> {}]
  /\ links       = {}
  /\ rows        = [k \in Skills |-> [v \in Versions |-> NoRow]]
  /\ published   = [k \in Skills |-> {}]
  /\ seen        = [c \in Clients |-> [k \in Skills |-> 0]]
  /\ basis       = [k \in Skills |-> [v \in Versions |-> 0]]

-----------------------------------------------------------------------------
Live(e)      == evidence[e] # NoEvidence
LiveIn(e, s) == Live(e) /\ evidence[e] = s           \* getEvidenceScoped
Exists(k)    == current[k] > 0
Derived(e)   == {k \in Skills : <<k, e>> \in links}
Open(k)      == Exists(k) /\ status[k] \notin {"archived", "rejected"}

\* POST /v1/evidence, as far as skills see it.
Capture(e, s) ==
  /\ ~Live(e)
  /\ ReuseIds \/ e \notin captured
  /\ evidence' = [evidence EXCEPT ![e] = s]
  /\ captured' = captured \cup {e}
  /\ UNCHANGED <<skillRow, links, rows, published, seen, basis>>

\* The links of k are replaced by links to the given sources.
Relink(k, srcs) == (links \ ({k} \X EvidenceIds)) \cup ({k} \X srcs)

\* Mutant of WriteVersion: the links of the previous version are kept.
WriteVersionKeepLinks(k, content, srcs, base) ==
  LET next == current[k] + 1 IN
  /\ next \in Versions
  /\ current' = [current EXCEPT ![k] = next]
  /\ status'  = [status EXCEPT ![k] = "draft"]
  /\ sources' = [sources EXCEPT ![k] = srcs]
  /\ rows'    = [rows EXCEPT ![k][next] = [content |-> content, status |-> "draft"]]
  /\ basis'   = [basis EXCEPT ![k][next] = base]
  /\ UNCHANGED <<evidence, captured, identity, published, links>>

\* insertSkill and appendSkillVersion: a new draft version becomes current.
\* "base" is the version its writer had in hand.
WriteVersion(k, content, srcs, base) ==
  LET next == current[k] + 1 IN
  /\ next \in Versions
  /\ current' = [current EXCEPT ![k] = next]
  /\ status'  = [status EXCEPT ![k] = "draft"]
  /\ sources' = [sources EXCEPT ![k] = srcs]
  /\ links'   = Relink(k, srcs)
  /\ rows'    = [rows EXCEPT ![k][next] = [content |-> content, status |-> "draft"]]
  /\ basis'   = [basis EXCEPT ![k][next] = base]
  /\ UNCHANGED <<evidence, captured, identity, published>>

\* SkillService.create.  validateSkillContent makes the description field and
\* the frontmatter agree; a name is unique in its scope (skills_scope_name).
Create(c, k, content, srcs) ==
  /\ ~Exists(k)
  /\ \A j \in Skills \ {k} : Exists(j) => identity[j] # identity[k]
  /\ \A e \in srcs : LiveIn(e, identity[k].scope)
  /\ WriteVersion(k, content, srcs, 0)
  /\ description' = [description EXCEPT ![k] = content.description]
  /\ seen'        = [seen EXCEPT ![c][k] = 1]

\* A client reads the skill and keeps the version number.
Read(c, k) ==
  /\ Exists(k)
  /\ seen' = [seen EXCEPT ![c][k] = current[k]]
  /\ UNCHANGED <<evidence, captured, skillRow, links, rows, published, basis>>

\* Mutant of Update: the expected version is not compared.
UpdateBlindly(c, k, content, srcs) ==
  /\ Open(k)
  /\ seen[c][k] > 0
  /\ \A e \in srcs : LiveIn(e, identity[k].scope)
  /\ WriteVersion(k, content, srcs, seen[c][k])
  /\ description' = [description EXCEPT ![k] = content.description]
  /\ seen'        = [seen EXCEPT ![c][k] = current[k] + 1]

\* PUT /v1/skills/:id with the version the client read as expectedVersion:
\* a stale one is refused with a conflict.
Update(c, k, content, srcs) ==
  /\ Open(k)
  /\ \A e \in srcs : LiveIn(e, identity[k].scope)
  /\ seen[c][k] = current[k]
  /\ WriteVersion(k, content, srcs, seen[c][k])
  /\ description' = [description EXCEPT ![k] = content.description]
  /\ seen'        = [seen EXCEPT ![c][k] = current[k] + 1]

\* Mutant of Rollback: the version rolled back to is made current again.
RollbackInPlace(k, v) ==
  /\ Open(k)
  /\ v \in Versions /\ rows[k][v] # NoRow
  /\ v # current[k]
  /\ current' = [current EXCEPT ![k] = v]
  /\ status'  = [status EXCEPT ![k] = "draft"]
  /\ rows'    = [rows EXCEPT ![k][v].status = "draft"]
  /\ UNCHANGED <<evidence, captured, identity, description, sources, links,
                 published, seen, basis>>

\* POST /v1/skills/:id/rollback: the old content is appended as a new draft,
\* with the sources of the current version that still exist, in whatever
\* scope.  The description field stays as it is.
Rollback(k, v) ==
  /\ Open(k)
  /\ v \in Versions /\ rows[k][v] # NoRow
  /\ v # current[k]
  /\ WriteVersion(k, rows[k][v].content, {e \in sources[k] : Live(e)}, current[k])
  /\ UNCHANGED <<description, seen>>

\* Mutant of SetStatus: only table skills is written.
SetStatusOfSkill(S, target) ==
  /\ status'    = [k \in Skills |-> IF k \in S THEN target ELSE status[k]]
  /\ published' = [k \in Skills |-> IF k \in S /\ target = "verified"
                                      THEN published[k] \cup {current[k]}
                                      ELSE published[k]]
  /\ UNCHANGED rows

\* Mutant of SetStatus: every version takes the status of the skill.
SetStatusOfAllRows(S, target) ==
  /\ status'    = [k \in Skills |-> IF k \in S THEN target ELSE status[k]]
  /\ rows'      = [k \in Skills |-> [v \in Versions |->
                     IF k \in S /\ rows[k][v] # NoRow
                       THEN [rows[k][v] EXCEPT !.status = target]
                       ELSE rows[k][v]]]
  /\ published' = [k \in Skills |-> IF k \in S /\ target = "verified"
                                      THEN published[k] \cup {current[k]}
                                      ELSE published[k]]

\* updateSkillStatus, and the same two UPDATEs in the deletion: the skill and
\* the row of its current version change together.
SetStatus(S, target) ==
  /\ status'    = [k \in Skills |-> IF k \in S THEN target ELSE status[k]]
  /\ rows'      = [k \in Skills |-> IF k \in S
                     THEN [rows[k] EXCEPT ![current[k]].status = target]
                     ELSE rows[k]]
  /\ published' = [k \in Skills |-> IF k \in S /\ target = "verified"
                                      THEN published[k] \cup {current[k]}
                                      ELSE published[k]]

\* POST /v1/skills/:id/status: whatever version is current when it arrives.
Transition(k, target) ==
  /\ Exists(k)
  /\ CanTransition(status[k], target)
  /\ SetStatus({k}, target)
  /\ UNCHANGED <<evidence, captured, current, identity, description, sources,
                 links, seen, basis>>

\* deleteEvidenceAndPropagate, skill half.
DeleteEvidence(e, s) ==
  /\ LiveIn(e, s)
  /\ SetStatus({k \in Derived(e) : status[k] = "verified"}, "deprecated")
  /\ evidence' = [evidence EXCEPT ![e] = NoEvidence]
  /\ links'    = links \ (Skills \X {e})
  /\ UNCHANGED <<captured, current, identity, description, sources, seen, basis>>

\* ImpactAnalysis.evidenceDeletion: the skills announced to be withdrawn.
Impact(e, s) ==
  {k \in Skills : Exists(k) /\ identity[k].scope = s /\ status[k] = "verified"
                  /\ e \in sources[k]}

\* archiveStaleDrafts, skill half; "done" is what was committed before the
\* sweep ended or the process died.
ArchiveStaleDrafts(s, done) ==
  /\ done # {}
  /\ \A k \in done : status[k] = "draft" /\ identity[k].scope = s
  /\ SetStatus(done, "archived")
  /\ UNCHANGED <<evidence, captured, current, identity, description, sources,
                 links, seen, basis>>

Next ==
  \/ \E e \in EvidenceIds, s \in Scopes : Capture(e, s) \/ DeleteEvidence(e, s)
  \/ \E c \in Clients, k \in Skills :
       \/ Read(c, k)
       \/ \E content \in Content, srcs \in SUBSET EvidenceIds :
            Create(c, k, content, srcs) \/ Update(c, k, content, srcs)
  \/ \E k \in Skills : \/ \E v \in Versions : Rollback(k, v)
                       \/ \E target \in Statuses : Transition(k, target)
  \/ \E s \in Scopes, done \in SUBSET Skills : ArchiveStaleDrafts(s, done)

Spec == Init /\ [][Next]_vars

-----------------------------------------------------------------------------
\* pickPublishedBaseline: the newest version before v whose snapshot says it
\* was published; 0 when there is none.
Max0(S) == IF S = {} THEN 0 ELSE CHOOSE v \in S : \A w \in S : w <= v

PublishedBaseline(k, v) ==
  Max0({w \in Versions : /\ w < v
                         /\ rows[k][w] # NoRow
                         /\ rows[k][w].status \in {"verified", "deprecated"}})

\* The two tables agree: the versions of a skill are numbered without a gap
\* up to the current one, whose snapshot is the status of the skill.
CurrentRow ==
  \A k \in Skills :
    /\ \A v \in Versions : rows[k][v] # NoRow <=> v <= current[k]
    /\ Exists(k) => rows[k][current[k]].status = status[k]

\* The default baseline of a diff is the newest earlier version that was ever
\* in service, however often skills were updated, rolled back, deprecated or
\* restored since.
BaselineIsLastPublished ==
  \A k \in Skills, v \in Versions :
    v <= current[k] =>
      PublishedBaseline(k, v) = Max0({w \in published[k] : w < v})

\* Every version was written by someone who had the previous one in hand: two
\* authors who read the same version never both succeed.
NoLostUpdate ==
  \A k \in Skills, v \in Versions :
    v <= current[k] => basis[k][v] = v - 1

\* Versions are never rewritten: the content of a row is fixed once written,
\* and so is its status once it is superseded.
HistoryFrozen ==
  [][\A k \in Skills, v \in Versions :
       rows[k][v] # NoRow =>
         /\ rows'[k][v] # NoRow
         /\ rows'[k][v].content = rows[k][v].content
         /\ v < current[k] => rows'[k][v] = rows[k][v]]_vars

\* Deleting evidence withdraws every verified skill that names it (docs/api.md),
\* also when the sources were carried over by a rollback, and no other: those
\* the preview announced, although it follows the sources of the skills in the
\* scope and the deletion the links.  Holds while evidence ids are not reused.
DeletionWithdraws ==
  [][\A e \in EvidenceIds, s \in Scopes : DeleteEvidence(e, s) =>
       /\ {k \in Skills : status[k] = "verified" /\ status'[k] # "verified"} = Impact(e, s)
       /\ \A k \in Skills : Exists(k) /\ e \in sources[k] => status'[k] # "verified"]_vars

\* Each version, taken as an asset, follows the abstract lifecycle; only
\* reviewers publish skills.
VersionStatus == [a \in Skills \X Versions |->
                    IF rows[a[1]][a[2]] = NoRow THEN "absent"
                                                ELSE rows[a[1]][a[2]].status]
VersionPublisher == [a \in Skills \X Versions |->
                       IF a[2] \in published[a[1]] THEN "manual" ELSE "none"]
Governed == INSTANCE GovernedAssets
              WITH Assets    <- Skills \X Versions,
                   status    <- VersionStatus,
                   publisher <- VersionPublisher
ImplementsGovernedAssets == Governed!Spec

=============================================================================
