------------------------ MODULE SkillVersions_proof ------------------------
(***************************************************************************)
(* Proofs about SkillVersions for every number of skills, clients, scopes  *)
(* and versions, whether evidence ids are reused or not; and about the     *)
(* diff of two versions (SkillDiff) for all texts, bodies and fields.      *)
(***************************************************************************)
EXTENDS MCSkills, Induction

\* WriteVersion, the one writer of versions, keeps the types.
LEMMA WriteVersionType ==
  ASSUME TypeOK, NEW k \in Skills, NEW content \in Content,
         NEW srcs \in SUBSET EvidenceIds, NEW base \in 0..MaxVersion,
         WriteVersion(k, content, srcs, base)
  PROVE  /\ current[k] + 1 \in Versions
         /\ current' = [current EXCEPT ![k] = current[k] + 1]
         /\ current' \in [Skills -> 0..MaxVersion]
         /\ status'  \in [Skills -> Statuses \cup {"absent"}]
         /\ sources' \in [Skills -> SUBSET EvidenceIds]
         /\ links'   \subseteq Skills \X EvidenceIds
         /\ rows'    \in [Skills -> [Versions -> Row \cup {NoRow}]]
         /\ basis'   \in [Skills -> [Versions -> 0..MaxVersion]]
<1>1. [content |-> content, status |-> "draft"] \in Row
  BY DEF Row, Statuses
<1>2. rows' \in [Skills -> [Versions -> Row \cup {NoRow}]]
  BY <1>1 DEF TypeOK, WriteVersion
<1>3. basis' \in [Skills -> [Versions -> 0..MaxVersion]]
  BY DEF TypeOK, WriteVersion
<1>4. links' \subseteq Skills \X EvidenceIds
  BY DEF TypeOK, WriteVersion, Relink
<1> QED
  BY <1>2, <1>3, <1>4, SkillAssumption DEF TypeOK, WriteVersion, Versions, Statuses

\* SetStatus, the one writer of statuses, keeps the types.
LEMMA SetStatusType ==
  ASSUME TypeOK, NEW S \in SUBSET Skills, NEW target \in Statuses,
         \A k \in S : current[k] \in Versions /\ rows[k][current[k]] # NoRow,
         SetStatus(S, target)
  PROVE  /\ status'    \in [Skills -> Statuses \cup {"absent"}]
         /\ rows'      \in [Skills -> [Versions -> Row \cup {NoRow}]]
         /\ published' \in [Skills -> SUBSET Versions]
<1>1. rows' \in [Skills -> [Versions -> Row \cup {NoRow}]]
  <2> SUFFICES ASSUME NEW k \in Skills, k \in S
               PROVE  [rows[k] EXCEPT ![current[k]].status = target]
                        \in [Versions -> Row \cup {NoRow}]
    BY DEF TypeOK, SetStatus
  <2>1. rows[k][current[k]] \in Row
    BY DEF TypeOK
  <2>2. [rows[k][current[k]] EXCEPT !.status = target] \in Row
    BY <2>1 DEF Row
  <2> QED BY <2>2 DEF TypeOK
<1> QED BY <1>1 DEF TypeOK, SetStatus

\* What a status belongs to is a row: needed for the types, since a status is
\* written into the row of the current version.
Rowed ==
  \A k \in Skills :
    /\ \A v \in Versions : rows[k][v] # NoRow <=> v <= current[k]
    /\ status[k] # "absent" <=> Exists(k)
    /\ Exists(k) => rows[k][current[k]].status = status[k]

\* Links only name skills that exist, so the deletion writes existing rows.
Linked == \A k \in Skills, e \in EvidenceIds : <<k, e>> \in links => Exists(k)

Sound == TypeOK /\ Rowed /\ Linked

-----------------------------------------------------------------------------
\* The effect of writing a version.
LEMMA WriteVersionSound ==
  ASSUME Sound, NEW k \in Skills, NEW content \in Content,
         NEW srcs \in SUBSET EvidenceIds, NEW base \in 0..MaxVersion,
         WriteVersion(k, content, srcs, base)
  PROVE  Rowed' /\ Linked'
<1>1. /\ current[k] + 1 \in Versions
      /\ current' = [current EXCEPT ![k] = current[k] + 1]
  BY WriteVersionType DEF Sound
<1>2. Rowed'
  <2> SUFFICES ASSUME NEW j \in Skills
               PROVE  /\ \A v \in Versions : rows'[j][v] # NoRow <=> v <= current'[j]
                      /\ status'[j] # "absent" <=> current'[j] > 0
                      /\ current'[j] > 0 => rows'[j][current'[j]].status = status'[j]
    BY DEF Rowed, Exists
  <2>1. CASE j # k
    BY <2>1, <1>1 DEF Sound, TypeOK, Rowed, Exists, WriteVersion
  <2>2. CASE j = k
    <3> DEFINE row == [content |-> content, status |-> "draft"]
    <3>1. row # NoRow
      BY SkillAssumption DEF Row, Statuses
    <3>2. rows'[k] = [rows[k] EXCEPT ![current[k] + 1] = row]
      BY <1>1 DEF Sound, TypeOK, WriteVersion
    <3>3. current'[k] = current[k] + 1 /\ current[k] \in Nat /\ status'[k] = "draft"
      BY <1>1 DEF Sound, TypeOK, WriteVersion
    <3>4. ASSUME NEW v \in Versions PROVE rows'[k][v] # NoRow <=> v <= current'[k]
      <4>1. CASE v = current[k] + 1
        BY <3>1, <3>2, <3>3, <4>1, <1>1 DEF Sound, TypeOK
      <4>2. CASE v # current[k] + 1
        <5>1. rows'[k][v] = rows[k][v]
          BY <3>2, <4>2 DEF Sound, TypeOK
        <5> QED BY <5>1, <3>3, <4>2 DEF Sound, Rowed, Versions
      <4> QED BY <4>1, <4>2
    <3>5. rows'[k][current[k] + 1] = row
      BY <3>2, <1>1 DEF Sound, TypeOK
    <3> QED BY <2>2, <3>3, <3>4, <3>5
  <2> QED BY <2>1, <2>2
<1>3. Linked'
  BY <1>1 DEF Sound, TypeOK, Linked, Exists, WriteVersion, Relink
<1> QED BY <1>2, <1>3

\* The effect of writing a status, when nothing else moves.
LEMMA SetStatusSound ==
  ASSUME Sound, NEW S \in SUBSET Skills, NEW target \in Statuses,
         \A k \in S : Exists(k), SetStatus(S, target), UNCHANGED current
  PROVE  /\ Rowed'
         /\ status'    \in [Skills -> Statuses \cup {"absent"}]
         /\ rows'      \in [Skills -> [Versions -> Row \cup {NoRow}]]
         /\ published' \in [Skills -> SUBSET Versions]
<1>1. \A k \in S : current[k] \in Versions /\ rows[k][current[k]] # NoRow
  BY DEF Sound, TypeOK, Rowed, Exists, Versions
<1>2. Rowed'
  <2> SUFFICES ASSUME NEW j \in Skills
               PROVE  /\ \A v \in Versions : rows'[j][v] # NoRow <=> v <= current[j]
                      /\ status'[j] # "absent" <=> current[j] > 0
                      /\ current[j] > 0 => rows'[j][current[j]].status = status'[j]
    BY DEF Rowed, Exists
  <2>1. CASE j \notin S
    BY <2>1 DEF Sound, TypeOK, Rowed, Exists, SetStatus
  <2>2. CASE j \in S
    <3>1. current[j] \in Versions /\ rows[j][current[j]] \in Row
      BY <1>1, <2>2 DEF Sound, TypeOK
    <3>2. PICK row : row = [rows[j][current[j]] EXCEPT !.status = target]
      OBVIOUS
    <3>3. row \in Row /\ row.status = target
      BY <3>1, <3>2 DEF Row
    <3>4. rows'[j] = [rows[j] EXCEPT ![current[j]] = row]
      BY <2>2, <3>2 DEF Sound, TypeOK, SetStatus
    <3>5. rows[j] \in [Versions -> Row \cup {NoRow}]
      BY DEF Sound, TypeOK
    <3>6. rows'[j][current[j]] = row
      BY <3>1, <3>4, <3>5
    <3>7. \A v \in Versions : v # current[j] => rows'[j][v] = rows[j][v]
      BY <3>4, <3>5
    <3>8. row # NoRow
      BY <3>3, SkillAssumption
    <3>9. status'[j] = target /\ target # "absent"
      BY <2>2 DEF SetStatus, Statuses
    <3>10. \A v \in Versions : rows'[j][v] # NoRow <=> rows[j][v] # NoRow
      BY <1>1, <2>2, <3>6, <3>7, <3>8
    <3>11. \A v \in Versions : rows'[j][v] # NoRow <=> v <= current[j]
      BY <3>10 DEF Sound, Rowed
    <3>12. Exists(j)
      BY <2>2
    <3> QED BY <3>3, <3>6, <3>9, <3>11, <3>12 DEF Exists
  <2> QED BY <2>1, <2>2
<1> QED BY <1>1, <1>2, SetStatusType DEF Sound

-----------------------------------------------------------------------------
\* Whoever sets a status sets it on skills that exist, along the lifecycle.
MayMove(S, target) ==
  \A k \in S : Exists(k) /\ CanTransition(status[k], target)

\* The three operations that set statuses: review, propagation and sweep.
LEMMA StatusSetters ==
  ASSUME Sound
  PROVE  /\ \A k \in Skills, target \in Statuses :
              Transition(k, target) => MayMove({k}, target)
         /\ \A e \in EvidenceIds, s \in Scopes :
              DeleteEvidence(e, s) =>
                MayMove({k \in Derived(e) : status[k] = "verified"}, "deprecated")
         /\ \A s \in Scopes, done \in SUBSET Skills :
              ArchiveStaleDrafts(s, done) => MayMove(done, "archived")
<1>1. ASSUME NEW k \in Skills, NEW target \in Statuses, Transition(k, target)
      PROVE  MayMove({k}, target)
  BY <1>1 DEF Transition, MayMove
<1>2. ASSUME NEW e \in EvidenceIds, NEW s \in Scopes, DeleteEvidence(e, s)
      PROVE  MayMove({k \in Derived(e) : status[k] = "verified"}, "deprecated")
  BY <1>2 DEF MayMove, Derived, Sound, Linked, CanTransition, AllowedTransitions
<1>3. ASSUME NEW s \in Scopes, NEW done \in SUBSET Skills, ArchiveStaleDrafts(s, done)
      PROVE  MayMove(done, "archived")
  <2>1. \A k \in done : status[k] = "draft"
    BY <1>3 DEF ArchiveStaleDrafts
  <2> QED
    BY <2>1 DEF MayMove, Sound, Rowed, CanTransition, AllowedTransitions
<1> QED BY <1>1, <1>2, <1>3

\* Every operation keeps the types and the agreement of the two tables.
LEMMA SoundStep == Sound /\ [Next]_vars => Sound'
<1> SUFFICES ASSUME Sound, [Next]_vars
             PROVE  Sound'
  OBVIOUS
<1>1. ASSUME NEW e \in EvidenceIds, NEW s \in Scopes, Capture(e, s)
      PROVE  Sound'
  BY <1>1 DEF Sound, TypeOK, Rowed, Linked, Exists, Capture, skillRow
<1>2. ASSUME NEW c \in Clients, NEW k \in Skills, Read(c, k)
      PROVE  Sound'
  BY <1>2 DEF Sound, TypeOK, Rowed, Linked, Exists, Read, skillRow
<1>3. ASSUME NEW c \in Clients, NEW k \in Skills, NEW content \in Content,
             NEW srcs \in SUBSET EvidenceIds, Create(c, k, content, srcs)
      PROVE  Sound'
  <2>1. WriteVersion(k, content, srcs, 0) /\ 0 \in 0..MaxVersion
    BY <1>3, SkillAssumption DEF Create
  <2>2. Rowed' /\ Linked'
    BY <2>1, WriteVersionSound
  <2>3. 1 \in 0..MaxVersion /\ content.description \in Descriptions
    BY SkillAssumption DEF Content
  <2>4. TypeOK'
    BY <1>3, <2>1, <2>3, WriteVersionType
       DEF Sound, TypeOK, Create, WriteVersion, Statuses
  <2> QED BY <2>2, <2>4 DEF Sound
<1>4. ASSUME NEW c \in Clients, NEW k \in Skills, NEW content \in Content,
             NEW srcs \in SUBSET EvidenceIds, Update(c, k, content, srcs)
      PROVE  Sound'
  <2>1. WriteVersion(k, content, srcs, seen[c][k]) /\ seen[c][k] \in 0..MaxVersion
    BY <1>4 DEF Update, Sound, TypeOK
  <2>2. Rowed' /\ Linked'
    BY <2>1, WriteVersionSound
  <2>3. current[k] + 1 \in 0..MaxVersion /\ content.description \in Descriptions
    BY <2>1 DEF WriteVersion, Content, Versions
  <2>4. TypeOK'
    BY <1>4, <2>1, <2>3, WriteVersionType
       DEF Sound, TypeOK, Update, WriteVersion, Statuses
  <2> QED BY <2>2, <2>4 DEF Sound
<1>5. ASSUME NEW k \in Skills, NEW v \in Versions, Rollback(k, v)
      PROVE  Sound'
  <2>1. rows[k][v].content \in Content
    BY <1>5 DEF Rollback, Sound, TypeOK, Row
  <2>2. {e \in sources[k] : Live(e)} \in SUBSET EvidenceIds
        /\ current[k] \in 0..MaxVersion
    BY DEF Sound, TypeOK
  <2>3. WriteVersion(k, rows[k][v].content, {e \in sources[k] : Live(e)}, current[k])
    BY <1>5 DEF Rollback
  <2>4. Rowed' /\ Linked'
    BY <2>1, <2>2, <2>3, WriteVersionSound
  <2>5. TypeOK'
    BY <1>5, <2>1, <2>2, <2>3, WriteVersionType
       DEF Sound, TypeOK, Rollback, WriteVersion, Statuses
  <2> QED BY <2>4, <2>5 DEF Sound
<1>6. ASSUME NEW k \in Skills, NEW target \in Statuses, Transition(k, target)
      PROVE  Sound'
  <2>1. SetStatus({k}, target) /\ (\A j \in {k} : Exists(j)) /\ UNCHANGED current
    BY <1>6 DEF Transition
  <2> QED
    BY <1>6, <2>1, SetStatusSound
       DEF Sound, TypeOK, Linked, Exists, Transition
<1>7. ASSUME NEW e \in EvidenceIds, NEW s \in Scopes, DeleteEvidence(e, s)
      PROVE  Sound'
  <2> DEFINE S == {k \in Derived(e) : status[k] = "verified"}
  <2>1. SetStatus(S, "deprecated") /\ UNCHANGED current
    BY <1>7 DEF DeleteEvidence
  <2>2. S \in SUBSET Skills /\ \A j \in S : Exists(j)
    BY <1>7, StatusSetters DEF MayMove, Derived
  <2> HIDE DEF S
  <2>3. "deprecated" \in Statuses
    BY DEF Statuses
  <2> QED
    BY <1>7, <2>1, <2>2, <2>3, SetStatusSound
       DEF Sound, TypeOK, Linked, Exists, DeleteEvidence
<1>8. ASSUME NEW s \in Scopes, NEW done \in SUBSET Skills, ArchiveStaleDrafts(s, done)
      PROVE  Sound'
  <2>1. SetStatus(done, "archived") /\ UNCHANGED current
    BY <1>8 DEF ArchiveStaleDrafts
  <2>2. \A j \in done : Exists(j)
    BY <1>8, StatusSetters DEF MayMove
  <2>3. "archived" \in Statuses
    BY DEF Statuses
  <2> QED
    BY <1>8, <2>1, <2>2, <2>3, SetStatusSound
       DEF Sound, TypeOK, Linked, Exists, ArchiveStaleDrafts
<1>9. CASE UNCHANGED vars
  BY <1>9 DEF Sound, TypeOK, Rowed, Linked, Exists, vars, skillRow
<1> QED
  BY <1>1, <1>2, <1>3, <1>4, <1>5, <1>6, <1>7, <1>8, <1>9 DEF Next

LEMMA SoundInit == Init => Sound
<1> SUFFICES ASSUME Init PROVE Sound
  OBVIOUS
<1>1. TypeOK
  BY SkillAssumption DEF Init, TypeOK, Statuses
<1>2. Rowed /\ Linked
  BY SkillAssumption DEF Init, Rowed, Linked, Exists, Versions
<1> QED BY <1>1, <1>2 DEF Sound

\* The types and the agreement of the two tables hold in every state.
THEOREM Invariance == Spec => []Sound
<1>1. Init => Sound
  BY SoundInit
<1>2. Sound /\ [Next]_vars => Sound'
  BY SoundStep
<1> QED BY <1>1, <1>2, PTL DEF Spec

\* The state of the table is typed as declared, for any number of skills,
\* clients and versions.
THEOREM TypeCorrect == Spec => []TypeOK
<1>1. Sound => TypeOK
  BY DEF Sound
<1> QED BY <1>1, Invariance, PTL

\* Whatever a crash or an interleaving of operations leaves behind, the row
\* of the current version says what the skill says: CurrentRow.
THEOREM TablesAgree == Spec => []CurrentRow
<1>1. Sound => CurrentRow
  BY DEF Sound, Rowed, CurrentRow
<1> QED BY <1>1, Invariance, PTL

-----------------------------------------------------------------------------
\* What the write of a version leaves alone, said without EXCEPT.
LEMMA WriteVersionElsewhere ==
  ASSUME Sound, NEW k \in Skills, NEW content \in Content,
         NEW srcs \in SUBSET EvidenceIds, NEW base \in 0..MaxVersion,
         WriteVersion(k, content, srcs, base)
  PROVE  /\ current'[k] = current[k] + 1 /\ current[k] \in Nat
         /\ current[k] + 1 \in Versions
         /\ rows[k][current[k] + 1] = NoRow
         /\ rows'[k][current[k] + 1] = [content |-> content, status |-> "draft"]
         /\ basis'[k][current[k] + 1] = base
         /\ \A v \in Versions : v # current[k] + 1 =>
              rows'[k][v] = rows[k][v] /\ basis'[k][v] = basis[k][v]
         /\ \A j \in Skills : j # k =>
              /\ current'[j] = current[j] /\ rows'[j] = rows[j]
              /\ basis'[j] = basis[j]
         /\ published' = published
<1>1. current[k] + 1 \in Versions
  BY WriteVersionType DEF Sound
<1>2. current[k] \in Nat /\ ~(current[k] + 1 <= current[k])
  BY DEF Sound, TypeOK
<1>3. rows[k][current[k] + 1] = NoRow
  BY <1>1, <1>2 DEF Sound, Rowed
<1> QED BY <1>1, <1>2, <1>3 DEF Sound, TypeOK, WriteVersion

\* What setting a status leaves alone, said without EXCEPT.
LEMMA SetStatusElsewhere ==
  ASSUME Sound, NEW S \in SUBSET Skills, NEW target \in Statuses,
         MayMove(S, target), SetStatus(S, target)
  PROVE  /\ \A k \in S :
              /\ current[k] \in Versions
              /\ rows[k][current[k]] \in Row
              /\ rows'[k][current[k]] \in Row
              /\ rows[k][current[k]].status = status[k]
              /\ rows'[k][current[k]].status = target
              /\ rows'[k][current[k]].content = rows[k][current[k]].content
              /\ \A v \in Versions : v # current[k] => rows'[k][v] = rows[k][v]
         /\ \A k \in Skills \ S : rows'[k] = rows[k] /\ published'[k] = published[k]
         /\ \A k \in S : published'[k] = IF target = "verified"
                                        THEN published[k] \cup {current[k]}
                                        ELSE published[k]
<1>1. ASSUME NEW k \in S
      PROVE  /\ current[k] \in Versions
             /\ rows[k][current[k]] \in Row
             /\ rows'[k][current[k]] \in Row
             /\ rows[k][current[k]].status = status[k]
             /\ rows'[k][current[k]].status = target
             /\ rows'[k][current[k]].content = rows[k][current[k]].content
             /\ \A v \in Versions : v # current[k] => rows'[k][v] = rows[k][v]
  <2>1. Exists(k) /\ current[k] \in Versions
    BY DEF MayMove, Exists, Sound, TypeOK, Versions
  <2>2. rows[k][current[k]] \in Row /\ rows[k][current[k]].status = status[k]
    <3>1. rows[k][current[k]] # NoRow
      BY <2>1 DEF Sound, Rowed, Versions
    <3> QED BY <2>1, <3>1 DEF Sound, TypeOK, Rowed
  <2>3. PICK row : row = [rows[k][current[k]] EXCEPT !.status = target]
    OBVIOUS
  <2>4. /\ row \in Row /\ row.status = target
        /\ row.content = rows[k][current[k]].content
    BY <2>2, <2>3 DEF Row
  <2>5. rows[k] \in [Versions -> Row \cup {NoRow}]
    BY DEF Sound, TypeOK
  <2>6. rows'[k] = [rows[k] EXCEPT ![current[k]] = row]
    BY <2>3 DEF SetStatus
  <2> QED BY <2>1, <2>2, <2>4, <2>5, <2>6
<1>2. /\ \A k \in Skills \ S : rows'[k] = rows[k] /\ published'[k] = published[k]
      /\ \A k \in S : published'[k] = IF target = "verified"
                                     THEN published[k] \cup {current[k]}
                                     ELSE published[k]
  BY DEF SetStatus
<1> QED BY <1>1, <1>2

-----------------------------------------------------------------------------
\* Seen from the version tables, every step is one of three: nothing moves, a
\* version is written on top of the one its writer had, or statuses are set,
\* by a reviewer or by a withdrawal.
Quiet == UNCHANGED <<current, status, rows, published, basis>>

Writes(k, content, srcs) ==
  /\ Exists(k) => Open(k)
  /\ WriteVersion(k, content, srcs, current[k])

Sets(S, target) ==
  /\ MayMove(S, target)
  /\ SetStatus(S, target)
  /\ UNCHANGED <<current, basis>>
  /\ \/ \E k \in Skills : S = {k}
     \/ target = "deprecated" /\ \A k \in S : status[k] = "verified"
     \/ target = "archived"   /\ \A k \in S : status[k] = "draft"

LEMMA StepKinds ==
  ASSUME Sound, [Next]_vars
  PROVE  \/ Quiet
         \/ \E k \in Skills, content \in Content, srcs \in SUBSET EvidenceIds :
              Writes(k, content, srcs)
         \/ \E S \in SUBSET Skills, target \in Statuses : Sets(S, target)
<1> DEFINE W == \E k \in Skills, content \in Content, srcs \in SUBSET EvidenceIds :
                  Writes(k, content, srcs)
           T == \E S \in SUBSET Skills, target \in Statuses : Sets(S, target)
<1>1. ASSUME NEW e \in EvidenceIds, NEW s \in Scopes, Capture(e, s)
      PROVE  Quiet
  BY <1>1 DEF Capture, Quiet, skillRow
<1>2. ASSUME NEW c \in Clients, NEW k \in Skills, Read(c, k)
      PROVE  Quiet
  BY <1>2 DEF Read, Quiet, skillRow
<1>3. ASSUME NEW c \in Clients, NEW k \in Skills, NEW content \in Content,
             NEW srcs \in SUBSET EvidenceIds, Create(c, k, content, srcs)
      PROVE  W
  <2>1. current[k] = 0
    BY <1>3 DEF Create, Exists, Sound, TypeOK
  <2>2. Writes(k, content, srcs)
    BY <1>3, <2>1 DEF Create, Writes
  <2> QED BY <2>2
<1>4. ASSUME NEW c \in Clients, NEW k \in Skills, NEW content \in Content,
             NEW srcs \in SUBSET EvidenceIds, Update(c, k, content, srcs)
      PROVE  W
  <2>1. Writes(k, content, srcs)
    BY <1>4 DEF Update, Writes
  <2> QED BY <2>1
<1>5. ASSUME NEW k \in Skills, NEW v \in Versions, Rollback(k, v)
      PROVE  W
  <2>1. rows[k][v].content \in Content
    BY <1>5 DEF Rollback, Sound, TypeOK, Row
  <2>2. {e \in sources[k] : Live(e)} \in SUBSET EvidenceIds
    BY DEF Sound, TypeOK
  <2>3. Writes(k, rows[k][v].content, {e \in sources[k] : Live(e)})
    BY <1>5 DEF Rollback, Writes
  <2> QED BY <2>1, <2>2, <2>3
<1>6. ASSUME NEW k \in Skills, NEW target \in Statuses, Transition(k, target)
      PROVE  T
  <2>1. Sets({k}, target)
    BY <1>6, StatusSetters DEF Transition, Sets
  <2> QED BY <2>1
<1>7. ASSUME NEW e \in EvidenceIds, NEW s \in Scopes, DeleteEvidence(e, s)
      PROVE  T
  <2>1. Sets({k \in Derived(e) : status[k] = "verified"}, "deprecated")
    BY <1>7, StatusSetters DEF DeleteEvidence, Sets
  <2>2. "deprecated" \in Statuses /\ Derived(e) \subseteq Skills
    BY DEF Statuses, Derived
  <2> QED BY <2>1, <2>2
<1>8. ASSUME NEW s \in Scopes, NEW done \in SUBSET Skills, ArchiveStaleDrafts(s, done)
      PROVE  T
  <2>1. Sets(done, "archived")
    BY <1>8, StatusSetters DEF ArchiveStaleDrafts, Sets
  <2>2. "archived" \in Statuses
    BY DEF Statuses
  <2> QED BY <2>1, <2>2
<1>9. CASE UNCHANGED vars
  BY <1>9 DEF Quiet, vars, skillRow
<1> QED
  BY <1>1, <1>2, <1>3, <1>4, <1>5, <1>6, <1>7, <1>8, <1>9 DEF Next

-----------------------------------------------------------------------------
\* Two authors who read the same version never both succeed: every version
\* was written on top of the one before it.
THEOREM LostUpdatesRefused == Spec => []NoLostUpdate
<1>1. Init => NoLostUpdate
  BY SkillAssumption DEF Init, NoLostUpdate, Versions
<1>2. Sound /\ NoLostUpdate /\ [Next]_vars => NoLostUpdate'
  <2> SUFFICES ASSUME Sound, NoLostUpdate, [Next]_vars,
                      NEW j \in Skills, NEW v \in Versions, v <= current'[j]
               PROVE  basis'[j][v] = v - 1
    BY DEF NoLostUpdate
  <2>1. CASE Quiet
    BY <2>1 DEF Quiet, NoLostUpdate
  <2>2. ASSUME NEW k \in Skills, NEW content \in Content,
               NEW srcs \in SUBSET EvidenceIds, Writes(k, content, srcs)
        PROVE  basis'[j][v] = v - 1
    <3>1. current[k] \in 0..MaxVersion /\ WriteVersion(k, content, srcs, current[k])
      BY <2>2 DEF Writes, Sound, TypeOK
    <3> DEFINE next == current[k] + 1
               base == current[k]
    <3>a. base \in 0..MaxVersion /\ WriteVersion(k, content, srcs, base)
      BY <3>1
    <3> HIDE DEF base
    <3>b. /\ current'[k] = next /\ current[k] \in Nat
          /\ basis'[k][next] = base
          /\ \A w \in Versions : w # next => basis'[k][w] = basis[k][w]
          /\ \A i \in Skills : i # k => /\ current'[i] = current[i]
                                       /\ basis'[i] = basis[i]
      BY <3>a, WriteVersionElsewhere, ZenonT(60)
    <3>2. /\ current'[k] = next /\ current[k] \in Nat
          /\ basis'[k][next] = current[k]
          /\ \A w \in Versions : w # next => basis'[k][w] = basis[k][w]
          /\ \A i \in Skills : i # k => /\ current'[i] = current[i]
                                       /\ basis'[i] = basis[i]
      BY <3>b DEF base
    <3>3. CASE j # k
      BY <3>2, <3>3 DEF NoLostUpdate
    <3>4. CASE j = k /\ v = next
      BY <3>2, <3>4
    <3>5. CASE j = k /\ v # next
      <4>1. basis'[j][v] = basis[j][v]
        BY <3>2, <3>5
      <4>2. v <= current[j]
        BY <3>2, <3>5 DEF Versions
      <4> QED BY <4>1, <4>2 DEF NoLostUpdate
    <3> QED BY <3>3, <3>4, <3>5
  <2>3. ASSUME NEW S \in SUBSET Skills, NEW target \in Statuses, Sets(S, target)
        PROVE  basis'[j][v] = v - 1
    BY <2>3 DEF Sets, NoLostUpdate
  <2> QED BY <2>1, <2>2, <2>3, StepKinds
<1> QED BY <1>1, <1>2, Invariance, PTL DEF Spec

\* Versions are never rewritten: their content is fixed when they are written
\* and their status when they are superseded.
THEOREM HistoryKept == Spec => HistoryFrozen
<1>1. Sound /\ [Next]_vars =>
        \A k \in Skills, v \in Versions :
          rows[k][v] # NoRow =>
            /\ rows'[k][v] # NoRow
            /\ rows'[k][v].content = rows[k][v].content
            /\ v < current[k] => rows'[k][v] = rows[k][v]
  <2> SUFFICES ASSUME Sound, [Next]_vars,
                      NEW j \in Skills, NEW v \in Versions, rows[j][v] # NoRow
               PROVE  /\ rows'[j][v] # NoRow
                      /\ rows'[j][v].content = rows[j][v].content
                      /\ v < current[j] => rows'[j][v] = rows[j][v]
    OBVIOUS
  <2>1. CASE Quiet
    BY <2>1 DEF Quiet
  <2>2. ASSUME NEW k \in Skills, NEW content \in Content,
               NEW srcs \in SUBSET EvidenceIds, Writes(k, content, srcs)
        PROVE  rows'[j][v] = rows[j][v]
    <3>1. current[k] \in 0..MaxVersion /\ WriteVersion(k, content, srcs, current[k])
      BY <2>2 DEF Writes, Sound, TypeOK
    <3> QED BY <3>1, WriteVersionElsewhere, ZenonT(60)
  <2>3. ASSUME NEW S \in SUBSET Skills, NEW target \in Statuses, Sets(S, target)
        PROVE  /\ rows'[j][v] # NoRow
               /\ rows'[j][v].content = rows[j][v].content
               /\ v < current[j] => rows'[j][v] = rows[j][v]
    <3>1. MayMove(S, target) /\ SetStatus(S, target)
      BY <2>3 DEF Sets
    <3>2. current[j] \in Nat /\ v \in Nat
      BY DEF Sound, TypeOK, Versions
    <3> QED BY <3>1, <3>2, SetStatusElsewhere, SkillAssumption
  <2> QED BY <2>1, <2>2, <2>3, StepKinds
<1> QED BY <1>1, Invariance, PTL DEF Spec, HistoryFrozen

-----------------------------------------------------------------------------
\* The snapshots tell which versions were in service: a superseded version
\* says verified or deprecated exactly when it was published, and the current
\* one may since have been archived.
InService == {"verified", "deprecated"}

PublishedAt(k, v) ==
  /\ v \in published[k] => v <= current[k]
  /\ v < current[k] => (rows[k][v].status \in InService <=> v \in published[k])
  /\ v = current[k] =>
       /\ status[k] \in InService => v \in published[k]
       /\ v \in published[k] => status[k] \in InService \cup {"archived"}

PublishedTrue == \A k \in Skills, v \in Versions : PublishedAt(k, v)

LEMMA WritesKeepPublished ==
  ASSUME Sound, PublishedTrue, NEW k \in Skills, NEW content \in Content,
         NEW srcs \in SUBSET EvidenceIds, Writes(k, content, srcs)
  PROVE  PublishedTrue'
<1> DEFINE next == current[k] + 1
<1>1. current[k] \in 0..MaxVersion /\ WriteVersion(k, content, srcs, current[k])
  BY DEF Writes, Sound, TypeOK
<1>2. /\ current'[k] = next /\ current[k] \in Nat
      /\ \A v \in Versions : v # next => rows'[k][v] = rows[k][v]
      /\ \A j \in Skills : j # k => current'[j] = current[j] /\ rows'[j] = rows[j]
      /\ published' = published
  BY <1>1, WriteVersionElsewhere
<1>3. /\ status'[k] = "draft"
      /\ \A j \in Skills : j # k => status'[j] = status[j]
  BY <1>1 DEF WriteVersion, Sound, TypeOK
<1> SUFFICES ASSUME NEW j \in Skills, NEW v \in Versions
             PROVE  PublishedAt(j, v)'
  BY DEF PublishedTrue
<1>0. PublishedAt(j, v) /\ v \in Nat
  BY DEF PublishedTrue, Versions
<1>4. CASE j # k
  BY <1>0, <1>2, <1>3, <1>4 DEF PublishedAt
<1>5. CASE j = k
  <2>2. CASE v < current[k]
    BY <1>0, <1>2, <1>5, <2>2 DEF PublishedAt
  <2>3. CASE v = current[k]
    <3>1. Exists(k) /\ Open(k)
      BY <2>3 DEF Exists, Versions, Writes
    <3>2. rows'[k][v] = rows[k][v] /\ rows[k][v].status = status[k]
      BY <1>0, <1>2, <2>3, <3>1 DEF Sound, Rowed
    <3>3. status[k] \in InService <=> v \in published[k]
      <4>1. /\ status[k] \in InService => v \in published[k]
            /\ v \in published[k] => status[k] \in InService \cup {"archived"}
        BY <1>0, <1>5, <2>3 DEF PublishedAt, InService
      <4> QED BY <3>1, <4>1 DEF Open, InService
    <3>4. ~(v = next) /\ v < next
      BY <1>0, <1>2, <2>3
    <3> QED BY <1>2, <1>5, <2>3, <3>2, <3>3, <3>4 DEF PublishedAt
  <2>4. CASE v > current[k]
    <3>1. v \notin published[k]
      BY <1>0, <1>2, <1>5, <2>4 DEF PublishedAt
    <3>2. ~(v < next)
      BY <1>0, <1>2, <2>4
    <3> QED BY <1>2, <1>3, <1>5, <3>1, <3>2 DEF PublishedAt, InService
  <2> QED BY <1>0, <1>2, <2>2, <2>3, <2>4
<1> QED BY <1>4, <1>5

LEMMA SetsKeepPublished ==
  ASSUME Sound, PublishedTrue, NEW S \in SUBSET Skills, NEW target \in Statuses,
         Sets(S, target)
  PROVE  PublishedTrue'
<1>1. MayMove(S, target) /\ SetStatus(S, target) /\ current' = current
  BY DEF Sets
<1> SUFFICES ASSUME NEW j \in Skills, NEW v \in Versions
             PROVE  PublishedAt(j, v)'
  BY DEF PublishedTrue
<1>0. PublishedAt(j, v) /\ v \in Nat
  BY DEF PublishedTrue, Versions
<1>2. CASE j \notin S
  <2>1. rows'[j] = rows[j] /\ published'[j] = published[j] /\ status'[j] = status[j]
    BY <1>1, <1>2 DEF SetStatus
  <2> QED BY <1>0, <1>1, <2>1 DEF PublishedAt
<1>3. CASE j \in S
  <2>1. /\ current[j] \in Versions
        /\ \A w \in Versions : w # current[j] => rows'[j][w] = rows[j][w]
        /\ published'[j] = IF target = "verified" THEN published[j] \cup {current[j]}
                                                 ELSE published[j]
    <3>1. \A k \in S :
            /\ current[k] \in Versions
            /\ \A w \in Versions : w # current[k] => rows'[k][w] = rows[k][w]
      BY <1>1, SetStatusElsewhere
    <3>2. published'[j] = IF target = "verified" THEN published[j] \cup {current[j]}
                                                 ELSE published[j]
      BY <1>1, <1>3 DEF SetStatus
    <3> QED BY <1>3, <3>1, <3>2
  <2>2. CASE v # current[j]
    BY <1>0, <1>1, <2>1, <2>2 DEF PublishedAt
  <2>3. CASE v = current[j]
    <3>1. status'[j] = target /\ CanTransition(status[j], target) /\ status[j] \in Statuses
      BY <1>1, <1>3 DEF SetStatus, MayMove, Sound, TypeOK, Rowed
    <3>2. /\ status[j] \in InService => v \in published[j]
          /\ v \in published[j] => status[j] \in InService \cup {"archived"}
      BY <1>0, <2>3 DEF PublishedAt, InService
    <3>3. target \in InService => (target = "verified" \/ status[j] \in InService)
      BY <3>1 DEF CanTransition, AllowedTransitions, Statuses, InService
    <3>4. status[j] \in InService \cup {"archived"} => target \in InService \cup {"archived"}
      BY <3>1 DEF CanTransition, AllowedTransitions, InService
    <3>5. v <= current[j] /\ ~(v < current[j])
      BY <1>0, <2>3
    <3> QED BY <1>1, <2>1, <2>3, <3>1, <3>2, <3>3, <3>4, <3>5 DEF PublishedAt, InService
  <2> QED BY <2>2, <2>3
<1> QED BY <1>2, <1>3

\* The default baseline of a diff is the newest earlier version that was ever
\* in service.
THEOREM BaselineTrue == Spec => []BaselineIsLastPublished
<1>1. Init => PublishedTrue
  BY SkillAssumption DEF Init, PublishedTrue, PublishedAt, InService, Versions
<1>2. Sound /\ PublishedTrue /\ [Next]_vars => PublishedTrue'
  <2> SUFFICES ASSUME Sound, PublishedTrue, [Next]_vars
               PROVE  PublishedTrue'
    OBVIOUS
  <2>1. CASE Quiet
    BY <2>1 DEF Quiet, PublishedTrue, PublishedAt
  <2> QED BY <2>1, StepKinds, WritesKeepPublished, SetsKeepPublished
<1>3. Sound /\ PublishedTrue => BaselineIsLastPublished
  <2> SUFFICES ASSUME Sound, PublishedTrue,
                      NEW k \in Skills, NEW v \in Versions, v <= current[k]
               PROVE  PublishedBaseline(k, v) = Max0({w \in published[k] : w < v})
    BY DEF BaselineIsLastPublished
  <2> DEFINE A == {w \in Versions : /\ w < v
                                    /\ rows[k][w] # NoRow
                                    /\ rows[k][w].status \in {"verified", "deprecated"}}
             B == {w \in published[k] : w < v}
  <2>1. ASSUME NEW w \in Versions, w < v
        PROVE  rows[k][w] # NoRow /\ (rows[k][w].status \in InService <=> w \in published[k])
    <3>1. w < current[k] /\ w <= current[k]
      BY <2>1 DEF Sound, TypeOK, Versions
    <3> QED BY <3>1 DEF Sound, Rowed, PublishedTrue, PublishedAt
  <2>2. published[k] \subseteq Versions
    BY DEF Sound, TypeOK
  <2>3. A = B
    BY <2>1, <2>2 DEF InService
  <2> QED BY <2>3 DEF PublishedBaseline
<1> QED BY <1>1, <1>2, <1>3, Invariance, PTL DEF Spec

-----------------------------------------------------------------------------
\* Deleting evidence withdraws the verified skills that name it: while ids are
\* not reused, a skill is linked to those of its sources that still exist, and
\* they are in its scope.
SourcesLinked ==
  /\ \A e \in EvidenceIds : Live(e) => e \in captured
  /\ \A k \in Skills, e \in EvidenceIds :
       (Exists(k) /\ e \in sources[k]) =>
         e \in captured /\ (Live(e) => <<k, e>> \in links /\ evidence[e] = identity[k].scope)
  /\ \A k \in Skills, e \in EvidenceIds : <<k, e>> \in links => e \in sources[k]

LEMMA SourcesStayLinked ==
  ASSUME ReuseIds = FALSE, Sound, SourcesLinked, [Next]_vars
  PROVE  SourcesLinked'
<1>1. ASSUME NEW e \in EvidenceIds, NEW s \in Scopes, Capture(e, s)
      PROVE  SourcesLinked'
  BY <1>1 DEF SourcesLinked, Live, Exists, Capture, skillRow, Sound, TypeOK
\* A version is written with sources that exist, and linked to each of them.
<1>2. ASSUME NEW k \in Skills, NEW content \in Content,
             NEW srcs \in SUBSET EvidenceIds, NEW base,
             WriteVersion(k, content, srcs, base), \A e \in srcs : LiveIn(e, identity[k].scope)
      PROVE  SourcesLinked'
  <2>1. /\ evidence' = evidence /\ captured' = captured /\ identity' = identity
        /\ sources' = [sources EXCEPT ![k] = srcs]
        /\ current' = [current EXCEPT ![k] = current[k] + 1]
        /\ links' = (links \ ({k} \X EvidenceIds)) \cup ({k} \X srcs)
    BY <1>2 DEF WriteVersion, Relink
  <2>2. \A e \in EvidenceIds : Live(e)' <=> Live(e)
    BY <2>1 DEF Live
  <2>3. ASSUME NEW j \in Skills, NEW e \in EvidenceIds,
               Exists(j)', e \in sources'[j]
        PROVE  /\ e \in captured'
               /\ Live(e)' => <<j, e>> \in links' /\ evidence'[e] = identity'[j].scope
    <3>1. CASE j = k
      BY <1>2, <2>1, <2>3, <3>1 DEF SourcesLinked, Sound, TypeOK, LiveIn
    <3>2. CASE j # k
      <4>1. Exists(j) /\ e \in sources[j]
        BY <2>1, <2>3, <3>2 DEF Exists, Sound, TypeOK
      <4> QED BY <2>1, <2>2, <3>2, <4>1 DEF SourcesLinked
    <3> QED BY <3>1, <3>2
  <2>4. ASSUME NEW j \in Skills, NEW e \in EvidenceIds, <<j, e>> \in links'
        PROVE  e \in sources'[j]
    BY <2>1, <2>4 DEF SourcesLinked, Sound, TypeOK
  <2> QED BY <2>1, <2>2, <2>3, <2>4 DEF SourcesLinked
<1>3. ASSUME NEW c \in Clients, NEW k \in Skills, NEW content \in Content,
             NEW srcs \in SUBSET EvidenceIds,
             Create(c, k, content, srcs) \/ Update(c, k, content, srcs)
      PROVE  SourcesLinked'
  BY <1>2, <1>3 DEF Create, Update
<1>4. ASSUME NEW k \in Skills, NEW v \in Versions, Rollback(k, v)
      PROVE  SourcesLinked'
  <2> DEFINE kept == {e \in sources[k] : Live(e)}
  <2>1. rows[k][v].content \in Content
    BY <1>4 DEF Rollback, Sound, TypeOK, Row
  <2>2. kept \in SUBSET EvidenceIds /\ \A e \in kept : LiveIn(e, identity[k].scope)
    BY <1>4 DEF Rollback, Open, SourcesLinked, LiveIn, Sound, TypeOK
  <2>3. WriteVersion(k, rows[k][v].content, kept, current[k])
    BY <1>4 DEF Rollback
  <2> QED BY <1>2, <2>1, <2>2, <2>3
<1>5. ASSUME UNCHANGED <<evidence, captured, current, identity, sources, links>>
      PROVE  SourcesLinked'
  BY <1>5 DEF SourcesLinked, Live, Exists
<1>6. ASSUME NEW c \in Clients, NEW k \in Skills, Read(c, k)
      PROVE  SourcesLinked'
  BY <1>5, <1>6 DEF Read, skillRow
<1>7. ASSUME NEW k \in Skills, NEW target \in Statuses, Transition(k, target)
      PROVE  SourcesLinked'
  BY <1>5, <1>7 DEF Transition
<1>8. ASSUME NEW e \in EvidenceIds, NEW s \in Scopes, DeleteEvidence(e, s)
      PROVE  SourcesLinked'
  <2>1. /\ evidence' = [evidence EXCEPT ![e] = NoEvidence]
        /\ links' = links \ (Skills \X {e})
        /\ UNCHANGED <<captured, current, identity, sources>>
    BY <1>8 DEF DeleteEvidence
  <2>2. \A f \in EvidenceIds : Live(f)' => Live(f) /\ f # e /\ evidence'[f] = evidence[f]
    BY <2>1 DEF Live, Sound, TypeOK
  <2> QED BY <2>1, <2>2 DEF SourcesLinked, Exists
<1>9. ASSUME NEW s \in Scopes, NEW done \in SUBSET Skills, ArchiveStaleDrafts(s, done)
      PROVE  SourcesLinked'
  BY <1>5, <1>9 DEF ArchiveStaleDrafts
<1>10. CASE UNCHANGED vars
  BY <1>5, <1>10 DEF vars, skillRow
<1> QED
  BY <1>1, <1>3, <1>4, <1>6, <1>7, <1>8, <1>9, <1>10 DEF Next

\* A deletion of evidence (deleteEvidenceAndPropagate) withdraws the verified
\* skills that name it, which are those the preview announced.
THEOREM DeletionAlwaysWithdraws ==
  ASSUME ReuseIds = FALSE
  PROVE  Spec => DeletionWithdraws
<1>1. Init => SourcesLinked
  BY SkillAssumption DEF Init, SourcesLinked, Live, Exists
<1>2. ASSUME Sound, SourcesLinked, NEW e \in EvidenceIds, NEW s \in Scopes, DeleteEvidence(e, s)
      PROVE  /\ {k \in Skills : status[k] = "verified" /\ status'[k] # "verified"} = Impact(e, s)
             /\ \A k \in Skills : Exists(k) /\ e \in sources[k] => status'[k] # "verified"
  <2> DEFINE S == {j \in Derived(e) : status[j] = "verified"}
  <2>1. \A k \in Skills : status'[k] = IF k \in S THEN "deprecated" ELSE status[k]
    BY <1>2 DEF DeleteEvidence, SetStatus
  <2>2. Live(e) /\ evidence[e] = s
    BY <1>2 DEF DeleteEvidence, LiveIn
  <2>3. \A k \in Skills : <<k, e>> \in links <=> Exists(k) /\ e \in sources[k]
    BY <1>2, <2>2 DEF SourcesLinked, Sound, Linked
  <2>4. \A k \in Skills : <<k, e>> \in links => identity[k].scope = s
    BY <1>2, <2>2, <2>3 DEF SourcesLinked
  <2>5. S = Impact(e, s)
    BY <2>3, <2>4 DEF Derived, Impact
  <2>6. {k \in Skills : status[k] = "verified" /\ status'[k] # "verified"} = S
    BY <2>1 DEF Derived
  <2>7. ASSUME NEW k \in Skills, Exists(k), e \in sources[k] PROVE status'[k] # "verified"
    BY <2>1, <2>3, <2>7 DEF Derived
  <2> QED BY <2>5, <2>6, <2>7
<1>3. Sound /\ SourcesLinked /\ [Next]_vars =>
        [\A e \in EvidenceIds, s \in Scopes : DeleteEvidence(e, s) =>
           /\ {k \in Skills : status[k] = "verified" /\ status'[k] # "verified"} = Impact(e, s)
           /\ \A k \in Skills : Exists(k) /\ e \in sources[k] => status'[k] # "verified"]_vars
  BY <1>2
<1> QED
  BY <1>1, <1>3, Invariance, SourcesStayLinked, PTL DEF Spec, DeletionWithdraws

-----------------------------------------------------------------------------
\* The versions, as assets, follow the abstract lifecycle.
VersionState(k, v) == IF rows[k][v] = NoRow THEN "absent" ELSE rows[k][v].status

LEMMA WriteIsGoverned ==
  ASSUME Sound, NEW k \in Skills, NEW content \in Content,
         NEW srcs \in SUBSET EvidenceIds, Writes(k, content, srcs)
  PROVE  Governed!Create(<<k, current[k] + 1>>)
<1>0. PICK next : next = current[k] + 1
  OBVIOUS
<1>1. current[k] \in 0..MaxVersion /\ WriteVersion(k, content, srcs, current[k])
  BY DEF Writes, Sound, TypeOK
<1>2. /\ next \in Versions
      /\ rows[k][next] = NoRow
      /\ rows'[k][next] = [content |-> content, status |-> "draft"]
      /\ \A v \in Versions : v # next => rows'[k][v] = rows[k][v]
      /\ \A j \in Skills : j # k => rows'[j] = rows[j]
      /\ published' = published
  BY <1>0, <1>1, WriteVersionElsewhere
<1>3. [content |-> content, status |-> "draft"] # NoRow
  BY SkillAssumption DEF Row, Statuses
<1>4. /\ VersionState(k, next) = "absent" /\ VersionState(k, next)' = "draft"
      /\ \A j \in Skills, v \in Versions :
           <<j, v>> # <<k, next>> => VersionState(j, v)' = VersionState(j, v)
  <2>1. VersionState(k, next)' = "draft"
    BY <1>2, <1>3 DEF VersionState
  <2>2. ASSUME NEW j \in Skills, NEW v \in Versions, <<j, v>> # <<k, next>>
        PROVE  rows'[j][v] = rows[j][v]
    BY <1>2, <2>2
  <2> QED BY <1>2, <2>1, <2>2 DEF VersionState
<1>5. VersionStatus = [a \in Skills \X Versions |-> VersionState(a[1], a[2])]
  BY DEF VersionStatus, VersionState
<1>6. VersionStatus' = [a \in Skills \X Versions |-> VersionState(a[1], a[2])']
  BY DEF VersionStatus, VersionState
<1>7. VersionStatus[<<k, next>>] = "absent"
  BY <1>2, <1>4, <1>5
<1>8. VersionStatus' = [VersionStatus EXCEPT ![<<k, next>>] = "draft"]
  <2>1. \A a \in Skills \X Versions :
          VersionStatus'[a] = IF a = <<k, next>> THEN "draft" ELSE VersionStatus[a]
    <3> SUFFICES ASSUME NEW j \in Skills, NEW v \in Versions
                 PROVE  VersionStatus'[<<j, v>>] = IF <<j, v>> = <<k, next>>
                          THEN "draft" ELSE VersionStatus[<<j, v>>]
      OBVIOUS
    <3>1. /\ VersionStatus[<<j, v>>] = VersionState(j, v)
          /\ VersionStatus'[<<j, v>>] = VersionState(j, v)'
      BY <1>5, <1>6
    <3>2. CASE <<j, v>> = <<k, next>>
      BY <1>4, <3>1, <3>2
    <3> QED BY <1>4, <3>1, <3>2
  <2> QED BY <1>2, <1>5, <1>6, <2>1
<1>9. VersionPublisher' = VersionPublisher
  BY <1>2 DEF VersionPublisher
<1> QED BY <1>0, <1>7, <1>8, <1>9 DEF Governed!Create

LEMMA SetIsGoverned ==
  ASSUME Sound, NEW S \in SUBSET Skills, NEW target \in Statuses, Sets(S, target)
  PROVE  Governed!Next
<1> DEFINE At(k) == <<k, current[k]>>
           T     == {At(k) : k \in S}
<1>1. MayMove(S, target) /\ SetStatus(S, target) /\ current' = current
  BY DEF Sets
<1>2. \A k \in S :
        /\ current[k] \in Versions
        /\ rows[k][current[k]] \in Row
        /\ rows'[k][current[k]] \in Row
        /\ rows[k][current[k]].status = status[k]
        /\ rows'[k][current[k]].status = target
        /\ \A v \in Versions : v # current[k] => rows'[k][v] = rows[k][v]
  BY <1>1, SetStatusElsewhere
<1>3. \A k \in Skills \ S : rows'[k] = rows[k] /\ published'[k] = published[k]
  BY <1>1 DEF SetStatus
<1>4. T \subseteq Skills \X Versions /\ \A k \in Skills : At(k) \in T <=> k \in S
  BY <1>2
<1>5. \A k \in Skills, v \in Versions :
        /\ <<k, v>> \in T => VersionState(k, v) = status[k] /\ VersionState(k, v)' = target
        /\ <<k, v>> \notin T => VersionState(k, v)' = VersionState(k, v)
  BY <1>2, <1>3, <1>4, SkillAssumption DEF VersionState
<1>6. /\ VersionStatus = [a \in Skills \X Versions |-> VersionState(a[1], a[2])]
      /\ VersionStatus' = [a \in Skills \X Versions |-> VersionState(a[1], a[2])']
  BY DEF VersionStatus, VersionState
<1>7. VersionStatus' = [a \in Skills \X Versions |->
                         IF a \in T THEN target ELSE VersionStatus[a]]
  BY <1>5, <1>6
<1>8. VersionPublisher' = [a \in Skills \X Versions |->
                            IF a \in T /\ target = "verified" THEN "manual"
                                                            ELSE VersionPublisher[a]]
  <2>1. \A k \in Skills, v \in Versions :
          v \in published'[k] <=> v \in published[k] \/ (<<k, v>> \in T /\ target = "verified")
    BY <1>1, <1>3 DEF SetStatus
  <2> QED BY <2>1 DEF VersionPublisher
<1>9. CASE \E k \in Skills : S = {k}
  <2>1. PICK k \in Skills : S = {k}
    BY <1>9
  <2>2. At(k) \in Skills \X Versions /\ T = {At(k)}
    BY <1>2, <2>1
  <2>3. VersionStatus[At(k)] = status[k] /\ status[k] # "absent"
    BY <1>1, <1>4, <1>5, <1>6, <2>1, <2>2 DEF MayMove, Sound, Rowed
  <2>4. CanTransition(status[k], target)
    BY <1>1, <2>1 DEF MayMove
  <2>5. VersionStatus' = [VersionStatus EXCEPT ![At(k)] = target]
    BY <1>6, <1>7, <2>2
  <2>6. VersionPublisher' = IF target = "verified"
                              THEN [VersionPublisher EXCEPT ![At(k)] = "manual"]
                              ELSE VersionPublisher
    BY <1>8, <2>2 DEF VersionPublisher
  <2>7. Governed!Review(At(k), target)
    BY <2>3, <2>4, <2>5, <2>6
       DEF Governed!Review, Governed!CanTransition, Governed!AllowedTransitions,
           CanTransition, AllowedTransitions
  <2> QED BY <2>2, <2>7 DEF Governed!Next, Governed!Statuses, Statuses
<1>10. ASSUME NEW from, target # "verified", \A k \in S : status[k] = from,
              <<from, target>> \in {<<"verified", "deprecated">>, <<"draft", "archived">>}
       PROVE  Governed!Withdraw(T, from, target)
  <2>1. \A a \in T : VersionStatus[a] = from
    BY <1>2, <1>4, <1>5, <1>6, <1>10
  <2>2. VersionPublisher' = VersionPublisher
    BY <1>8, <1>10 DEF VersionPublisher
  <2> QED BY <1>7, <1>10, <2>1, <2>2 DEF Governed!Withdraw
<1>11. CASE target = "deprecated" /\ \A k \in S : status[k] = "verified"
  BY <1>4, <1>10, <1>11 DEF Governed!Next
<1>12. CASE target = "archived" /\ \A k \in S : status[k] = "draft"
  BY <1>4, <1>10, <1>12 DEF Governed!Next
<1> QED BY <1>9, <1>11, <1>12 DEF Sets

\* Skills implement the abstract lifecycle: every version is born a draft, and
\* nothing but a reviewer brings one back into service.
THEOREM SkillsAreGoverned == Spec => ImplementsGovernedAssets
<1>1. Init => Governed!Init
  BY DEF Init, Governed!Init, VersionStatus, VersionPublisher
<1>2. Sound /\ [Next]_vars => [Governed!Next]_Governed!vars
  <2> SUFFICES ASSUME Sound, [Next]_vars
               PROVE  [Governed!Next]_Governed!vars
    OBVIOUS
  <2>1. CASE Quiet
    BY <2>1 DEF Quiet, Governed!vars, VersionStatus, VersionPublisher
  <2>2. ASSUME NEW k \in Skills, NEW content \in Content,
               NEW srcs \in SUBSET EvidenceIds, Writes(k, content, srcs)
        PROVE  Governed!Next
    <3>1. Governed!Create(<<k, current[k] + 1>>)
      BY <2>2, WriteIsGoverned
    <3>2. <<k, current[k] + 1>> \in Skills \X Versions
      BY <2>2 DEF Writes, WriteVersion
    <3> QED BY <3>1, <3>2 DEF Governed!Next
  <2> QED BY <2>1, <2>2, StepKinds, SetIsGoverned
<1> QED
  BY <1>1, <1>2, Invariance, PTL DEF Spec, ImplementsGovernedAssets, Governed!Spec

-----------------------------------------------------------------------------
\* The line diff.  Both recursions, of the table and of the walk, go from one
\* place to places with fewer lines left, and so have a solution.
Left(before, after, p) == (Len(before) + 1 - p[1]) + (Len(after) + 1 - p[2])

\* Lists of lines, of any length.
IsBody(body) == Len(body) \in Nat /\ DOMAIN body = 1..Len(body)

TableAt(before, after, table, p) ==
  LET i == p[1]
      j == p[2]
  IN IF i > Len(before) \/ j > Len(after) THEN 0
     ELSE IF before[i] = after[j] THEN table[<<i + 1, j + 1>>] + 1
     ELSE IF table[<<i + 1, j>>] >= table[<<i, j + 1>>]
       THEN table[<<i + 1, j>>] ELSE table[<<i, j + 1>>]

WalkAt(before, after, table, walk, p) ==
  LET i == p[1]
      j == p[2]
  IN IF i > Len(before) \/ j > Len(after)
       THEN [removed |-> i..Len(before), added |-> j..Len(after)]
     ELSE IF before[i] = after[j] THEN walk[<<i + 1, j + 1>>]
     ELSE IF Advance(table, i, j) = "before"
       THEN [removed |-> walk[<<i + 1, j>>].removed \cup {i},
             added   |-> walk[<<i + 1, j>>].added]
     ELSE [removed |-> walk[<<i, j + 1>>].removed,
           added   |-> walk[<<i, j + 1>>].added \cup {j}]

\* Each place is decided by those with fewer lines left.
LEMMA PlacesNext ==
  ASSUME NEW before, IsBody(before), NEW after, IsBody(after),
         NEW p \in Places(before, after), p[1] <= Len(before), p[2] <= Len(after)
  PROVE  \A q \in {<<p[1] + 1, p[2] + 1>>, <<p[1] + 1, p[2]>>, <<p[1], p[2] + 1>>} :
           q \in Places(before, after) /\ Left(before, after, q) < Left(before, after, p)
<1>1. PICK m \in Nat, n \in Nat : m = Len(before) /\ n = Len(after)
  BY DEF IsBody
<1>2. PICK i \in 1..(m + 1), j \in 1..(n + 1) : p = <<i, j>>
  BY <1>1 DEF Places
<1>3. p[1] = i /\ p[2] = j /\ i <= m /\ j <= n
  BY <1>1, <1>2
<1>4. i + 1 \in 1..(m + 1) /\ j + 1 \in 1..(n + 1)
  BY <1>2, <1>3
<1>5. /\ <<i + 1, j + 1>> \in Places(before, after)
      /\ <<i + 1, j>> \in Places(before, after)
      /\ <<i, j + 1>> \in Places(before, after)
  BY <1>1, <1>2, <1>4 DEF Places
<1>6. /\ Left(before, after, p) = (m + 1 - i) + (n + 1 - j)
      /\ Left(before, after, <<i + 1, j + 1>>) = (m + 1 - (i + 1)) + (n + 1 - (j + 1))
      /\ Left(before, after, <<i + 1, j>>) = (m + 1 - (i + 1)) + (n + 1 - j)
      /\ Left(before, after, <<i, j + 1>>) = (m + 1 - i) + (n + 1 - (j + 1))
  BY <1>1, <1>3 DEF Left
<1>7. /\ Left(before, after, <<i + 1, j + 1>>) < Left(before, after, p)
      /\ Left(before, after, <<i + 1, j>>) < Left(before, after, p)
      /\ Left(before, after, <<i, j + 1>>) < Left(before, after, p)
  BY <1>2, <1>6
<1> QED BY <1>3, <1>5, <1>7

LEMMA LeftNat ==
  ASSUME NEW before, IsBody(before), NEW after, IsBody(after), NEW p \in Places(before, after)
  PROVE  /\ p[1] \in 1..(Len(before) + 1) /\ p[2] \in 1..(Len(after) + 1)
         /\ p = <<p[1], p[2]>>
         /\ Left(before, after, p) \in 0..(Len(before) + Len(after))
  BY DEF Places, Left, IsBody

LEMMA TableUnfolds ==
  ASSUME NEW before, IsBody(before), NEW after, IsBody(after)
  PROVE  \A p \in Places(before, after) :
           Common(before, after)[p] = TableAt(before, after, Common(before, after), p)
<1> DEFINE S == Places(before, after)
           At1(t, p) == TableAt(before, after, t, p)
           Upto(t, r) == /\ t = [p \in S |-> t[p]]
                         /\ \A p \in S : Left(before, after, p) <= r => t[p] = At1(t, p)
           Stuck == {r \in Nat : ~\E t : Upto(t, r)}
<1>1. ASSUME NEW r \in Nat, NEW t, Upto(t, r),
             NEW u, u = [p \in S |-> IF Left(before, after, p) = r + 1 THEN At1(t, p) ELSE t[p]]
      PROVE  Upto(u, r + 1)
  <2>1. u = [p \in S |-> u[p]]
    BY <1>1
  <2>2. \A p \in S : Left(before, after, p) <= r => u[p] = t[p]
    BY <1>1, LeftNat
  <2>3. ASSUME NEW p \in S, Left(before, after, p) <= r + 1
        PROVE  At1(u, p) = At1(t, p)
    <3>1. CASE p[1] > Len(before) \/ p[2] > Len(after)
      BY <3>1 DEF TableAt
    <3>2. CASE ~(p[1] > Len(before) \/ p[2] > Len(after))
      <4>1. p[1] <= Len(before) /\ p[2] <= Len(after)
        BY <3>2, LeftNat DEF IsBody
      <4>2. \A q \in {<<p[1] + 1, p[2] + 1>>, <<p[1] + 1, p[2]>>, <<p[1], p[2] + 1>>} :
              q \in S /\ Left(before, after, q) <= r
        <5>1. /\ \A q \in {<<p[1] + 1, p[2] + 1>>, <<p[1] + 1, p[2]>>, <<p[1], p[2] + 1>>} :
                   q \in S /\ Left(before, after, q) < Left(before, after, p)
              /\ Left(before, after, p) \in Nat
          BY <4>1, PlacesNext, LeftNat
        <5>2. \A q \in S : Left(before, after, q) \in Nat
          BY LeftNat
        <5> HIDE DEF S
        <5> QED BY <1>1, <2>3, <5>1, <5>2
      <4>3. /\ u[<<p[1] + 1, p[2] + 1>>] = t[<<p[1] + 1, p[2] + 1>>]
            /\ u[<<p[1] + 1, p[2]>>] = t[<<p[1] + 1, p[2]>>]
            /\ u[<<p[1], p[2] + 1>>] = t[<<p[1], p[2] + 1>>]
        BY <2>2, <4>2
      <4> QED BY <4>3 DEF TableAt
    <3> QED BY <3>1, <3>2
  <2>4. ASSUME NEW p \in S, Left(before, after, p) <= r + 1
        PROVE  u[p] = At1(u, p)
    <3>1. CASE Left(before, after, p) = r + 1
      BY <1>1, <2>3, <2>4, <3>1
    <3>2. CASE Left(before, after, p) # r + 1
      <4>1. Left(before, after, p) <= r
        BY <1>1, <2>4, <3>2, LeftNat
      <4> QED BY <1>1, <2>2, <2>3, <2>4, <4>1
    <3> QED BY <3>1, <3>2
  <2> QED BY <2>1, <2>4
<1>2. Stuck = {}
  <2> SUFFICES ASSUME Stuck # {} PROVE FALSE
    OBVIOUS
  <2>1. PICK r \in Stuck : \A s \in Stuck : r <= s
    <3>1. Stuck \in SUBSET Nat
      OBVIOUS
    <3> HIDE DEF Stuck
    <3> QED BY <3>1, LeastNat
  <2>2. r \in Nat /\ ~\E t : Upto(t, r)
    OBVIOUS
  <2>3. CASE r = 0
    <3> DEFINE u == [p \in S |-> 0]
    <3>1. ASSUME NEW p \in S, Left(before, after, p) <= 0
          PROVE  u[p] = At1(u, p)
      <4>1. p[1] > Len(before)
        BY <3>1 DEF Left, Places, IsBody
      <4> QED BY <4>1 DEF TableAt
    <3>2. u = [p \in S |-> u[p]]
      OBVIOUS
    <3> HIDE DEF u, At1, S
    <3>3. Upto(u, 0)
      BY <3>1, <3>2
    <3> QED BY <2>2, <2>3, <3>3
  <2>4. CASE r # 0
    <3>1. r - 1 \in Nat /\ r - 1 \notin Stuck
      <4>1. r - 1 \in Nat /\ ~(r <= r - 1)
        BY <2>2, <2>4
      <4> QED BY <2>1, <4>1
    <3>2. PICK t : Upto(t, r - 1)
      BY <3>1
    <3> DEFINE u == [p \in S |-> IF Left(before, after, p) = (r - 1) + 1 THEN At1(t, p) ELSE t[p]]
    <3> HIDE DEF Upto, At1, S, Stuck
    <3>3. Upto(u, (r - 1) + 1)
      BY <1>1, <3>1, <3>2
    <3>4. (r - 1) + 1 = r
      BY <2>2
    <3> QED BY <2>2, <3>3, <3>4
  <2> QED BY <2>3, <2>4
<1>3. \E t : t = [p \in S |-> At1(t, p)]
  <2> DEFINE n == Len(before) + Len(after)
  <2>1. n \in Nat /\ n \notin Stuck
    <3> HIDE DEF Stuck
    <3> QED BY <1>2 DEF IsBody
  <2>2. PICK t : Upto(t, n)
    <3> HIDE DEF Upto, n
    <3> QED BY <2>1
  <2>3. \A p \in S : t[p] = At1(t, p)
    BY <2>2, LeftNat
  <2> HIDE DEF At1, S
  <2> QED BY <2>2, <2>3
<1>4. Common(before, after) = CHOOSE t : t = [p \in S |-> At1(t, p)]
  BY DEF Common, TableAt
<1> HIDE DEF At1, S
<1>5. Common(before, after) = [p \in S |-> At1(Common(before, after), p)]
  BY <1>3, <1>4
<1>6. \A p \in S : Common(before, after)[p] = At1(Common(before, after), p)
  BY <1>5
<1> QED BY <1>6 DEF At1, S

LEMMA WalkUnfolds ==
  ASSUME NEW before, IsBody(before), NEW after, IsBody(after)
  PROVE  \A p \in Places(before, after) :
           Walk(before, after)[p] = WalkAt(before, after, Common(before, after), Walk(before, after), p)
<1> DEFINE S == Places(before, after)
           At1(t, p) == WalkAt(before, after, Common(before, after), t, p)
           Upto(t, r) == /\ t = [p \in S |-> t[p]]
                         /\ \A p \in S : Left(before, after, p) <= r => t[p] = At1(t, p)
           Stuck == {r \in Nat : ~\E t : Upto(t, r)}
<1>1. ASSUME NEW r \in Nat, NEW t, Upto(t, r),
             NEW u, u = [p \in S |-> IF Left(before, after, p) = r + 1 THEN At1(t, p) ELSE t[p]]
      PROVE  Upto(u, r + 1)
  <2>1. u = [p \in S |-> u[p]]
    BY <1>1
  <2>2. \A p \in S : Left(before, after, p) <= r => u[p] = t[p]
    BY <1>1, LeftNat
  <2>3. ASSUME NEW p \in S, Left(before, after, p) <= r + 1
        PROVE  At1(u, p) = At1(t, p)
    <3>1. CASE p[1] > Len(before) \/ p[2] > Len(after)
      BY <3>1 DEF WalkAt
    <3>2. CASE ~(p[1] > Len(before) \/ p[2] > Len(after))
      <4>1. p[1] <= Len(before) /\ p[2] <= Len(after)
        BY <3>2, LeftNat DEF IsBody
      <4>2. \A q \in {<<p[1] + 1, p[2] + 1>>, <<p[1] + 1, p[2]>>, <<p[1], p[2] + 1>>} :
              q \in S /\ Left(before, after, q) <= r
        <5>1. /\ \A q \in {<<p[1] + 1, p[2] + 1>>, <<p[1] + 1, p[2]>>, <<p[1], p[2] + 1>>} :
                   q \in S /\ Left(before, after, q) < Left(before, after, p)
              /\ Left(before, after, p) \in Nat
          BY <4>1, PlacesNext, LeftNat
        <5>2. \A q \in S : Left(before, after, q) \in Nat
          BY LeftNat
        <5> HIDE DEF S
        <5> QED BY <1>1, <2>3, <5>1, <5>2
      <4>3. /\ u[<<p[1] + 1, p[2] + 1>>] = t[<<p[1] + 1, p[2] + 1>>]
            /\ u[<<p[1] + 1, p[2]>>] = t[<<p[1] + 1, p[2]>>]
            /\ u[<<p[1], p[2] + 1>>] = t[<<p[1], p[2] + 1>>]
        BY <2>2, <4>2
      <4> QED BY <4>3 DEF WalkAt
    <3> QED BY <3>1, <3>2
  <2>4. ASSUME NEW p \in S, Left(before, after, p) <= r + 1
        PROVE  u[p] = At1(u, p)
    <3>1. CASE Left(before, after, p) = r + 1
      BY <1>1, <2>3, <2>4, <3>1
    <3>2. CASE Left(before, after, p) # r + 1
      <4>1. Left(before, after, p) <= r
        BY <1>1, <2>4, <3>2, LeftNat
      <4> QED BY <1>1, <2>2, <2>3, <2>4, <4>1
    <3> QED BY <3>1, <3>2
  <2> QED BY <2>1, <2>4
<1>2. Stuck = {}
  <2> SUFFICES ASSUME Stuck # {} PROVE FALSE
    OBVIOUS
  <2>1. PICK r \in Stuck : \A s \in Stuck : r <= s
    <3>1. Stuck \in SUBSET Nat
      OBVIOUS
    <3> HIDE DEF Stuck
    <3> QED BY <3>1, LeastNat
  <2>2. r \in Nat /\ ~\E t : Upto(t, r)
    OBVIOUS
  <2>3. CASE r = 0
    <3> DEFINE u == [p \in S |-> At1(<< >>, p)]
    <3>1. ASSUME NEW p \in S, Left(before, after, p) <= 0
          PROVE  u[p] = At1(u, p)
      <4>1. p[1] > Len(before)
        BY <3>1 DEF Left, Places, IsBody
      <4> QED BY <4>1 DEF WalkAt
    <3>2. u = [p \in S |-> u[p]]
      <4> HIDE DEF At1, S
      <4> QED OBVIOUS
    <3> HIDE DEF u, At1, S
    <3>3. Upto(u, 0)
      BY <3>1, <3>2
    <3> QED BY <2>2, <2>3, <3>3
  <2>4. CASE r # 0
    <3>1. r - 1 \in Nat /\ r - 1 \notin Stuck
      <4>1. r - 1 \in Nat /\ ~(r <= r - 1)
        BY <2>2, <2>4
      <4> QED BY <2>1, <4>1
    <3>2. PICK t : Upto(t, r - 1)
      BY <3>1
    <3> DEFINE u == [p \in S |-> IF Left(before, after, p) = (r - 1) + 1 THEN At1(t, p) ELSE t[p]]
    <3> HIDE DEF Upto, At1, S, Stuck
    <3>3. Upto(u, (r - 1) + 1)
      BY <1>1, <3>1, <3>2
    <3>4. (r - 1) + 1 = r
      BY <2>2
    <3> QED BY <2>2, <3>3, <3>4
  <2> QED BY <2>3, <2>4
<1>3. \E t : t = [p \in S |-> At1(t, p)]
  <2> DEFINE n == Len(before) + Len(after)
  <2>1. n \in Nat /\ n \notin Stuck
    <3> HIDE DEF Stuck
    <3> QED BY <1>2 DEF IsBody
  <2>2. PICK t : Upto(t, n)
    <3> HIDE DEF Upto, n
    <3> QED BY <2>1
  <2>3. \A p \in S : t[p] = At1(t, p)
    BY <2>2, LeftNat
  <2> HIDE DEF At1, S
  <2> QED BY <2>2, <2>3
<1>4. Walk(before, after) = CHOOSE t : t = [p \in S |-> At1(t, p)]
  BY DEF Walk, WalkAt
<1> HIDE DEF At1, S
<1>5. Walk(before, after) = [p \in S |-> At1(Walk(before, after), p)]
  BY <1>3, <1>4
<1>6. \A p \in S : Walk(before, after)[p] = At1(Walk(before, after), p)
  BY <1>5
<1> QED BY <1>6 DEF At1, S

\* What SameLines says of a choice f of line for line.
Matching(before, after, p, q, f) ==
  /\ f \in [p -> q]
  /\ \A l \in q : \E k \in p : f[k] = l
  /\ \A k \in p : before[k] = after[f[k]]
  /\ \A k, l \in p : k < l => f[k] < f[l]

LEMMA Matched ==
  ASSUME NEW before, NEW after, NEW p \in SUBSET Nat, NEW q \in SUBSET Nat
  PROVE  SameLines(before, after, p, q) <=> \E f : Matching(before, after, p, q, f)
<1>1. ASSUME NEW f \in Bijection(p, q),
             \A i \in p : before[i] = after[f[i]],
             \A i, j \in p : i < j => f[i] < f[j]
      PROVE  Matching(before, after, p, q, f)
  BY <1>1 DEF Matching, Bijection, Surjection
<1>2. ASSUME NEW f, Matching(before, after, p, q, f)
      PROVE  f \in Bijection(p, q)
  <2>1. ASSUME NEW a \in p, NEW b \in p, f[a] = f[b] PROVE a = b
    <3>1. f[a] \in Nat /\ f[b] \in Nat /\ a \in Nat /\ b \in Nat
      BY <1>2 DEF Matching
    <3>2. a < b => f[a] < f[b]
      BY <1>2 DEF Matching
    <3>3. b < a => f[b] < f[a]
      BY <1>2 DEF Matching
    <3> QED BY <2>1, <3>1, <3>2, <3>3
  <2>2. f \in Injection(p, q)
    BY <1>2, <2>1 DEF Matching, Injection, IsInjective
  <2> QED BY <1>2, <2>2 DEF Matching, Bijection, Surjection
<1>3. SameLines(before, after, p, q) => \E f : Matching(before, after, p, q, f)
  BY <1>1 DEF SameLines
<1>4. ASSUME NEW f, Matching(before, after, p, q, f)
      PROVE  SameLines(before, after, p, q)
  <2>1. /\ \A i \in p : before[i] = after[f[i]]
        /\ \A i, j \in p : i < j => f[i] < f[j]
    BY <1>4 DEF Matching
  <2>2. f \in Bijection(p, q)
    BY <1>2, <1>4
  <2> QED BY <2>1, <2>2 DEF SameLines
<1> QED BY <1>3, <1>4

\* A pair taken out of a matching leaves one.
LEMMA PairOut ==
  ASSUME NEW before, NEW after, NEW p \in SUBSET Nat, NEW q \in SUBSET Nat,
         NEW f, Matching(before, after, p, q, f), NEW k \in p
  PROVE  /\ f[k] \in q
         /\ SameLines(before, after, p \ {k}, q \ {f[k]})
<1> DEFINE g == [i \in p \ {k} |-> f[i]]
<1>1. f[k] \in q
  BY DEF Matching
<1>2. \A i \in p \ {k} : f[i] # f[k]
  <2>1. ASSUME NEW i \in p \ {k} PROVE f[i] # f[k]
    <3>1. i \in p /\ k \in p /\ f[i] \in q /\ f[k] \in q /\ i # k
      BY DEF Matching
    <3>2. i < k => f[i] < f[k]
      BY <3>1 DEF Matching
    <3>3. k < i => f[k] < f[i]
      BY <3>1 DEF Matching
    <3>4. i \in Nat /\ k \in Nat /\ f[i] \in Nat /\ f[k] \in Nat
      BY <3>1
    <3> QED BY <3>1, <3>2, <3>3, <3>4
  <2> QED BY <2>1
<1>3. g \in [p \ {k} -> q \ {f[k]}]
  BY <1>2 DEF Matching
<1>4. \A l \in q \ {f[k]} : \E i \in p \ {k} : g[i] = l
  <2> SUFFICES ASSUME NEW l \in q \ {f[k]} PROVE \E i \in p \ {k} : g[i] = l
    OBVIOUS
  <2>1. PICK i \in p : f[i] = l
    BY DEF Matching
  <2> QED BY <2>1
<1>5. Matching(before, after, p \ {k}, q \ {f[k]}, g)
  BY <1>3, <1>4 DEF Matching
<1>6. p \ {k} \in SUBSET Nat /\ q \ {f[k]} \in SUBSET Nat
  OBVIOUS
<1> HIDE DEF g
<1> QED BY <1>1, <1>5, <1>6, Matched

\* A pair of equal lines put before a matching makes one.
LEMMA PairIn ==
  ASSUME NEW before, NEW after, NEW p \in SUBSET Nat, NEW q \in SUBSET Nat,
         SameLines(before, after, p, q), NEW k \in Nat, NEW l \in Nat,
         before[k] = after[l], \A i \in p : k < i, \A j \in q : l < j
  PROVE  SameLines(before, after, p \cup {k}, q \cup {l})
<1>1. PICK f : Matching(before, after, p, q, f)
  BY Matched
<1> DEFINE g == [i \in p \cup {k} |-> IF i = k THEN l ELSE f[i]]
<1>2. k \notin p /\ l \notin q
  OBVIOUS
<1>3. g \in [p \cup {k} -> q \cup {l}]
  BY <1>1 DEF Matching
<1>4. g[k] = l /\ \A i \in p : g[i] = f[i]
  BY <1>2
<1>5. \A m \in q \cup {l} : \E i \in p \cup {k} : g[i] = m
  BY <1>1, <1>4 DEF Matching
<1>6. \A i \in p \cup {k} : before[i] = after[g[i]]
  BY <1>1, <1>4 DEF Matching
<1>7. ASSUME NEW a \in p \cup {k}, NEW b \in p \cup {k}, a < b PROVE g[a] < g[b]
  <2>1. CASE b = k
    BY <1>7, <2>1
  <2>2. CASE b # k /\ a = k
    <3>1. g[a] = l /\ g[b] = f[b] /\ f[b] \in q
      BY <1>1, <1>4, <2>2 DEF Matching
    <3> QED BY <3>1
  <2>3. CASE b # k /\ a # k
    BY <1>1, <1>4, <1>7, <2>3 DEF Matching
  <2> QED BY <2>1, <2>2, <2>3
<1> HIDE DEF g
<1>8. Matching(before, after, p \cup {k}, q \cup {l}, g)
  BY <1>3, <1>5, <1>6, <1>7 DEF Matching
<1>9. p \cup {k} \in SUBSET Nat /\ q \cup {l} \in SUBSET Nat
  OBVIOUS
<1> QED BY <1>8, <1>9, Matched

\* What can be said of the lines at hand: no line of a matching of the rest
\* is left of them, so if both are in it they are a pair of it.
LEMMA FirstPair ==
  ASSUME NEW before, NEW after, NEW p \in SUBSET Nat, NEW q \in SUBSET Nat,
         NEW f, Matching(before, after, p, q, f),
         NEW k \in p, NEW l \in q, \A i \in p : k <= i, \A j \in q : l <= j
  PROVE  f[k] = l
<1>1. PICK i \in p : f[i] = l
  BY DEF Matching
<1>2. f[k] \in Nat /\ l <= f[k] /\ k <= i /\ k \in Nat /\ i \in Nat
  BY DEF Matching
<1>3. CASE k = i
  BY <1>1, <1>3
<1>4. CASE k # i
  <2>1. f[k] < f[i]
    BY <1>2, <1>4 DEF Matching
  <2> QED BY <1>1, <1>2, <2>1
<1> QED BY <1>3, <1>4

\* What the table says of a place: no choice of equal lines from there on, in
\* the same order, is larger than its number.
Bounded(before, after, i, j) ==
  \A p \in SUBSET (i..Len(before)), q \in SUBSET (j..Len(after)) :
    SameLines(before, after, p, q) => Cardinality(p) <= Common(before, after)[<<i, j>>]

\* What the walk does from a place: the lines it does not show are such a
\* choice, as large as the number.
Reached(before, after, i, j) ==
  LET w == Walk(before, after)[<<i, j>>]
      p == (i..Len(before)) \ w.removed
      q == (j..Len(after)) \ w.added
  IN /\ w.removed \subseteq i..Len(before)
     /\ w.added \subseteq j..Len(after)
     /\ SameLines(before, after, p, q)
     /\ Cardinality(p) = Common(before, after)[<<i, j>>]

Right(before, after, i, j) ==
  /\ Common(before, after)[<<i, j>>] \in Nat
  /\ Bounded(before, after, i, j)
  /\ Reached(before, after, i, j)

\* One step of both recursions, at a place named by its two numbers.
LEMMA StepAtEnd ==
  ASSUME NEW before, IsBody(before), NEW after, IsBody(after),
         NEW i \in 1..(Len(before) + 1), NEW j \in 1..(Len(after) + 1),
         i > Len(before) \/ j > Len(after)
  PROVE  /\ Common(before, after)[<<i, j>>] = 0
         /\ Walk(before, after)[<<i, j>>] =
              [removed |-> i..Len(before), added |-> j..Len(after)]
<1>1. <<i, j>> \in Places(before, after)
  BY DEF Places
<1>2. Common(before, after)[<<i, j>>] = TableAt(before, after, Common(before, after), <<i, j>>)
  BY <1>1, TableUnfolds
<1>3. Walk(before, after)[<<i, j>>] =
        WalkAt(before, after, Common(before, after), Walk(before, after), <<i, j>>)
  BY <1>1, WalkUnfolds
<1> QED BY <1>2, <1>3 DEF TableAt, WalkAt

LEMMA StepOnEqual ==
  ASSUME NEW before, IsBody(before), NEW after, IsBody(after),
         NEW i \in 1..Len(before), NEW j \in 1..Len(after), before[i] = after[j]
  PROVE  /\ Common(before, after)[<<i, j>>] = Common(before, after)[<<i + 1, j + 1>>] + 1
         /\ Walk(before, after)[<<i, j>>] = Walk(before, after)[<<i + 1, j + 1>>]
<1>1. <<i, j>> \in Places(before, after)
  BY DEF Places, IsBody
<1>2. Common(before, after)[<<i, j>>] = TableAt(before, after, Common(before, after), <<i, j>>)
  BY <1>1, TableUnfolds
<1>3. Walk(before, after)[<<i, j>>] =
        WalkAt(before, after, Common(before, after), Walk(before, after), <<i, j>>)
  BY <1>1, WalkUnfolds
<1>4. ~(i > Len(before) \/ j > Len(after))
  BY DEF IsBody
<1> QED BY <1>2, <1>3, <1>4 DEF TableAt, WalkAt

LEMMA StepOnBefore ==
  ASSUME NEW before, IsBody(before), NEW after, IsBody(after),
         NEW i \in 1..Len(before), NEW j \in 1..Len(after), before[i] # after[j],
         Advance(Common(before, after), i, j) = "before"
  PROVE  /\ Common(before, after)[<<i, j>>] = Common(before, after)[<<i + 1, j>>]
         /\ Walk(before, after)[<<i, j>>].removed =
              Walk(before, after)[<<i + 1, j>>].removed \cup {i}
         /\ Walk(before, after)[<<i, j>>].added =
              Walk(before, after)[<<i + 1, j>>].added
<1>1. <<i, j>> \in Places(before, after)
  BY DEF Places, IsBody
<1>2. Common(before, after)[<<i, j>>] = TableAt(before, after, Common(before, after), <<i, j>>)
  BY <1>1, TableUnfolds
<1>3. Walk(before, after)[<<i, j>>] =
        WalkAt(before, after, Common(before, after), Walk(before, after), <<i, j>>)
  BY <1>1, WalkUnfolds
<1>4. ~(i > Len(before) \/ j > Len(after))
  BY DEF IsBody
<1>5. Common(before, after)[<<i, j>>] = Common(before, after)[<<i + 1, j>>]
  BY <1>2, <1>4 DEF TableAt, Advance
<1>6. Walk(before, after)[<<i, j>>] =
        [removed |-> Walk(before, after)[<<i + 1, j>>].removed \cup {i},
         added   |-> Walk(before, after)[<<i + 1, j>>].added]
  BY <1>3, <1>4 DEF WalkAt
<1> QED BY <1>5, <1>6

LEMMA StepOnAfter ==
  ASSUME NEW before, IsBody(before), NEW after, IsBody(after),
         NEW i \in 1..Len(before), NEW j \in 1..Len(after), before[i] # after[j],
         Advance(Common(before, after), i, j) # "before"
  PROVE  /\ Common(before, after)[<<i, j>>] = Common(before, after)[<<i, j + 1>>]
         /\ Walk(before, after)[<<i, j>>].removed =
              Walk(before, after)[<<i, j + 1>>].removed
         /\ Walk(before, after)[<<i, j>>].added =
              Walk(before, after)[<<i, j + 1>>].added \cup {j}
<1>1. <<i, j>> \in Places(before, after)
  BY DEF Places, IsBody
<1>2. Common(before, after)[<<i, j>>] = TableAt(before, after, Common(before, after), <<i, j>>)
  BY <1>1, TableUnfolds
<1>3. Walk(before, after)[<<i, j>>] =
        WalkAt(before, after, Common(before, after), Walk(before, after), <<i, j>>)
  BY <1>1, WalkUnfolds
<1>4. ~(i > Len(before) \/ j > Len(after))
  BY DEF IsBody
<1>5. Common(before, after)[<<i, j>>] = Common(before, after)[<<i, j + 1>>]
  BY <1>2, <1>4 DEF TableAt, Advance
<1>6. Walk(before, after)[<<i, j>>] =
        [removed |-> Walk(before, after)[<<i, j + 1>>].removed,
         added   |-> Walk(before, after)[<<i, j + 1>>].added \cup {j}]
  BY <1>3, <1>4 DEF WalkAt
<1> QED BY <1>5, <1>6

\* A part of the lines of a body is finite.
LEMMA PartFinite ==
  ASSUME NEW before, IsBody(before), NEW i \in Nat, NEW p \in SUBSET (i..Len(before))
  PROVE  IsFiniteSet(p) /\ Cardinality(p) \in Nat
<1>1. Len(before) \in Int /\ i \in Int
  BY DEF IsBody
<1>2. IsFiniteSet(i..Len(before))
  BY <1>1, FS_Interval
<1> QED BY <1>2, FS_Subset, FS_CardinalityType

\* At the end of either body nothing is in common.
LEMMA RightAtEnd ==
  ASSUME NEW before, IsBody(before), NEW after, IsBody(after),
         NEW i \in 1..(Len(before) + 1), NEW j \in 1..(Len(after) + 1),
         i > Len(before) \/ j > Len(after)
  PROVE  Right(before, after, i, j)
<1>1. /\ Common(before, after)[<<i, j>>] = 0
      /\ Walk(before, after)[<<i, j>>] = [removed |-> i..Len(before), added |-> j..Len(after)]
  BY StepAtEnd
<1>2. i..Len(before) = {} \/ j..Len(after) = {}
  BY DEF IsBody
<1>3. Bounded(before, after, i, j)
  <2> SUFFICES ASSUME NEW p \in SUBSET (i..Len(before)), NEW q \in SUBSET (j..Len(after)),
                      SameLines(before, after, p, q)
               PROVE  Cardinality(p) <= 0
    BY <1>1 DEF Bounded
  <2>1. p \in SUBSET Nat /\ q \in SUBSET Nat
    BY DEF IsBody
  <2>2. PICK f : Matching(before, after, p, q, f)
    BY <2>1, Matched
  <2>3. p = {}
    BY <1>2, <2>2 DEF Matching
  <2> QED BY <2>3, FS_EmptySet
<1>4. SameLines(before, after, {}, {})
  <2>1. Matching(before, after, {}, {}, [k \in {} |-> k])
    BY DEF Matching
  <2> QED BY <2>1, Matched
<1>5. Reached(before, after, i, j)
  <2> DEFINE w == Walk(before, after)[<<i, j>>]
  <2>1. w.removed = i..Len(before) /\ w.added = j..Len(after)
    BY <1>1
  <2>2. (i..Len(before)) \ w.removed = {} /\ (j..Len(after)) \ w.added = {}
    BY <2>1
  <2> QED BY <1>1, <1>4, <2>1, <2>2, FS_EmptySet DEF Reached
<1> QED BY <1>1, <1>3, <1>5 DEF Right

\* Where the lines at hand are equal: one of any choice is paired with them or
\* may be replaced by them.
LEMMA RightOnEqual ==
  ASSUME NEW before, IsBody(before), NEW after, IsBody(after),
         NEW i \in 1..Len(before), NEW j \in 1..Len(after), before[i] = after[j],
         Right(before, after, i + 1, j + 1)
  PROVE  Right(before, after, i, j)
<1> DEFINE m == Len(before)
           n == Len(after)
           c == Common(before, after)[<<i + 1, j + 1>>]
           w == Walk(before, after)[<<i + 1, j + 1>>]
<1>1. m \in Nat /\ n \in Nat /\ i \in 1..m /\ j \in 1..n /\ c \in Nat
  BY DEF IsBody, Right
<1>2. /\ Common(before, after)[<<i, j>>] = c + 1
      /\ Walk(before, after)[<<i, j>>] = w
  BY StepOnEqual
<1>3. \A p \in SUBSET ((i + 1)..m), q \in SUBSET ((j + 1)..n) :
        SameLines(before, after, p, q) => Cardinality(p) <= c
  BY DEF Right, Bounded
<1>4. /\ w.removed \subseteq (i + 1)..m
      /\ w.added \subseteq (j + 1)..n
      /\ SameLines(before, after, ((i + 1)..m) \ w.removed, ((j + 1)..n) \ w.added)
      /\ Cardinality(((i + 1)..m) \ w.removed) = c
  BY DEF Right, Reached
<1> HIDE DEF c, w
<1>5. Bounded(before, after, i, j)
  <2> SUFFICES ASSUME NEW p \in SUBSET (i..m), NEW q \in SUBSET (j..n),
                      SameLines(before, after, p, q)
               PROVE  Cardinality(p) <= c + 1
    BY <1>2 DEF Bounded
  <2>1. p \in SUBSET Nat /\ q \in SUBSET Nat
    BY <1>1
  <2>2. PICK f : Matching(before, after, p, q, f)
    BY <2>1, Matched
  <2>3. IsFiniteSet(p) /\ Cardinality(p) \in Nat
    BY <1>1, PartFinite
  <2>4. ASSUME NEW k \in p, p \ {k} \subseteq (i + 1)..m, q \ {f[k]} \subseteq (j + 1)..n
        PROVE  Cardinality(p) <= c + 1
    <3>1. SameLines(before, after, p \ {k}, q \ {f[k]})
      BY <2>1, <2>2, PairOut
    <3>2. Cardinality(p \ {k}) <= c
      BY <1>3, <2>4, <3>1
    <3>3. Cardinality(p \ {k}) = Cardinality(p) - 1
      BY <2>3, FS_RemoveElement
    <3> QED BY <1>1, <2>3, <3>2, <3>3
  <2>5. /\ \A k \in p : k \in Nat /\ i <= k /\ k <= m
        /\ \A l \in q : l \in Nat /\ j <= l /\ l <= n
    BY <1>1
  <2>6. CASE i \in p
    <3>1. p \ {i} \subseteq (i + 1)..m
      BY <1>1, <2>5
    <3>2. CASE j \in q
      <4>1. f[i] = j
        BY <2>1, <2>2, <2>5, <2>6, <3>2, FirstPair
      <4>2. q \ {j} \subseteq (j + 1)..n
        BY <1>1, <2>5
      <4> QED BY <2>4, <2>6, <3>1, <4>1, <4>2
    <3>3. CASE j \notin q
      <4>1. q \subseteq (j + 1)..n
        BY <1>1, <2>5, <3>3
      <4>2. q \ {f[i]} \subseteq (j + 1)..n
        BY <4>1
      <4> QED BY <2>4, <2>6, <3>1, <4>2
    <3> QED BY <3>2, <3>3
  <2>7. CASE i \notin p /\ j \in q
    <3>1. PICK k \in p : f[k] = j
      BY <2>2, <2>7 DEF Matching
    <3>2. p \ {k} \subseteq (i + 1)..m /\ q \ {f[k]} \subseteq (j + 1)..n
      BY <1>1, <2>5, <2>7, <3>1
    <3> QED BY <2>4, <3>2
  <2>8. CASE i \notin p /\ j \notin q
    <3>1. p \subseteq (i + 1)..m /\ q \subseteq (j + 1)..n
      BY <1>1, <2>5, <2>8
    <3>2. Cardinality(p) <= c
      BY <1>3, <3>1
    <3> QED BY <1>1, <2>3, <3>2
  <2> QED BY <2>6, <2>7, <2>8
<1>6. Reached(before, after, i, j)
  <2> DEFINE p == ((i + 1)..m) \ w.removed
             q == ((j + 1)..n) \ w.added
  <2>1. (i..m) \ w.removed = p \cup {i} /\ (j..n) \ w.added = q \cup {j}
    BY <1>1, <1>4
  <2>2. p \in SUBSET Nat /\ q \in SUBSET Nat /\ \A k \in p : i < k /\ \A l \in q : j < l
    BY <1>1
  <2>3. p \in SUBSET ((i + 1)..m) /\ \A k \in p : i < k
    BY <1>1
  <2>4. \A l \in q : j < l
    BY <1>1
  <2>5. SameLines(before, after, p, q) /\ Cardinality(p) = c
    BY <1>4
  <2>6. IsFiniteSet(p) /\ i \notin p
    <3> HIDE DEF p
    <3> QED BY <1>1, <2>3, PartFinite
  <2>7. w.removed \subseteq i..m /\ w.added \subseteq j..n
    BY <1>1, <1>4
  <2> HIDE DEF p, q
  <2>8. SameLines(before, after, p \cup {i}, q \cup {j})
    <3>1. i \in Nat /\ j \in Nat
      BY <1>1
    <3> QED BY <2>2, <2>3, <2>4, <2>5, <3>1, PairIn
  <2>9. Cardinality(p \cup {i}) = c + 1
    BY <2>5, <2>6, FS_AddElement
  <2> QED BY <1>2, <2>1, <2>7, <2>8, <2>9 DEF Reached
<1>7. Common(before, after)[<<i, j>>] \in Nat
  BY <1>1, <1>2
<1> QED BY <1>5, <1>6, <1>7 DEF Right

\* Where they differ: no choice can have both, so it is one from the next
\* line of one of the bodies on, and the walk goes where the larger one is.
LEMMA RightOnDifferent ==
  ASSUME NEW before, IsBody(before), NEW after, IsBody(after),
         NEW i \in 1..Len(before), NEW j \in 1..Len(after), before[i] # after[j],
         Right(before, after, i + 1, j), Right(before, after, i, j + 1)
  PROVE  Right(before, after, i, j)
<1> DEFINE m == Len(before)
           n == Len(after)
           c == Common(before, after)
           w == Walk(before, after)
<1>1. /\ m \in Nat /\ n \in Nat /\ i \in 1..m /\ j \in 1..n
      /\ c[<<i + 1, j>>] \in Nat /\ c[<<i, j + 1>>] \in Nat
  BY DEF IsBody, Right
<1>2. \A p \in SUBSET ((i + 1)..m), q \in SUBSET (j..n) :
        SameLines(before, after, p, q) => Cardinality(p) <= c[<<i + 1, j>>]
  BY DEF Right, Bounded
<1>3. \A p \in SUBSET (i..m), q \in SUBSET ((j + 1)..n) :
        SameLines(before, after, p, q) => Cardinality(p) <= c[<<i, j + 1>>]
  BY DEF Right, Bounded
<1>4. ASSUME NEW p \in SUBSET (i..m), NEW q \in SUBSET (j..n),
             SameLines(before, after, p, q)
      PROVE  Cardinality(p) <= c[<<i + 1, j>>] \/ Cardinality(p) <= c[<<i, j + 1>>]
  <2>1. p \in SUBSET Nat /\ q \in SUBSET Nat
    BY <1>1
  <2>2. PICK f : Matching(before, after, p, q, f)
    BY <1>4, <2>1, Matched
  <2>3. /\ \A k \in p : k \in Nat /\ i <= k /\ k <= m
        /\ \A l \in q : l \in Nat /\ j <= l /\ l <= n
    BY <1>1
  <2>4. i \notin p \/ j \notin q
    <3> SUFFICES ASSUME i \in p, j \in q PROVE FALSE
      OBVIOUS
    <3>1. f[i] = j
      BY <2>1, <2>2, <2>3, FirstPair
    <3> QED BY <2>2, <3>1 DEF Matching
  <2>5. CASE i \notin p
    <3>1. p \subseteq (i + 1)..m
      BY <1>1, <2>3, <2>5
    <3> QED BY <1>2, <1>4, <3>1
  <2>6. CASE j \notin q
    <3>1. q \subseteq (j + 1)..n
      BY <1>1, <2>3, <2>6
    <3> QED BY <1>3, <1>4, <3>1
  <2> QED BY <2>4, <2>5, <2>6
<1>5. ASSUME NEW p \in SUBSET (i..m) PROVE Cardinality(p) \in Nat
  <2>1. i \in Nat
    BY <1>1
  <2> QED BY <2>1, PartFinite
<1>6. /\ w[<<i + 1, j>>].removed \subseteq (i + 1)..m
      /\ w[<<i + 1, j>>].added \subseteq j..n
      /\ SameLines(before, after, ((i + 1)..m) \ w[<<i + 1, j>>].removed,
                                  (j..n) \ w[<<i + 1, j>>].added)
      /\ Cardinality(((i + 1)..m) \ w[<<i + 1, j>>].removed) = c[<<i + 1, j>>]
  BY DEF Right, Reached
<1>7. /\ w[<<i, j + 1>>].removed \subseteq i..m
      /\ w[<<i, j + 1>>].added \subseteq (j + 1)..n
      /\ SameLines(before, after, (i..m) \ w[<<i, j + 1>>].removed,
                                  ((j + 1)..n) \ w[<<i, j + 1>>].added)
      /\ Cardinality((i..m) \ w[<<i, j + 1>>].removed) = c[<<i, j + 1>>]
  BY DEF Right, Reached
<1>8. CASE Advance(Common(before, after), i, j) = "before"
  <2> DEFINE R == w[<<i + 1, j>>].removed
             A == w[<<i + 1, j>>].added
  <2>1. /\ c[<<i, j>>] = c[<<i + 1, j>>]
        /\ w[<<i, j>>].removed = R \cup {i}
        /\ w[<<i, j>>].added = A
    BY <1>8, StepOnBefore
  <2>5. c[<<i + 1, j>>] >= c[<<i, j + 1>>]
    BY <1>8 DEF Advance
  <2> HIDE DEF c, w
  <2>2. (i..m) \ (R \cup {i}) = ((i + 1)..m) \ R /\ R \cup {i} \subseteq i..m
    BY <1>1, <1>6
  <2>3. Bounded(before, after, i, j)
    <3> SUFFICES ASSUME NEW p \in SUBSET (i..m), NEW q \in SUBSET (j..n),
                        SameLines(before, after, p, q)
                 PROVE  Cardinality(p) <= c[<<i + 1, j>>]
      BY <2>1 DEF Bounded, c
    <3>1. Cardinality(p) <= c[<<i + 1, j>>] \/ Cardinality(p) <= c[<<i, j + 1>>]
      BY <1>4
    <3> QED BY <1>1, <1>5, <2>5, <3>1
  <2>4. Reached(before, after, i, j)
    <3> HIDE DEF R, A
    <3>1. /\ A \subseteq j..n
          /\ SameLines(before, after, ((i + 1)..m) \ R, (j..n) \ A)
          /\ Cardinality(((i + 1)..m) \ R) = c[<<i + 1, j>>]
      BY <1>6 DEF R, A
    <3> QED BY <2>1, <2>2, <3>1 DEF Reached, c, w
  <2> QED BY <1>1, <2>1, <2>3, <2>4 DEF Right, c
<1>9. CASE Advance(Common(before, after), i, j) # "before"
  <2> DEFINE R == w[<<i, j + 1>>].removed
             A == w[<<i, j + 1>>].added
  <2>1. /\ c[<<i, j>>] = c[<<i, j + 1>>]
        /\ w[<<i, j>>].removed = R
        /\ w[<<i, j>>].added = A \cup {j}
    BY <1>9, StepOnAfter
  <2>5. ~(c[<<i + 1, j>>] >= c[<<i, j + 1>>])
    BY <1>9 DEF Advance
  <2> HIDE DEF c, w
  <2>2. (j..n) \ (A \cup {j}) = ((j + 1)..n) \ A /\ A \cup {j} \subseteq j..n
    <3>1. A \subseteq (j + 1)..n
      BY <1>7
    <3> HIDE DEF A
    <3> QED BY <1>1, <3>1
  <2>3. Bounded(before, after, i, j)
    <3> SUFFICES ASSUME NEW p \in SUBSET (i..m), NEW q \in SUBSET (j..n),
                        SameLines(before, after, p, q)
                 PROVE  Cardinality(p) <= c[<<i, j + 1>>]
      BY <2>1 DEF Bounded, c
    <3>1. Cardinality(p) <= c[<<i + 1, j>>] \/ Cardinality(p) <= c[<<i, j + 1>>]
      BY <1>4
    <3> QED BY <1>1, <1>5, <2>5, <3>1
  <2>4. Reached(before, after, i, j)
    <3> HIDE DEF R, A
    <3>1. /\ R \subseteq i..m
          /\ SameLines(before, after, (i..m) \ R, ((j + 1)..n) \ A)
          /\ Cardinality((i..m) \ R) = c[<<i, j + 1>>]
      BY <1>7 DEF R, A
    <3> QED BY <2>1, <2>2, <3>1 DEF Reached, c, w
  <2> QED BY <1>1, <2>1, <2>3, <2>4 DEF Right, c
<1> QED BY <1>8, <1>9

\* All places, by the number of lines left.
LEMMA AllRight ==
  ASSUME NEW before, IsBody(before), NEW after, IsBody(after)
  PROVE  \A i \in 1..(Len(before) + 1), j \in 1..(Len(after) + 1) :
           Right(before, after, i, j)
<1> DEFINE m == Len(before)
           n == Len(after)
           D(i, j) == (m + 1 - i) + (n + 1 - j)
           Wrong == {r \in Nat : \E i \in 1..(m + 1), j \in 1..(n + 1) :
                       r = D(i, j) /\ ~Right(before, after, i, j)}
<1>1. m \in Nat /\ n \in Nat
  BY DEF IsBody
<1>2. Wrong = {}
  <2> SUFFICES ASSUME Wrong # {} PROVE FALSE
    OBVIOUS
  <2>1. PICK r \in Wrong : \A s \in Wrong : r <= s
    <3>1. Wrong \in SUBSET Nat
      OBVIOUS
    <3> HIDE DEF Wrong
    <3> QED BY <3>1, LeastNat
  <2>2. r \in Nat
    OBVIOUS
  <2>3. PICK i \in 1..(m + 1), j \in 1..(n + 1) : r = D(i, j) /\ ~Right(before, after, i, j)
    OBVIOUS
  <2>4. ASSUME NEW k \in 1..(m + 1), NEW l \in 1..(n + 1), D(k, l) < D(i, j)
        PROVE  Right(before, after, k, l)
    <3>1. D(k, l) \in Nat /\ D(i, j) \in Nat
      BY <1>1
    <3>2. D(k, l) \notin Wrong
      <4>1. ~(r <= D(k, l))
        BY <2>3, <2>4, <3>1
      <4> HIDE DEF Wrong, D
      <4> QED BY <2>1, <4>1
    <3> HIDE DEF D
    <3> QED BY <3>1, <3>2
  <2> HIDE DEF Wrong
  <2>5. CASE i > m \/ j > n
    BY <2>3, <2>5, RightAtEnd
  <2>6. CASE i <= m /\ j <= n
    <3>1. i \in 1..m /\ j \in 1..n /\ i + 1 \in 1..(m + 1) /\ j + 1 \in 1..(n + 1)
      BY <1>1, <2>6
    <3>2. D(i + 1, j + 1) < D(i, j) /\ D(i + 1, j) < D(i, j) /\ D(i, j + 1) < D(i, j)
      BY <1>1, <3>1
    <3> HIDE DEF D
    <3>3. /\ Right(before, after, i + 1, j + 1)
          /\ Right(before, after, i + 1, j)
          /\ Right(before, after, i, j + 1)
      BY <2>4, <3>1, <3>2
    <3> HIDE DEF m, n
    <3>4. CASE before[i] = after[j]
      BY <2>3, <3>1, <3>3, <3>4, RightOnEqual DEF m, n
    <3>5. CASE before[i] # after[j]
      BY <2>3, <3>1, <3>3, <3>5, RightOnDifferent DEF m, n
    <3> QED BY <3>4, <3>5
  <2> QED BY <1>1, <2>5, <2>6
<1>3. ASSUME NEW i \in 1..(m + 1), NEW j \in 1..(n + 1) PROVE Right(before, after, i, j)
  <2>1. D(i, j) \in Nat
    BY <1>1
  <2> HIDE DEF D
  <2> QED BY <1>2, <2>1
<1> QED BY <1>3

\* Whatever two bodies are compared, the lines shown as removed and added are
\* exact and as few as can be (diffLines of skill-diff).
THEOREM LineDiffMinimal == LineDiffIsMinimal
<1> DEFINE bodies == {LinesOf(body) : body \in UNION {[1..n -> Lines] : n \in 0..MaxBody}}
<1>1. ASSUME NEW before \in bodies PROVE IsBody(before)
  <2>1. PICK body \in UNION {[1..n -> Lines] : n \in 0..MaxBody} : before = LinesOf(body)
    OBVIOUS
  <2>2. PICK n \in 0..MaxBody : body \in [1..n -> Lines]
    OBVIOUS
  <2>3. n \in Nat
    OBVIOUS
  <2>4. body \in Seq(Lines)
    BY <2>2, <2>3
  <2>5. before = body \/ before = <<Blank>>
    BY <2>1 DEF LinesOf
  <2>6. IsBody(<<Blank>>) /\ IsBody(body)
    BY <2>4 DEF IsBody
  <2> QED BY <2>5, <2>6
<1> SUFFICES ASSUME NEW before \in bodies, NEW after \in bodies
             PROVE  LET d == DiffLines(before, after)
                        keptBefore == DOMAIN before \ d.removed
                        keptAfter  == DOMAIN after \ d.added
                    IN
                    /\ SameLines(before, after, keptBefore, keptAfter)
                    /\ \A p \in SUBSET DOMAIN before, q \in SUBSET DOMAIN after :
                         SameLines(before, after, p, q) => Cardinality(p) <= Cardinality(keptBefore)
  BY DEF LineDiffIsMinimal
<1>2. IsBody(before) /\ IsBody(after)
  BY <1>1
<1> HIDE DEF bodies
<1>3. Right(before, after, 1, 1)
  <2>1. 1 \in 1..(Len(before) + 1) /\ 1 \in 1..(Len(after) + 1)
    BY <1>2 DEF IsBody
  <2> QED BY <1>2, <2>1, AllRight
<1>4. DOMAIN before = 1..Len(before) /\ DOMAIN after = 1..Len(after)
  BY <1>2 DEF IsBody
<1> QED BY <1>3, <1>4 DEF Right, Bounded, Reached, DiffLines

-----------------------------------------------------------------------------
\* The diff of fields and sections.

\* Patching with the entries of a diff gives the newer version back.
LEMMA PatchRestores ==
  ASSUME NEW kind, NEW before, NEW after, NEW entries,
         after = [t \in DOMAIN after |-> after[t]],
         {e \in entries : e.kind = kind} = Changes(kind, before, after)
  PROVE  Patched(kind, before, entries) = after
<1> DEFINE entry(change, t, b, a) ==
             [kind |-> kind, change |-> change, target |-> t, before |-> b, after |-> a]
           mine == {e \in entries : e.kind = kind}
           gone == {e.target : e \in {f \in mine : f.change = "removed"}}
           new  == {e \in mine : e.change # "removed"}
           Lost  == {entry("removed", t, before[t], << >>) : t \in DOMAIN before \ DOMAIN after}
           Added == {entry("added", t, << >>, after[t]) : t \in DOMAIN after \ DOMAIN before}
           Kept  == {entry("modified", t, before[t], after[t]) :
                       t \in {u \in DOMAIN before \cap DOMAIN after : before[u] # after[u]}}
<1>1. mine = Lost \cup Added \cup Kept
  <2>1. (DOMAIN before \cup DOMAIN after) \ DOMAIN after = DOMAIN before \ DOMAIN after
    OBVIOUS
  <2>2. (DOMAIN before \cup DOMAIN after) \ DOMAIN before = DOMAIN after \ DOMAIN before
    OBVIOUS
  <2> QED BY <2>1, <2>2 DEF Changes, Compared
<1>2. /\ \A e \in Lost : e.change = "removed" /\ e.target \in DOMAIN before \ DOMAIN after
      /\ \A e \in Added : /\ e.change = "added" /\ e.target \in DOMAIN after \ DOMAIN before
                          /\ e.after = after[e.target]
      /\ \A e \in Kept : /\ e.change = "modified" /\ e.target \in DOMAIN before \cap DOMAIN after
                         /\ e.after = after[e.target] /\ before[e.target] # after[e.target]
  OBVIOUS
<1>3. /\ \A t \in DOMAIN before \ DOMAIN after : \E e \in Lost : e.target = t
      /\ \A t \in DOMAIN after \ DOMAIN before : \E e \in Added : e.target = t
      /\ \A t \in DOMAIN before \cap DOMAIN after :
           before[t] # after[t] => \E e \in Kept : e.target = t
  <2>1. ASSUME NEW t \in DOMAIN before \ DOMAIN after PROVE \E e \in Lost : e.target = t
    <3>1. entry("removed", t, before[t], << >>) \in Lost
      OBVIOUS
    <3> QED BY <3>1
  <2>2. ASSUME NEW t \in DOMAIN after \ DOMAIN before PROVE \E e \in Added : e.target = t
    <3>1. entry("added", t, << >>, after[t]) \in Added
      OBVIOUS
    <3> QED BY <3>1
  <2>3. ASSUME NEW t \in DOMAIN before \cap DOMAIN after, before[t] # after[t]
        PROVE  \E e \in Kept : e.target = t
    <3>1. entry("modified", t, before[t], after[t]) \in Kept
      BY <2>3
    <3> QED BY <3>1
  <2> HIDE DEF Lost, Added, Kept
  <2> QED BY <2>1, <2>2, <2>3
<1> HIDE DEF Lost, Added, Kept, mine
<1>4. gone = DOMAIN before \ DOMAIN after
  BY <1>1, <1>2, <1>3
<1>5. new = Added \cup Kept
  <2>1. \A e \in mine : e.change # "removed" <=> e \in Added \cup Kept
    BY <1>1, <1>2
  <2> QED BY <1>1, <2>1
<1> HIDE DEF gone, new
<1>6. (DOMAIN before \ gone) \cup {e.target : e \in new} = DOMAIN after
  <2>1. \A e \in new : e.target \in DOMAIN after
    BY <1>2, <1>5
  <2>2. \A t \in DOMAIN after \ DOMAIN before : \E e \in new : e.target = t
    BY <1>3, <1>5
  <2> QED BY <1>4, <2>1, <2>2
<1>7. ASSUME NEW t \in DOMAIN after
      PROVE  (IF \E e \in new : e.target = t THEN (CHOOSE e \in new : e.target = t).after
                                             ELSE before[t]) = after[t]
  <2>1. CASE \E e \in new : e.target = t
    <3>1. PICK e : e = (CHOOSE x \in new : x.target = t) /\ e \in new /\ e.target = t
      BY <2>1
    <3> QED BY <1>2, <1>5, <2>1, <3>1
  <2>2. CASE ~\E e \in new : e.target = t
    BY <1>3, <1>5, <2>2
  <2> QED BY <2>1, <2>2
<1>8. Patched(kind, before, entries) =
        [t \in DOMAIN after |-> IF \E e \in new : e.target = t
                                  THEN (CHOOSE e \in new : e.target = t).after ELSE before[t]]
  BY <1>6 DEF Patched, mine, gone, new
<1> QED BY <1>7, <1>8

\* Entries of a diff are of one kind.
LEMMA OneKind ==
  ASSUME NEW kind, NEW before, NEW after
  PROVE  \A e \in Changes(kind, before, after) : e.kind = kind
  BY DEF Changes

-----------------------------------------------------------------------------
\* The sections of a text.  Its headings are found by a recursion over its
\* lines, which has a solution.
StartAt(text, s, i) ==
  IF i = 0 THEN << >>
  ELSE IF text[i] \in Titles THEN Append(s[i - 1], i) ELSE s[i - 1]

Start(text) == CHOOSE s : s = [i \in 0..Len(text) |-> StartAt(text, s, i)]

LEMMA StartUnfolds ==
  ASSUME NEW text, Len(text) \in Nat
  PROVE  \A i \in 0..Len(text) : Start(text)[i] = StartAt(text, Start(text), i)
<1> DEFINE n == Len(text)
           Upto(s, r) == /\ s = [i \in 0..n |-> s[i]]
                         /\ \A i \in 0..n : i <= r => s[i] = StartAt(text, s, i)
           Stuck == {r \in Nat : ~\E s : Upto(s, r)}
<1>1. ASSUME NEW r \in Nat, NEW s, Upto(s, r),
             NEW u, u = [i \in 0..n |-> IF i = r + 1 THEN StartAt(text, s, i) ELSE s[i]]
      PROVE  Upto(u, r + 1)
  <2>1. \A i \in 0..n : i <= r => u[i] = s[i]
    BY <1>1
  <2>2. ASSUME NEW i \in 0..n, i <= r + 1 PROVE StartAt(text, u, i) = StartAt(text, s, i)
    <3>1. CASE i = 0
      BY <3>1 DEF StartAt
    <3>2. CASE i # 0
      <4>1. i - 1 \in 0..n /\ i - 1 <= r
        BY <1>1, <2>2, <3>2
      <4>2. u[i - 1] = s[i - 1]
        BY <2>1, <4>1
      <4> QED BY <4>2 DEF StartAt
    <3> QED BY <3>1, <3>2
  <2>3. ASSUME NEW i \in 0..n, i <= r + 1 PROVE u[i] = StartAt(text, u, i)
    <3>1. CASE i = r + 1
      BY <1>1, <2>2, <2>3, <3>1
    <3>2. CASE i # r + 1
      <4>1. i <= r
        BY <1>1, <2>3, <3>2
      <4> QED BY <1>1, <2>1, <2>2, <2>3, <4>1
    <3> QED BY <3>1, <3>2
  <2>4. u = [i \in 0..n |-> u[i]]
    BY <1>1
  <2> QED BY <2>3, <2>4
<1>2. Stuck = {}
  <2> SUFFICES ASSUME Stuck # {} PROVE FALSE
    OBVIOUS
  <2>1. PICK r \in Stuck : \A s \in Stuck : r <= s
    <3>1. Stuck \in SUBSET Nat
      OBVIOUS
    <3> HIDE DEF Stuck
    <3> QED BY <3>1, LeastNat
  <2>2. r \in Nat /\ ~\E s : Upto(s, r)
    OBVIOUS
  <2>3. CASE r = 0
    <3> DEFINE u == [i \in 0..n |-> << >>]
    <3>1. \A i \in 0..n : i <= 0 => u[i] = StartAt(text, u, i)
      BY DEF StartAt
    <3>2. u = [i \in 0..n |-> u[i]]
      OBVIOUS
    <3> HIDE DEF u
    <3>3. Upto(u, 0)
      BY <3>1, <3>2
    <3> QED BY <2>2, <2>3, <3>3
  <2>4. CASE r # 0
    <3>1. r - 1 \in Nat /\ r - 1 \notin Stuck
      <4>1. r - 1 \in Nat /\ ~(r <= r - 1)
        BY <2>2, <2>4
      <4> HIDE DEF Stuck
      <4> QED BY <2>1, <4>1
    <3>2. PICK s : Upto(s, r - 1)
      BY <3>1
    <3> DEFINE u == [i \in 0..n |-> IF i = (r - 1) + 1 THEN StartAt(text, s, i) ELSE s[i]]
    <3> HIDE DEF Upto, Stuck
    <3>3. Upto(u, (r - 1) + 1)
      BY <1>1, <3>1, <3>2
    <3>4. (r - 1) + 1 = r
      BY <2>2
    <3> QED BY <2>2, <3>3, <3>4
  <2> QED BY <2>3, <2>4
<1>3. \E s : s = [i \in 0..Len(text) |-> StartAt(text, s, i)]
  <2>1. n \notin Stuck
    <3> HIDE DEF Stuck
    <3> QED BY <1>2
  <2>2. PICK s : Upto(s, n)
    <3> HIDE DEF Upto
    <3> QED BY <2>1
  <2>3. \A i \in 0..n : s[i] = StartAt(text, s, i)
    BY <2>2
  <2>4. s = [i \in 0..n |-> StartAt(text, s, i)]
    BY <2>2, <2>3
  <2> QED BY <2>4
<1>4. Start(text) = [i \in 0..Len(text) |-> StartAt(text, Start(text), i)]
  BY <1>3 DEF Start
<1> QED BY <1>4

LEMMA StartType ==
  ASSUME NEW text, Len(text) \in Nat
  PROVE  \A i \in 0..Len(text) : Start(text)[i] \in Seq(Nat)
<1> DEFINE Wrong == {i \in 0..Len(text) : Start(text)[i] \notin Seq(Nat)}
<1> SUFFICES ASSUME Wrong # {} PROVE FALSE
  OBVIOUS
<1>1. PICK i \in Wrong : \A j \in Wrong : i <= j
  <2>1. Wrong \in SUBSET Nat
    OBVIOUS
  <2> HIDE DEF Wrong
  <2> QED BY <2>1, LeastNat
<1>2. i \in 0..Len(text) /\ Start(text)[i] \notin Seq(Nat)
  OBVIOUS
<1>3. Start(text)[i] = StartAt(text, Start(text), i)
  BY <1>2, StartUnfolds
<1>4. i # 0
  BY <1>2, <1>3 DEF StartAt
<1>5. i - 1 \in 0..Len(text) /\ i - 1 \notin Wrong
  <2>1. i - 1 \in 0..Len(text) /\ ~(i <= i - 1)
    BY <1>2, <1>4
  <2> HIDE DEF Wrong
  <2> QED BY <1>1, <2>1
<1>6. Start(text)[i - 1] \in Seq(Nat)
  BY <1>5
<1>7. Append(Start(text)[i - 1], i) \in Seq(Nat)
  BY <1>2, <1>6
<1> QED BY <1>2, <1>3, <1>4, <1>6, <1>7 DEF StartAt

\* Sections are a sequence of records.
IsSections(s) ==
  /\ Len(s) \in Nat /\ DOMAIN s = 1..Len(s)
  /\ \A k \in DOMAIN s : s[k] = [title |-> s[k].title, body |-> s[k].body]

LEMMA SectionsType ==
  ASSUME NEW text, Len(text) \in Nat
  PROVE  IsSections(Sections(text))
<1> DEFINE heads == Start(text)[Len(text)]
           ends  == Append(heads, Len(text) + 1)
           preamble == Trimmed(SubSeq(text, 1, ends[1] - 1))
           At(k) == [title |-> TitleOf[text[heads[k]]],
                     body  |-> Trimmed(SubSeq(text, heads[k] + 1, ends[k + 1] - 1))]
           first == IF preamble = << >> THEN << >> ELSE <<[title |-> "", body |-> preamble]>>
           rest  == [k \in DOMAIN heads |-> At(k)]
           All   == {[title |-> "", body |-> preamble]} \cup {At(k) : k \in DOMAIN heads}
<1>1. Sections(text) = first \o rest
  BY DEF Sections, Start, StartAt
<1>2. heads \in Seq(Nat)
  BY StartType
<1> HIDE DEF heads, preamble
<1> DEFINE top == [title |-> "", body |-> preamble]
<1>3. \A x \in All : x = [title |-> x.title, body |-> x.body]
  <2>1. top = [title |-> top.title, body |-> top.body]
    OBVIOUS
  <2>2. \A k \in DOMAIN heads : At(k) = [title |-> At(k).title, body |-> At(k).body]
    OBVIOUS
  <2>3. \A x \in All : x = top \/ \E k \in DOMAIN heads : x = At(k)
    OBVIOUS
  <2> HIDE DEF All, At, top
  <2> QED BY <2>1, <2>2, <2>3
<1>4. first \in Seq(All)
  <2>1. top \in All /\ (first = << >> \/ first = <<top>>)
    OBVIOUS
  <2> HIDE DEF All, first, top
  <2>2. <<top>> \in Seq(All) /\ << >> \in Seq(All)
    BY <2>1
  <2> QED BY <2>1, <2>2
<1>5. rest \in Seq(All)
  <2>1. DOMAIN heads = 1..Len(heads) /\ Len(heads) \in Nat
    BY <1>2
  <2>2. \A k \in DOMAIN heads : At(k) \in All
    OBVIOUS
  <2> HIDE DEF All, At
  <2> QED BY <2>1, <2>2
<1> HIDE DEF first, rest, All
<1>6. first \o rest \in Seq(All)
  BY <1>4, <1>5
<1>7. ASSUME NEW s \in Seq(All) PROVE IsSections(s)
  BY <1>3 DEF IsSections
<1> QED BY <1>1, <1>6, <1>7

\* With no title twice, each title has the body of its one section.
LEMMA BodyOfSection ==
  ASSUME NEW text, Len(text) \in Nat, Distinct(Sections(text))
  PROVE  /\ DOMAIN BodyOf(text) = {Sections(text)[k].title : k \in DOMAIN Sections(text)}
         /\ \A k \in DOMAIN Sections(text) :
              BodyOf(text)[Sections(text)[k].title] = Sections(text)[k].body
<1> DEFINE s == Sections(text)
           last(t) == SelectLastInSeq(s, LAMBDA x : x.title = t)
<1>1. IsSections(s)
  BY SectionsType
<1>2. ASSUME NEW k \in DOMAIN s PROVE last(s[k].title) = k
  <2> DEFINE I == {i \in 1..Len(s) : s[i].title = s[k].title}
  <2>1. I = {k}
    BY <1>1 DEF Distinct, IsSections
  <2>2. last(s[k].title) = IF I # {} THEN Max(I) ELSE 0
    BY DEF SelectLastInSeq
  <2>3. k \in Nat
    BY <1>1 DEF IsSections
  <2>4. Max({k}) = k
    BY <2>3 DEF Max
  <2> HIDE DEF I
  <2> QED BY <2>1, <2>2, <2>4
<1>3. Mapped(s) = [t \in {s[k].title : k \in DOMAIN s} |-> last(t)]
  BY DEF Mapped
<1>4. BodyOf(text) = [t \in DOMAIN Mapped(s) |-> s[Mapped(s)[t]].body]
  BY DEF BodyOf
<1> HIDE DEF last, s
<1>5. DOMAIN Mapped(s) = {s[k].title : k \in DOMAIN s}
  BY <1>3
<1>6. ASSUME NEW k \in DOMAIN s PROVE BodyOf(text)[s[k].title] = s[k].body
  <2>1. s[k].title \in DOMAIN Mapped(s)
    BY <1>5
  <2>2. Mapped(s)[s[k].title] = k
    BY <1>2, <1>3, <2>1
  <2> QED BY <1>4, <2>1, <2>2
<1>7. DOMAIN BodyOf(text) = {s[k].title : k \in DOMAIN s}
  BY <1>4, <1>5
<1> QED BY <1>6, <1>7 DEF s

\* So two such texts with the same bodies have the same sections.
LEMMA SameSections ==
  ASSUME NEW t, Len(t) \in Nat, Distinct(Sections(t)),
         NEW u, Len(u) \in Nat, Distinct(Sections(u)),
         BodyOf(t) = BodyOf(u)
  PROVE  ToSet(Sections(t)) \subseteq ToSet(Sections(u))
<1> DEFINE s == Sections(t)
           r == Sections(u)
<1>1. IsSections(s) /\ IsSections(r)
  BY SectionsType
<1>2. /\ DOMAIN BodyOf(t) = {s[k].title : k \in DOMAIN s}
      /\ \A k \in DOMAIN s : BodyOf(t)[s[k].title] = s[k].body
  BY BodyOfSection
<1>3. /\ DOMAIN BodyOf(u) = {r[k].title : k \in DOMAIN r}
      /\ \A k \in DOMAIN r : BodyOf(u)[r[k].title] = r[k].body
  BY BodyOfSection
<1> HIDE DEF s, r
<1>4. ASSUME NEW k \in DOMAIN s PROVE \E j \in DOMAIN r : s[k] = r[j]
  <2>1. PICK j \in DOMAIN r : r[j].title = s[k].title
    BY <1>2, <1>3
  <2>2. r[j].body = s[k].body
    BY <1>2, <1>3, <2>1
  <2>3. /\ s[k] = [title |-> s[k].title, body |-> s[k].body]
        /\ r[j] = [title |-> r[j].title, body |-> r[j].body]
    BY <1>1 DEF IsSections
  <2>4. s[k] = r[j]
    BY <2>1, <2>2, <2>3
  <2> QED BY <2>4
<1> QED BY <1>4 DEF ToSet, s, r

\* Where at most one section has one of the titles, that is the one found.
LEMMA FoundIsSet ==
  ASSUME NEW s, NEW aliases, DOMAIN s \subseteq Nat,
         \A j, k \in DOMAIN s : {s[j].title, s[k].title} \subseteq aliases => j = k
  PROVE  Found(s, aliases) = {x \in ToSet(s) : x.title \in aliases}
<1> DEFINE hits == {k \in DOMAIN s : s[k].title \in aliases}
           least == CHOOSE k \in hits : \A j \in hits : k <= j
<1>1. \A j, k \in hits : j = k
  OBVIOUS
<1>2. CASE hits = {}
  BY <1>2 DEF Found, ToSet
<1>3. CASE hits # {}
  <2>1. PICK k \in hits : hits = {k}
    BY <1>1, <1>3
  <2>2. k \in Nat
    OBVIOUS
  <2>3. k \in hits /\ \A j \in hits : k <= j
    BY <2>1, <2>2
  <2>4. least \in hits
    <3> HIDE DEF hits
    <3> QED BY <2>3
  <2>5. least = k
    BY <2>1, <2>4
  <2>6. Found(s, aliases) = {s[k]}
    <3>1. Found(s, aliases) = {s[least]}
      BY <1>3 DEF Found
    <3> QED BY <2>5, <3>1
  <2>7. {x \in ToSet(s) : x.title \in aliases} = {s[i] : i \in hits}
    BY DEF ToSet
  <2> HIDE DEF hits
  <2> QED BY <2>1, <2>6, <2>7
<1> QED BY <1>2, <1>3

\* If besides no capability has two sections, the quality report is the same.
LEMMA SameWarnings ==
  ASSUME NEW s, DOMAIN s \subseteq Nat, NEW r, DOMAIN r \subseteq Nat,
         ToSet(s) = ToSet(r), Distinct(r),
         \A c \in DOMAIN Capability : \A j, k \in DOMAIN s :
           {s[j].title, s[k].title} \subseteq Capability[c] => j = k
  PROVE  SectionWarnings(s) = SectionWarnings(r)
<1>1. ASSUME NEW c \in DOMAIN Capability, NEW j \in DOMAIN r, NEW k \in DOMAIN r,
             {r[j].title, r[k].title} \subseteq Capability[c]
      PROVE  j = k
  <2>1. r[j] \in ToSet(s) /\ r[k] \in ToSet(s)
    BY DEF ToSet
  <2>2. PICK i \in DOMAIN s, l \in DOMAIN s : s[i] = r[j] /\ s[l] = r[k]
    BY <2>1 DEF ToSet
  <2>3. i = l
    BY <1>1, <2>2
  <2> QED BY <2>2, <2>3 DEF Distinct
<1>2. ASSUME NEW c \in DOMAIN Capability
      PROVE  Found(s, Capability[c]) = Found(r, Capability[c])
  <2>1. Found(s, Capability[c]) = {x \in ToSet(s) : x.title \in Capability[c]}
    BY FoundIsSet
  <2>2. Found(r, Capability[c]) = {x \in ToSet(r) : x.title \in Capability[c]}
    BY <1>1, FoundIsSet
  <2> QED BY <2>1, <2>2
<1>3. /\ Found(s, Capability["trigger"]) = Found(r, Capability["trigger"])
      /\ Found(s, Capability["workflow"]) = Found(r, Capability["workflow"])
      /\ Found(s, Capability["verification"]) = Found(r, Capability["verification"])
      /\ Found(s, Capability["failure"]) = Found(r, Capability["failure"])
  BY <1>2, DiffAssumption
<1> QED BY <1>3 DEF SectionWarnings

\* Whatever two texts and two sets of fields are compared, the diff a reviewer
\* reads tells all (diffSkillMarkdown, splitSections, validateSkillDocument).
THEOREM DiffTells == DiffTellsAll
<1>1. ASSUME NEW t \in Texts PROVE Len(t) \in Nat
  <2>1. PICK n \in 0..MaxText : t \in [1..n -> Titles \cup Lines]
    BY DEF Texts
  <2>2. t \in Seq(Titles \cup Lines)
    BY <2>1
  <2> QED BY <2>2
<1>2. ASSUME NEW t \in Texts, NEW u \in Texts
      PROVE  Patched("section", BodyOf(t), Changes("section", BodyOf(t), BodyOf(u))) = BodyOf(u)
  <2>1. BodyOf(u) = [x \in DOMAIN BodyOf(u) |-> BodyOf(u)[x]]
    BY DEF BodyOf
  <2>2. {e \in Changes("section", BodyOf(t), BodyOf(u)) : e.kind = "section"}
          = Changes("section", BodyOf(t), BodyOf(u))
    BY OneKind
  <2> QED BY <2>1, <2>2, PatchRestores
<1>3. ASSUME NEW t \in Texts, NEW u \in Texts, Distinct(Sections(t)), Distinct(Sections(u)),
             BodyOf(t) = BodyOf(u)
      PROVE  ToSet(Sections(t)) = ToSet(Sections(u))
  <2>1. Len(t) \in Nat /\ Len(u) \in Nat
    BY <1>1
  <2>2. ToSet(Sections(t)) \subseteq ToSet(Sections(u))
    BY <1>3, <2>1, SameSections
  <2>3. ToSet(Sections(u)) \subseteq ToSet(Sections(t))
    BY <1>3, <2>1, SameSections
  <2> QED BY <2>2, <2>3
<1>4. ASSUME NEW t \in Texts, NEW u \in Texts, Distinct(Sections(t)), Distinct(Sections(u)),
             BodyOf(t) = BodyOf(u),
             \A c \in DOMAIN Capability : \A j, k \in DOMAIN Sections(t) :
               {Sections(t)[j].title, Sections(t)[k].title} \subseteq Capability[c] => j = k
      PROVE  SectionWarnings(Sections(t)) = SectionWarnings(Sections(u))
  <2>1. DOMAIN Sections(t) \subseteq Nat /\ DOMAIN Sections(u) \subseteq Nat
    BY <1>1, SectionsType DEF IsSections
  <2>2. ToSet(Sections(t)) = ToSet(Sections(u))
    BY <1>3, <1>4
  <2> QED BY <1>4, <2>1, <2>2, SameWarnings
<1>5. ASSUME NEW f \in [Fields -> Values \cup {NoField}],
             NEW g \in [Fields -> Values \cup {NoField}]
      PROVE  LET from == [fields |-> f, text |-> << >>]
                 to   == [fields |-> g, text |-> << >>]
             IN Patched("field", ScalarFields(from), Diff(from, to)) = ScalarFields(to)
  <2> DEFINE from == [fields |-> f, text |-> << >>]
             to   == [fields |-> g, text |-> << >>]
             b    == ScalarFields(from)
             a    == ScalarFields(to)
             C    == Changes("field", b, a)
             D    == Changes("section", BodyOf(from.text), BodyOf(to.text))
  <2>1. a = [x \in DOMAIN a |-> a[x]]
    BY DEF ScalarFields
  <2>2. Diff(from, to) = C \cup D
    BY DEF Diff
  <2>3. (\A e \in C : e.kind = "field") /\ (\A e \in D : e.kind = "section")
    BY OneKind
  <2> HIDE DEF a, b, D, from, to
  <2>4. {e \in C \cup D : e.kind = "field"} = Changes("field", b, a)
    BY <2>3
  <2> HIDE DEF C
  <2>5. Patched("field", b, C \cup D) = a
    BY <2>1, <2>4, PatchRestores
  <2> QED BY <2>2, <2>5 DEF a, b, from, to
<1> QED BY <1>2, <1>3, <1>4, <1>5 DEF DiffTellsAll

\* Of any two versions a reviewer asks to compare, the diff shows exactly what
\* was changed: DiffIsExact holds of all texts and bodies, so in every state.
THEOREM ReviewsAreExact == Spec => []ReviewShowsTheChange
<1>1. DiffIsExact
  BY DiffTells, LineDiffMinimal DEF DiffIsExact
<1>2. ReviewShowsTheChange
  BY <1>1 DEF ReviewShowsTheChange
<1> QED BY <1>2, PTL

=============================================================================
