------------------------ MODULE ContextRecall_proof ------------------------
(***************************************************************************)
(* Proofs about EmbeddingSync and the recalls that ContextRecall adds, for *)
(* every set of assets, texts and requests and every size of a batch; and  *)
(* about their answers: budgets (RecallBudget) for all documents and all   *)
(* limits, matching and conflicts (TextMatch, ConflictTasks) for all texts.*)
(***************************************************************************)
EXTENDS MCRecall, SequenceTheorems, Induction

-----------------------------------------------------------------------------
\* The index.

\* What a synchronisation still has to embed was on a list, as what is indexed.
TodoOffered ==
  \A y \in Syncs, a \in Assets :
    sync[y].todo[a] # NoText => sync[y].todo[a] \in offered[a]

\* The asset is done, or its text of the list is still to be embedded.
Covered(y, a) ==
  LET due == Listing(sync[y].drafts)[a] IN
  \/ sync[y].todo[a] = due /\ due # NoText
  \/ sync[y].todo[a] = NoText /\ index[a] = due

\* How far an undisturbed synchronisation has come: its kind is covered, the
\* memories are done when it is at the skills, and before that the list of
\* the skills is as it was read - and still what a list would be now.
CalmSound(y) ==
  /\ \A z \in Syncs : Running(z) <=> z = y
  /\ \A a \in OfKind(sync[y].kind) : Covered(y, a)
  /\ sync[y].kind = "memory" =>
       \A k \in Skills : sync[y].todo[k] = Listing(sync[y].drafts)[k]
  /\ sync[y].kind = "skill" =>
       \A m \in Memories : index[m] = Listing(sync[y].drafts)[m]

\* Between synchronisations the history says what the index is.
SyncInv ==
  /\ TypeOK
  /\ OnlyOfferedIndexed
  /\ TodoOffered
  /\ \A y \in calm : CalmSound(y)
  /\ exact # "unknown" => /\ index = Listing(exact = "drafts")
                          /\ \A y \in Syncs : ~Running(y)

GovernedOK ==
  /\ status  \in [Assets -> Statuses \cup {"absent"}]
  /\ text    \in [Assets -> Texts]
  /\ expired \subseteq Memories

\* A list holds texts of assets, and nothing for what is not recallable.
LEMMA ListingTyped ==
  ASSUME GovernedOK, NEW drafts
  PROVE  Listing(drafts) \in [Assets -> OptText]
  BY DEF GovernedOK, Listing, OptText

\* What remains pending of a list is on it, and what is left of the index was
\* in it.
LEMMA PendingIsListed ==
  ASSUME NEW kind, NEW list \in [Assets -> OptText], TypeOK
  PROVE  /\ Pending(kind, list) \in [Assets -> OptText]
         /\ Cleaned(kind, list) \in [Assets -> OptText]
         /\ \A a \in Assets :
              /\ Pending(kind, list)[a] # NoText => Pending(kind, list)[a] = list[a]
              /\ Cleaned(kind, list)[a] # NoText => Cleaned(kind, list)[a] = index[a]
  BY DEF Pending, Cleaned, TypeOK, OptText

\* Striking a list and cleaning the index covers every asset of the kind.
LEMMA PendingCovers ==
  ASSUME NEW kind, NEW list \in [Assets -> OptText], TypeOK,
         NEW a \in OfKind(kind) \cap Assets
  PROVE  \/ Pending(kind, list)[a] = list[a] /\ list[a] # NoText
         \/ Pending(kind, list)[a] = NoText /\ Cleaned(kind, list)[a] = list[a]
  BY DEF Pending, Cleaned, TypeOK, OptText

LEMMA KindsDiffer ==
  /\ OfKind("memory") = Memories /\ OfKind("skill") = Skills
  /\ Memories \cap Skills = {}
  /\ Memories \subseteq Assets /\ Skills \subseteq Assets
  BY SyncAssumption DEF OfKind, Assets

-----------------------------------------------------------------------------
\* A synchronisation starts, in the step of a governed change or alone.
LEMMA StartInv ==
  ASSUME SyncInv, GovernedOK', NEW y \in Syncs, NEW drafts \in BOOLEAN, Start(y, drafts)
  PROVE  SyncInv'
<1> DEFINE list == Listing(drafts)'
<1>1. list \in [Assets -> OptText]
  BY ListingTyped DEF GovernedOK, Listing, OptText
<1>2. /\ index' = Cleaned("memory", list)
      /\ sync' = [sync EXCEPT ![y] =
           [kind |-> "memory", drafts |-> drafts, todo |-> Pending("memory", list)]]
      /\ calm' = IF \E z \in Syncs : Running(z) THEN {} ELSE {y}
      /\ exact' = "unknown"
      /\ offered' = [a \in Assets |-> offered[a] \cup ({list[a]} \ {NoText})]
  BY DEF Start
<1> HIDE DEF list
<1>4. TypeOK /\ sync \in [Syncs -> SyncState]
  BY DEF SyncInv, TypeOK
<1>5. TypeOK'
  <2>1. [kind |-> "memory", drafts |-> drafts, todo |-> Pending("memory", list)] \in SyncState
    BY <1>1, <1>4, PendingIsListed DEF SyncState
  <2>2. index' \in [Assets -> OptText]
    BY <1>1, <1>2, <1>4, PendingIsListed
  <2>3. offered' \in [Assets -> SUBSET Texts]
    BY <1>1, <1>2, <1>4 DEF TypeOK, OptText
  <2> QED BY <1>2, <1>4, <2>1, <2>2, <2>3 DEF TypeOK, GovernedOK
<1>6. OnlyOfferedIndexed'
  BY <1>1, <1>2, <1>4, PendingIsListed DEF SyncInv, OnlyOfferedIndexed, TypeOK
<1>7. TodoOffered'
  <2> SUFFICES ASSUME NEW z \in Syncs, NEW a \in Assets, sync'[z].todo[a] # NoText
               PROVE  sync'[z].todo[a] \in offered'[a]
    BY DEF TodoOffered
  <2>1. CASE z = y
    BY <1>1, <1>2, <1>4, <2>1, PendingIsListed
  <2>2. CASE z # y
    BY <1>2, <1>4, <2>2 DEF SyncInv, TodoOffered
  <2> QED BY <2>1, <2>2
<1>8. ASSUME NEW z \in calm' PROVE CalmSound(z)'
  <2>1. z = y /\ \A x \in Syncs : ~Running(x)
    BY <1>2, <1>8
  <2>2. /\ sync'[y].kind = "memory" /\ sync'[y].drafts = drafts
        /\ sync'[y].todo = Pending("memory", list)
        /\ \A x \in Syncs : x # y => sync'[x] = sync[x]
    BY <1>2, <1>4
  <2>3. \A x \in Syncs : Running(x)' <=> x = y
    BY <2>1, <2>2 DEF Running
  <2>4. Listing(sync[y].drafts)' = list
    BY <2>2 DEF list, Listing, Recallable
  <2>5. \A a \in OfKind(sync'[y].kind) : Covered(y, a)'
    BY <1>1, <1>2, <1>4, <2>2, <2>4, PendingCovers, KindsDiffer DEF Covered
  <2>6. \A k \in Skills : sync'[y].todo[k] = list[k]
    BY <1>1, <2>2, KindsDiffer DEF Pending
  <2> QED BY <2>1, <2>2, <2>3, <2>4, <2>5, <2>6 DEF CalmSound, OfKind
<1> QED BY <1>2, <1>5, <1>6, <1>7, <1>8 DEF SyncInv

\* A governed change without a synchronisation ends what was undisturbed.
LEMMA SilentInv ==
  ASSUME SyncInv, GovernedOK', Silently
  PROVE  SyncInv'
<1>1. TypeOK' /\ OnlyOfferedIndexed' /\ TodoOffered'
  BY DEF Silently, SyncInv, TypeOK, GovernedOK, OnlyOfferedIndexed, TodoOffered
<1> QED BY <1>1 DEF Silently, SyncInv

\* A batch is stored with the texts of the list.
LEMMA EmbedBatchInv ==
  ASSUME SyncInv, NEW y \in Syncs, NEW batch, EmbedBatch(y, batch)
  PROVE  SyncInv'
<1>1. /\ TypeOK /\ sync \in [Syncs -> SyncState] /\ index \in [Assets -> OptText]
      /\ Running(y) /\ batch \subseteq Left(y)
  BY DEF SyncInv, TypeOK, EmbedBatch, Batches
<1>2. /\ index' = [a \in Assets |-> IF a \in batch THEN sync[y].todo[a] ELSE index[a]]
      /\ sync'  = [sync EXCEPT ![y].todo =
                     [a \in Assets |-> IF a \in batch THEN NoText ELSE @[a]]]
      /\ UNCHANGED <<governed, calm, exact, offered>>
  BY DEF EmbedBatch
<1>3. /\ sync' \in [Syncs -> SyncState]
      /\ sync'[y].todo = [a \in Assets |-> IF a \in batch THEN NoText ELSE sync[y].todo[a]]
      /\ sync'[y].kind = sync[y].kind /\ sync'[y].drafts = sync[y].drafts
      /\ \A z \in Syncs : z # y => sync'[z] = sync[z]
  BY <1>1, <1>2 DEF SyncState, OptText
<1>4. TypeOK'
  <2>1. index' \in [Assets -> OptText]
    BY <1>1, <1>2 DEF SyncState
  <2> QED BY <1>1, <1>2, <1>3, <2>1 DEF TypeOK, governed
<1>5. OnlyOfferedIndexed' /\ TodoOffered'
  BY <1>1, <1>2, <1>3 DEF SyncInv, OnlyOfferedIndexed, TodoOffered
<1>6. ASSUME NEW z \in calm' PROVE CalmSound(z)'
  <2>1. z \in calm /\ z = y /\ CalmSound(y)
    BY <1>1, <1>2, <1>6 DEF SyncInv, CalmSound
  <2>2. Listing(sync[y].drafts)' = Listing(sync[y].drafts)
    BY <1>2, <1>3 DEF governed, Listing, Recallable
  <2>3. \A x \in Syncs : Running(x)' <=> Running(x)
    BY <1>3 DEF Running
  <2>4. batch \subseteq OfKind(sync[y].kind) /\ \A a \in batch : sync[y].todo[a] # NoText
    BY <1>1 DEF Left
  <2>5. \A a \in OfKind(sync[y].kind) : Covered(y, a)'
    BY <1>2, <1>3, <2>1, <2>2, <2>4, KindsDiffer DEF CalmSound, Covered, OfKind
  <2>6. sync[y].kind = "memory" =>
          \A k \in Skills : sync'[y].todo[k] = Listing(sync[y].drafts)[k]
    BY <1>3, <2>1, <2>4, KindsDiffer DEF CalmSound
  <2>7. sync[y].kind = "skill" =>
          \A m \in Memories : index'[m] = Listing(sync[y].drafts)[m]
    BY <1>2, <2>1, <2>4, KindsDiffer DEF CalmSound
  <2> QED BY <1>3, <2>1, <2>2, <2>3, <2>5, <2>6, <2>7 DEF CalmSound
<1>7. exact' = "unknown"
  BY <1>1, <1>2 DEF SyncInv
<1> QED BY <1>4, <1>5, <1>6, <1>7 DEF SyncInv

\* A synchronisation that fails is calm no more.
LEMMA EmbedFailsInv ==
  ASSUME SyncInv, NEW y \in Syncs, EmbedFails(y)
  PROVE  SyncInv'
<1>1. /\ sync' = [sync EXCEPT ![y] = Idle] /\ calm' = calm \ {y}
      /\ UNCHANGED <<governed, index, exact, offered>> /\ Running(y)
  BY DEF EmbedFails
<1>2. sync \in [Syncs -> SyncState] /\ Idle \in SyncState
  BY DEF SyncInv, TypeOK, Idle, SyncState, Nothing, OptText
<1>3. TypeOK' /\ OnlyOfferedIndexed' /\ TodoOffered'
  BY <1>1, <1>2 DEF SyncInv, TypeOK, governed, OnlyOfferedIndexed, TodoOffered, Idle, Nothing
<1>4. calm' = {} /\ exact' = "unknown"
  BY <1>1 DEF SyncInv, CalmSound, TypeOK
<1> QED BY <1>3, <1>4 DEF SyncInv

\* From the memories to the skills.
LEMMA NextKindInv ==
  ASSUME SyncInv, NEW y \in Syncs, NextKind(y)
  PROVE  SyncInv'
<1> DEFINE list == sync[y].todo
<1>1. /\ TypeOK /\ sync \in [Syncs -> SyncState] /\ list \in [Assets -> OptText]
      /\ sync[y].kind = "memory" /\ Left(y) = {}
      /\ index' = Cleaned("skill", list)
      /\ UNCHANGED <<governed, calm, exact, offered>>
  BY DEF SyncInv, TypeOK, NextKind, SyncState
<1>2. /\ sync' \in [Syncs -> SyncState]
      /\ sync'[y].kind = "skill" /\ sync'[y].drafts = sync[y].drafts
      /\ sync'[y].todo = Pending("skill", list)
      /\ \A z \in Syncs : z # y => sync'[z] = sync[z]
  BY <1>1, PendingIsListed DEF NextKind, SyncState
<1>3. TypeOK'
  <2>1. index' \in [Assets -> OptText]
    BY <1>1, PendingIsListed
  <2> QED BY <1>1, <1>2, <2>1 DEF TypeOK, governed
<1>4. OnlyOfferedIndexed' /\ TodoOffered'
  BY <1>1, <1>2, PendingIsListed DEF SyncInv, OnlyOfferedIndexed, TodoOffered
<1>5. ASSUME NEW z \in calm' PROVE CalmSound(z)'
  <2>1. z = y /\ CalmSound(y) /\ y \in calm
    BY <1>1, <1>5 DEF SyncInv, CalmSound, Running
  <2>2. Listing(sync[y].drafts)' = Listing(sync[y].drafts)
    BY <1>1, <1>2 DEF governed, Listing, Recallable
  <2>3. \A x \in Syncs : Running(x)' <=> Running(x)
    BY <1>1, <1>2 DEF Running
  <2>4. \A k \in Skills : list[k] = Listing(sync[y].drafts)[k]
    BY <1>1, <2>1 DEF CalmSound
  <2>5. \A a \in OfKind("skill") : Covered(y, a)'
    BY <1>1, <1>2, <2>2, <2>4, PendingCovers, KindsDiffer DEF Covered
  <2>6. \A m \in Memories : index'[m] = Listing(sync[y].drafts)[m]
    <3>1. \A m \in Memories : index[m] = Listing(sync[y].drafts)[m]
      BY <1>1, <2>1 DEF CalmSound, Covered, Left, OfKind
    <3> QED BY <1>1, <3>1, KindsDiffer DEF Cleaned
  <2> QED BY <1>2, <2>1, <2>2, <2>3, <2>5, <2>6 DEF CalmSound
<1>6. exact' = "unknown"
  BY <1>1 DEF SyncInv, Running
<1> QED BY <1>3, <1>4, <1>5, <1>6 DEF SyncInv

\* The report of an undisturbed synchronisation is true of the whole index.
LEMMA FinishInv ==
  ASSUME SyncInv, NEW y \in Syncs, Finish(y)
  PROVE  SyncInv'
<1>1. /\ TypeOK /\ sync \in [Syncs -> SyncState] /\ index \in [Assets -> OptText]
      /\ sync[y].kind = "skill" /\ Left(y) = {}
      /\ sync' = [sync EXCEPT ![y] = Idle] /\ calm' = calm \ {y}
      /\ exact' = IF y \notin calm THEN exact
                  ELSE IF sync[y].drafts THEN "drafts" ELSE "verified"
      /\ UNCHANGED <<governed, index, offered>>
  BY DEF Finish, SyncInv, TypeOK
<1>2. Idle \in SyncState /\ Running(y)
  BY <1>1 DEF Idle, SyncState, Nothing, OptText, Running
<1>3. TypeOK' /\ OnlyOfferedIndexed' /\ TodoOffered'
  BY <1>1, <1>2 DEF SyncInv, TypeOK, governed, OnlyOfferedIndexed, TodoOffered, Idle, Nothing
<1>4. calm' = {}
  BY <1>1, <1>2 DEF SyncInv, CalmSound, TypeOK
<1>5. CASE y \notin calm
  <2>1. exact' = "unknown"
    BY <1>1, <1>2, <1>5 DEF SyncInv
  <2> QED BY <1>3, <1>4, <2>1 DEF SyncInv
<1>6. CASE y \in calm
  <2>1. CalmSound(y)
    BY <1>6 DEF SyncInv
  <2>2. \A a \in Assets : index[a] = Listing(sync[y].drafts)[a]
    BY <1>1, <2>1 DEF CalmSound, Covered, Left, OfKind, Assets
  <2>3. index = Listing(sync[y].drafts)
    BY <1>1, <2>2 DEF Listing
  <2>4. sync[y].drafts = (exact' = "drafts")
    BY <1>1, <1>6 DEF SyncState
  <2>5. index' = Listing(exact' = "drafts")
    BY <1>1, <2>3, <2>4
  <2>6. Listing(exact = "drafts")' = Listing(exact' = "drafts")
    BY <1>1 DEF governed, Listing, Recallable
  <2>7. \A z \in Syncs : ~Running(z)'
    BY <1>1, <2>1 DEF CalmSound, Running, Idle
  <2> QED BY <1>3, <1>4, <2>5, <2>6, <2>7 DEF SyncInv
<1> QED BY <1>5, <1>6

\* Every governed change keeps its types.
LEMMA GovernedTyped == TypeOK /\ [Next]_vars => GovernedOK'
<1> SUFFICES ASSUME TypeOK, [Next]_vars PROVE GovernedOK'
  OBVIOUS
<1>1. GovernedOK
  BY DEF TypeOK, GovernedOK
<1>2. UNCHANGED governed => GovernedOK'
  BY <1>1 DEF governed, GovernedOK
<1>3. ASSUME NEW a \in Assets, Propose(a) PROVE GovernedOK'
  BY <1>1, <1>3 DEF Propose, GovernedOK, Statuses
<1>4. ASSUME NEW k \in Skills, NEW t \in Texts, Rewrite(k, t) PROVE GovernedOK'
  BY <1>1, <1>4 DEF Rewrite, GovernedOK, Statuses
<1>5. ASSUME NEW m \in Memories, Expire(m) PROVE GovernedOK'
  BY <1>1, <1>5 DEF Expire, GovernedOK
<1>6. ASSUME NEW y \in Syncs, NEW moved \in SUBSET Assets, NEW target \in Statuses,
             Govern(y, moved, target)
      PROVE  GovernedOK'
  BY <1>1, <1>6 DEF Govern, GovernedOK
<1>7. ASSUME NEW y \in Syncs, NEW m \in Memories, Renew(y, m) PROVE GovernedOK'
  BY <1>1, <1>7 DEF Renew, GovernedOK, Statuses
<1>8. ASSUME NEW y \in Syncs, NEW k \in Skills, NEW t \in Texts, Rollback(y, k, t)
      PROVE  GovernedOK'
  BY <1>1, <1>8 DEF Rollback, GovernedOK, Statuses
<1>9. ASSUME NEW y \in Syncs, NEW drafts \in BOOLEAN, ManualSync(y, drafts) PROVE GovernedOK'
  BY <1>2, <1>9 DEF ManualSync
<1>10. ASSUME NEW y \in Syncs, SyncStep(y) PROVE GovernedOK'
  BY <1>2, <1>10 DEF SyncStep, EmbedFails, NextKind, Finish, EmbedBatch
<1>11. UNCHANGED vars => UNCHANGED governed
  BY DEF vars
<1> QED BY <1>2, <1>3, <1>4, <1>5, <1>6, <1>7, <1>8, <1>9, <1>10, <1>11 DEF Next

LEMMA SyncInit == Init => SyncInv
  BY SyncAssumption DEF Init, SyncInv, TypeOK, OnlyOfferedIndexed, TodoOffered,
                        Nothing, Idle, SyncState, OptText

LEMMA SyncNext == SyncInv /\ [Next]_vars => SyncInv'
<1> SUFFICES ASSUME SyncInv, [Next]_vars PROVE SyncInv'
  OBVIOUS
<1>1. GovernedOK'
  BY GovernedTyped DEF SyncInv
<1>2. CASE Silently
  BY <1>1, <1>2, SilentInv
<1>3. ASSUME NEW y \in Syncs, NEW drafts \in BOOLEAN, Start(y, drafts) PROVE SyncInv'
  BY <1>1, <1>3, StartInv
<1>4. ASSUME NEW y \in Syncs, SyncStep(y) PROVE SyncInv'
  BY <1>4, EmbedFailsInv, NextKindInv, FinishInv, EmbedBatchInv DEF SyncStep
<1>5. CASE UNCHANGED vars
  <2>1. TypeOK'
    BY <1>5 DEF vars, governed, SyncInv, TypeOK
  <2>2. OnlyOfferedIndexed' /\ TodoOffered'
    BY <1>5 DEF vars, SyncInv, OnlyOfferedIndexed, TodoOffered
  <2>3. \A y : CalmSound(y) => CalmSound(y)'
    BY <1>5 DEF vars, governed, CalmSound, Covered, Running, Listing, Recallable
  <2>4. (exact # "unknown" => /\ index = Listing(exact = "drafts")
                              /\ \A y \in Syncs : ~Running(y))'
    BY <1>5 DEF vars, governed, SyncInv, Running, Listing, Recallable
  <2>5. (\A y \in calm : CalmSound(y))'
    BY <1>5, <2>3 DEF vars, SyncInv
  <2> QED BY <2>1, <2>2, <2>4, <2>5 DEF SyncInv
<1>6. (\E a \in Assets : Propose(a)) \/ (\E k \in Skills, t \in Texts : Rewrite(k, t))
        \/ (\E m \in Memories : Expire(m)) => Silently
  BY DEF Propose, Rewrite, Expire
<1>7. ASSUME NEW y \in Syncs
      PROVE  /\ \A moved, target : Govern(y, moved, target) => Start(y, FALSE)
             /\ \A m : Renew(y, m) => Start(y, FALSE)
             /\ \A k, t : Rollback(y, k, t) => Start(y, FALSE)
             /\ \A drafts : ManualSync(y, drafts) => Start(y, drafts)
  BY DEF Govern, Renew, Rollback, ManualSync
<1> QED BY <1>2, <1>3, <1>4, <1>5, <1>6, <1>7 DEF Next

\* The invariant of the index holds however synchronisations overlap, fail and
\* meet governed changes.
THEOREM SyncSound == Spec => []SyncInv
  BY SyncInit, SyncNext, PTL DEF Spec

\* Nothing reaches the index that was not offered to it.
THEOREM IndexOffered == Spec => []OnlyOfferedIndexed
<1>1. SyncInv => OnlyOfferedIndexed
  BY DEF SyncInv
<1> QED BY <1>1, SyncSound, PTL

\* A synchronisation that nothing disturbed leaves exactly the list behind.
THEOREM UndisturbedExact == Spec => []UndisturbedSyncIsExact
<1>1. SyncInv => UndisturbedSyncIsExact
  BY DEF SyncInv, UndisturbedSyncIsExact
<1> QED BY <1>1, SyncSound, PTL

-----------------------------------------------------------------------------
\* Recalls.

\* An answer d was made from a text the asset was visible with, or from its
\* absence; a text with a lexical score is never left out.
MadeFrom(d, texts) ==
  \E t \in texts : d = t \/ (d = NoText /\ ~Scores(t))

\* A recall under way: what a list would be now is in the history; what was
\* read is in it; what is ranked was made from it.  The rest is empty.
RecallSound(r) ==
  LET read == IF Asking(r) THEN OfKind(recall[r].kind) ELSE {}
      ranked == CASE recall[r].kind = "skill" -> Memories
                  [] recall[r].kind = "done"  -> Assets
                  [] OTHER                    -> {}
  IN
  \A a \in Assets :
    /\ Asking(r) => Listing(recall[r].drafts)[a] \in visible[r][a]
    /\ recall[r].docs[a] # NoText => a \in read
    /\ a \in read => recall[r].docs[a] \in visible[r][a]
    /\ IF a \in ranked THEN MadeFrom(recall[r].answer[a], visible[r][a])
                       ELSE recall[r].answer[a] = NoText

RecallInv ==
  /\ SyncInv
  /\ recall  \in [Recalls -> RecallState]
  /\ visible \in [Recalls -> [Assets -> SUBSET OptText]]
  /\ \A r \in Recalls : RecallSound(r)

\* A recall is sound after a step that leaves it alone and of the history of
\* its assets takes nothing away.
LEMMA RecallKept ==
  ASSUME RecallInv, NEW r \in Recalls, UNCHANGED governed,
         recall'[r] = recall[r], visible'[r] = visible[r]
  PROVE  RecallSound(r)'
  BY DEF RecallInv, RecallSound, Asking, governed, Listing, Recallable

\* A recall is replaced, and the others stay.
LEMMA RecallReplaced ==
  ASSUME RecallInv, UNCHANGED vars, NEW r \in Recalls,
         NEW now \in RecallState, NEW seen \in [Assets -> SUBSET OptText],
         recall' = [recall EXCEPT ![r] = now], visible' = [visible EXCEPT ![r] = seen],
         RecallSound(r)'
  PROVE  RecallInv'
<1>1. SyncInv'
  BY SyncNext DEF RecallInv
<1>2. /\ recall' \in [Recalls -> RecallState]
      /\ visible' \in [Recalls -> [Assets -> SUBSET OptText]]
      /\ \A q \in Recalls : q # r => recall'[q] = recall[q] /\ visible'[q] = visible[q]
  BY DEF RecallInv
<1>3. \A q \in Recalls : q # r => RecallSound(q)'
  BY <1>2, RecallKept DEF vars
<1> QED BY <1>1, <1>2, <1>3 DEF RecallInv

LEMMA DocsTyped ==
  ASSUME TypeOK, NEW kind, NEW drafts
  PROVE  /\ Listing(drafts) \in [Assets -> OptText]
         /\ DocsOf(kind, drafts) \in [Assets -> OptText]
<1>1. Listing(drafts) \in [Assets -> OptText]
  BY ListingTyped DEF TypeOK, GovernedOK
<1> QED BY <1>1 DEF DocsOf, OptText

LEMMA AskInv ==
  ASSUME RecallInv, NEW r \in Recalls, NEW drafts \in BOOLEAN, Ask(r, drafts)
  PROVE  RecallInv'
<1> DEFINE now  == [kind |-> "memory", drafts |-> drafts,
                    docs |-> DocsOf("memory", drafts), answer |-> Nothing]
           seen == [a \in Assets |-> {Listing(drafts)[a]}]
<1>1. TypeOK /\ Listing(drafts) \in [Assets -> OptText]
  BY DocsTyped DEF RecallInv, SyncInv
<1>2. now \in RecallState
  BY <1>1, DocsTyped DEF RecallState, Nothing, OptText
<1>3. seen \in [Assets -> SUBSET OptText]
  BY <1>1
<1>4. /\ UNCHANGED vars
      /\ recall' = [recall EXCEPT ![r] = now] /\ visible' = [visible EXCEPT ![r] = seen]
  BY DEF Ask
<1>5. recall'[r] = now /\ visible'[r] = seen
  BY <1>4 DEF RecallInv
<1>6. Listing(drafts)' = Listing(drafts)
  BY <1>4 DEF vars, governed, Listing, Recallable
<1>7. RecallSound(r)'
  BY <1>5, <1>6 DEF RecallSound, Asking, DocsOf, Nothing, Listing, Recallable
<1> HIDE DEF now, seen
<1> QED BY <1>2, <1>3, <1>4, <1>7, RecallReplaced

\* The ranking of a kind is made from what was read.
LEMMA CandidatesMade ==
  ASSUME NEW docs \in [Assets -> OptText], NEW matches, NEW a \in Assets,
         NEW texts, docs[a] \in texts
  PROVE  /\ Candidates(docs, matches)[a] \in OptText
         /\ MadeFrom(Candidates(docs, matches)[a], texts)
  BY DEF Candidates, MadeFrom, OptText

LEMMA RankInv ==
  ASSUME RecallInv, NEW r \in Recalls, Rank(r)
  PROVE  RecallInv'
<1> DEFINE kind == recall[r].kind
<1>1. PICK matches \in Matches(kind) :
        LET hits  == Candidates(recall[r].docs, matches)
            found == [a \in Assets |-> IF a \in OfKind(kind) THEN hits[a]
                                                  ELSE recall[r].answer[a]]
        IN recall' = [recall EXCEPT ![r] =
             IF kind = "memory" THEN AfterMemories(r, found)
             ELSE [@ EXCEPT !.kind = "done", !.docs = Nothing, !.answer = found]]
  BY DEF Rank
<1> DEFINE found == [a \in Assets |-> IF a \in OfKind(kind)
                       THEN Candidates(recall[r].docs, matches)[a] ELSE recall[r].answer[a]]
<1>2. /\ UNCHANGED vars /\ visible' = visible
      /\ recall[r] \in RecallState /\ kind \in {"memory", "skill"}
      /\ TypeOK /\ RecallSound(r)
      /\ visible' = [visible EXCEPT ![r] = visible[r]] /\ visible[r] \in [Assets -> SUBSET OptText]
  BY DEF Rank, RecallInv, SyncInv, Asking
<1>3. /\ recall[r].docs \in [Assets -> OptText] /\ recall[r].answer \in [Assets -> OptText]
      /\ recall[r].drafts \in BOOLEAN
  BY <1>2 DEF RecallState
<1>4. \A a \in OfKind(kind) : a \in Assets /\ recall[r].docs[a] \in visible[r][a]
  BY <1>2, KindsDiffer DEF RecallSound, Asking
<1>5. /\ found \in [Assets -> OptText]
      /\ \A a \in OfKind(kind) : MadeFrom(found[a], visible[r][a])
  BY <1>3, <1>4, CandidatesMade
<1>6. \A a \in Assets : a \notin OfKind(kind) => found[a] = recall[r].answer[a]
  OBVIOUS
<1>7. CASE kind = "memory"
  <2> DEFINE now == AfterMemories(r, found)
  <2>1. recall' = [recall EXCEPT ![r] = now]
    BY <1>1, <1>7
  <2>2. now \in RecallState
    BY <1>2, <1>3, <1>5, DocsTyped DEF AfterMemories, RecallState
  <2>3. /\ recall'[r].kind = "skill" /\ recall'[r].drafts = recall[r].drafts
        /\ recall'[r].docs = DocsOf("skill", recall[r].drafts) /\ recall'[r].answer = found
    BY <2>1 DEF AfterMemories, RecallInv
  <2>4. Listing(recall[r].drafts)' = Listing(recall'[r].drafts)
    BY <1>2, <2>3 DEF vars, governed, Listing, Recallable
  <2>5. \A a \in Assets : Listing(recall[r].drafts)[a] \in visible[r][a]
    BY <1>2 DEF RecallSound, Asking
  <2>6. \A a \in Assets : recall[r].answer[a] = NoText
    BY <1>2, <1>7 DEF RecallSound
  <2> HIDE DEF found, now
  <2>7. ASSUME NEW a \in Assets
        PROVE  /\ Listing(recall'[r].drafts)[a] \in visible[r][a]
               /\ recall'[r].docs[a] # NoText => a \in Skills
               /\ a \in Skills => recall'[r].docs[a] \in visible[r][a]
               /\ IF a \in Memories THEN MadeFrom(recall'[r].answer[a], visible[r][a])
                                    ELSE recall'[r].answer[a] = NoText
    BY <1>5, <1>6, <1>7, <2>3, <2>5, <2>6, KindsDiffer DEF DocsOf
  <2>8. RecallSound(r)'
    BY <1>2, <2>3, <2>4, <2>7, KindsDiffer DEF RecallSound, Asking
  <2> QED BY <1>2, <2>1, <2>2, <2>8, RecallReplaced
<1>8. CASE kind = "skill"
  <2> DEFINE now == [recall[r] EXCEPT !.kind = "done", !.docs = Nothing, !.answer = found]
  <2>1. recall' = [recall EXCEPT ![r] = now]
    BY <1>1, <1>8
  <2>2. now \in RecallState
    BY <1>2, <1>5 DEF RecallState, Nothing, OptText
  <2>3. /\ recall'[r].kind = "done"
        /\ recall'[r].docs = Nothing /\ recall'[r].answer = found
    BY <1>2, <2>1 DEF RecallInv, RecallState
  <2>4. \A a \in Memories : MadeFrom(recall[r].answer[a], visible[r][a])
    BY <1>2, <1>8, KindsDiffer DEF RecallSound
  <2> HIDE DEF found, now
  <2>5. \A a \in Assets : MadeFrom(recall'[r].answer[a], visible[r][a])
    BY <1>5, <1>6, <1>8, <2>3, <2>4, KindsDiffer DEF Assets
  <2>6. RecallSound(r)'
    BY <1>2, <2>3, <2>5 DEF RecallSound, Asking, Nothing
  <2> QED BY <1>2, <2>1, <2>2, <2>6, RecallReplaced
<1> QED BY <1>2, <1>7, <1>8

LEMMA ForgetInv ==
  ASSUME RecallInv, NEW r \in Recalls, Forget(r)
  PROVE  RecallInv'
<1> DEFINE seen == [a \in Assets |-> {}]
<1>1. NoRecall \in RecallState /\ seen \in [Assets -> SUBSET OptText]
  BY DEF NoRecall, RecallState, Nothing, OptText
<1>2. /\ UNCHANGED vars
      /\ recall' = [recall EXCEPT ![r] = NoRecall] /\ visible' = [visible EXCEPT ![r] = seen]
  BY DEF Forget
<1>3. RecallSound(r)'
  BY <1>2 DEF RecallInv, RecallSound, Asking, NoRecall, Nothing
<1> HIDE DEF seen
<1> QED BY <1>1, <1>2, <1>3, RecallReplaced

\* More history spoils nothing.
LEMMA MadeFromMore ==
  ASSUME NEW d, NEW texts, NEW more, MadeFrom(d, texts), texts \subseteq more
  PROVE  MadeFrom(d, more)
  BY DEF MadeFrom

LEMMA MeanwhileInv ==
  ASSUME RecallInv, Meanwhile
  PROVE  RecallInv'
<1>1. SyncInv' /\ recall' = recall
  BY SyncNext DEF Meanwhile, RecallInv
<1>2. visible' = [r \in Recalls |-> [a \in Assets |->
        IF Asking(r) THEN visible[r][a] \cup {Listing(recall[r].drafts)'[a]}
                     ELSE visible[r][a]]]
  BY DEF Meanwhile
<1>3. \A drafts : Listing(drafts)' \in [Assets -> OptText]
  BY <1>1, ListingTyped DEF SyncInv, TypeOK, Listing, OptText
<1>4. visible' \in [Recalls -> [Assets -> SUBSET OptText]]
  BY <1>2, <1>3 DEF RecallInv
<1>5. ASSUME NEW r \in Recalls PROVE RecallSound(r)'
  <2>1. ASSUME NEW a \in Assets
        PROVE  /\ visible[r][a] \subseteq visible'[r][a]
               /\ Asking(r) => Listing(recall[r].drafts)'[a] \in visible'[r][a]
    BY <1>2
  <2>2. Asking(r)' <=> Asking(r)
    BY <1>1 DEF Asking
  <2>3. RecallSound(r)
    BY DEF RecallInv
  <2> QED BY <1>1, <2>1, <2>2, <2>3, MadeFromMore DEF RecallSound, Asking
<1> QED BY <1>1, <1>4, <1>5 DEF RecallInv

LEMMA RecallInitInv == RecallInit => RecallInv
  BY SyncInit DEF RecallInit, RecallInv, NoRecall, RecallState, Nothing, OptText, RecallSound,
                  Asking

LEMMA RecallNextInv == RecallInv /\ [RecallNext]_allVars => RecallInv'
<1> SUFFICES ASSUME RecallInv, [RecallNext]_allVars PROVE RecallInv'
  OBVIOUS
<1>1. CASE UNCHANGED allVars
  <2>1. UNCHANGED vars /\ recall' = recall /\ visible' = visible
    BY <1>1 DEF allVars, recallVars
  <2>2. SyncInv'
    BY <2>1, SyncNext DEF RecallInv
  <2>3. \A r \in Recalls : RecallSound(r)'
    BY <2>1, RecallKept DEF vars
  <2> QED BY <2>1, <2>2, <2>3 DEF RecallInv
<1> QED BY <1>1, MeanwhileInv, AskInv, RankInv, ForgetInv DEF RecallNext

\* The invariant of the recalls.
THEOREM RecallsSound == RecallSpec => []RecallInv
  BY RecallInitInv, RecallNextInv, PTL DEF RecallSpec

\* What a recall returns was recallable while it was asked, whatever the index
\* held.
THEOREM AnswersRecallable == RecallSpec => []AnswersWereRecallable
<1>1. RecallInv => AnswersWereRecallable
  BY DEF RecallInv, RecallSound, MadeFrom, AnswersWereRecallable
<1> QED BY <1>1, RecallsSound, PTL

\* No lexical hit that stays as it is through a recall is missing from it.
THEOREM StableFound == RecallSpec => []StableHitsFound
<1>1. RecallInv => StableHitsFound
  BY DEF RecallInv, RecallSound, MadeFrom, StableHitsFound, Scores
<1> QED BY <1>1, RecallsSound, PTL

-----------------------------------------------------------------------------
\* The ranking of documents.

\* A ranking holds the hits, each once, best first.
IsRanking(seq, scores) ==
  /\ seq \in Seq(Hits(scores))
  /\ \A i \in Hits(scores) : \E p \in 1..Len(seq) : seq[p] = i
  /\ \A p, q \in 1..Len(seq) : p < q => Ahead(scores, seq[p], seq[q])

LEMMA AheadOrders ==
  ASSUME NEW n \in Nat, NEW scores \in [1..n -> Nat], NEW i \in 1..n, NEW j \in 1..n
  PROVE  /\ i # j => Ahead(scores, i, j) \/ Ahead(scores, j, i)
         /\ Ahead(scores, i, j) => ~Ahead(scores, j, i) /\ i # j
         /\ \A k \in 1..n : Ahead(scores, k, i) /\ Ahead(scores, i, j) => Ahead(scores, k, j)
<1>1. /\ i \in Int /\ j \in Int /\ scores[i] \in Int /\ scores[j] \in Int
      /\ \A k \in 1..n : k \in Int /\ scores[k] \in Int
  OBVIOUS
<1> QED BY <1>1 DEF Ahead

LEMMA HitsFinite ==
  ASSUME NEW n \in Nat, NEW scores \in [1..n -> Nat]
  PROVE  /\ Hits(scores) \subseteq 1..n
         /\ IsFiniteSet(Hits(scores)) /\ Cardinality(Hits(scores)) \in Nat
<1>1. Hits(scores) \subseteq 1..n
  BY DEF Hits
<1>2. IsFiniteSet(1..n)
  BY FS_Interval
<1> QED BY <1>1, <1>2, FS_Subset, FS_CardinalityType

\* A hit that is ahead of another has a smaller place.
LEMMA PlaceOrders ==
  ASSUME NEW n \in Nat, NEW scores \in [1..n -> Nat],
         NEW i \in Hits(scores), NEW j \in Hits(scores), Ahead(scores, i, j)
  PROVE  Place(scores, i) < Place(scores, j)
<1> DEFINE H == Hits(scores)
           U == {k \in H : ~Ahead(scores, i, k)}
           V == {k \in H : ~Ahead(scores, j, k)}
<1>1. H \subseteq 1..n /\ IsFiniteSet(H)
  BY HitsFinite
<1>2. i \in 1..n /\ j \in 1..n /\ i \in H /\ j \in H
  BY <1>1
<1> HIDE DEF H
<1>3. ASSUME NEW k \in U PROVE k \in V
  <2>1. k \in 1..n /\ k \in H /\ ~Ahead(scores, i, k)
    BY <1>1
  <2>2. k = i \/ Ahead(scores, k, i)
    BY <1>2, <2>1, AheadOrders
  <2>3. Ahead(scores, k, j)
    BY <1>2, <2>1, <2>2, AheadOrders
  <2> QED BY <1>2, <2>1, <2>3, AheadOrders
<1>4. j \in V /\ j \notin U
  BY <1>2, AheadOrders
<1>5. V \subseteq H /\ U \subseteq V /\ U # V
  BY <1>3, <1>4
<1> HIDE DEF U, V
<1>6. IsFiniteSet(V) /\ IsFiniteSet(U)
  BY <1>1, <1>5, FS_Subset
<1>7. Cardinality(U) \in Nat /\ Cardinality(V) \in Nat
  BY <1>6, FS_CardinalityType
<1>8. Cardinality(U) <= Cardinality(V) /\ Cardinality(U) # Cardinality(V)
  BY <1>5, <1>6, FS_Subset
<1>9. Cardinality(U) < Cardinality(V)
  BY <1>7, <1>8
<1> QED BY <1>9 DEF Place, U, V, H

LEMMA PlaceType ==
  ASSUME NEW n \in Nat, NEW scores \in [1..n -> Nat], NEW i \in Hits(scores)
  PROVE  Place(scores, i) \in 1..Cardinality(Hits(scores))
<1> DEFINE H == Hits(scores)
           U == {k \in H : ~Ahead(scores, i, k)}
<1>1. H \subseteq 1..n /\ IsFiniteSet(H) /\ Cardinality(H) \in Nat
  BY HitsFinite
<1>2. i \in U
  BY <1>1, AheadOrders
<1>3. U \subseteq H
  OBVIOUS
<1> HIDE DEF H, U
<1>4. IsFiniteSet(U) /\ Cardinality(U) <= Cardinality(H)
  BY <1>1, <1>3, FS_Subset
<1>5. Cardinality(U) \in Nat /\ Cardinality(U) # 0
  BY <1>2, <1>4, FS_CardinalityType, FS_EmptySet
<1>6. Cardinality(U) \in 1..Cardinality(H)
  BY <1>1, <1>4, <1>5
<1> QED BY <1>6 DEF Place, U, H

\* Sorting gives a ranking.
LEMMA SortedIs ==
  ASSUME NEW n \in Nat, NEW scores \in [1..n -> Nat]
  PROVE  IsRanking(Sorted(scores), scores)
<1> DEFINE H == Hits(scores)
           h == Cardinality(H)
           place == [i \in H |-> Place(scores, i)]
           seq == Sorted(scores)
<1>1. H \subseteq 1..n /\ IsFiniteSet(H) /\ h \in Nat
  BY HitsFinite
<1>2. \A i \in H : place[i] = Place(scores, i) /\ place[i] \in 1..h
  BY PlaceType
<1>3. \A i, j \in H : i # j => Ahead(scores, i, j) \/ Ahead(scores, j, i)
  BY <1>1, AheadOrders
<1>4. \A i, j \in H : Ahead(scores, i, j) => place[i] < place[j]
  BY <1>2, PlaceOrders
<1>5. \A p \in 1..h : seq[p] = CHOOSE i \in H : Place(scores, i) = p
  BY DEF Sorted
<1>6. DOMAIN seq = 1..h
  BY DEF Sorted
<1>7. seq = [p \in 1..h |-> seq[p]]
  BY DEF Sorted
<1>8. place \in [H -> 1..h]
  BY <1>2
<1> HIDE DEF place, seq, H
<1>9. \A i, j \in H : place[i] = place[j] => i = j
  BY <1>1, <1>2, <1>3, <1>4
<1>10. \A p \in 1..h : \E i \in H : place[i] = p
  <2>1. place \in Injection(H, 1..h)
    BY <1>8, <1>9 DEF Injection, IsInjective
  <2>2. IsFiniteSet(1..h) /\ Cardinality(1..h) = h
    <3> HIDE DEF h
    <3>1. IsFiniteSet(1..h) /\ Cardinality(1..h) = IF 1 > h THEN 0 ELSE h - 1 + 1
      BY <1>1, FS_Interval
    <3> QED BY <1>1, <3>1
  <2>3. place \in Surjection(H, 1..h)
    BY <2>1, <2>2, FS_Injection
  <2> QED BY <2>3 DEF Surjection
<1>11. \A p \in 1..h : seq[p] \in H /\ place[seq[p]] = p
  BY <1>2, <1>5, <1>10
<1> HIDE DEF h
<1>12. seq \in Seq(H) /\ Len(seq) = h
  <2>1. seq \in [1..h -> H]
    BY <1>7, <1>11
  <2> QED BY <1>1, <2>1
<1>13. ASSUME NEW i \in H PROVE \E p \in 1..Len(seq) : seq[p] = i
  <2>1. place[i] \in 1..h
    BY <1>2
  <2>2. seq[place[i]] = i
    BY <1>9, <1>11, <2>1
  <2> QED BY <1>12, <2>1, <2>2
<1>14. ASSUME NEW p \in 1..Len(seq), NEW q \in 1..Len(seq), p < q
       PROVE  Ahead(scores, seq[p], seq[q])
  <2>1. /\ seq[p] \in H /\ seq[q] \in H /\ place[seq[p]] = p /\ place[seq[q]] = q
        /\ p \in Nat /\ q \in Nat
    BY <1>1, <1>11, <1>12
  <2>2. seq[p] # seq[q] /\ ~Ahead(scores, seq[q], seq[p])
    BY <1>4, <1>14, <2>1
  <2> QED BY <1>3, <2>1, <2>2
<1> QED BY <1>12, <1>13, <1>14 DEF IsRanking, H, seq

-----------------------------------------------------------------------------
\* What is given of a ranking.

Taken == [doc : Nat, length : Nat]

Filling == [given : Seq(Taken), used : Nat]

RoomFor(docs, maxChars, used, i) ==
  IF docs[i].length > maxChars - used THEN maxChars - used ELSE docs[i].length

\* One round of the loop, on what was given before.
Given(docs, top, maxChars, k, before) ==
  IF Full(before.used, maxChars) THEN before
  ELSE [given |-> Append(before.given,
                    [doc |-> top[k], length |-> RoomFor(docs, maxChars, before.used, top[k])]),
        used  |-> before.used + RoomFor(docs, maxChars, before.used, top[k])]

FillAt(docs, top, maxChars, f, k) ==
  IF k = 0 THEN [given |-> << >>, used |-> 0] ELSE Given(docs, top, maxChars, k, f[k - 1])

Fill(docs, top, maxChars) ==
  CHOOSE f : f = [k \in 0..Len(top) |-> FillAt(docs, top, maxChars, f, k)]

LEMMA FilledIs ==
  ASSUME NEW docs, NEW top, NEW maxChars
  PROVE  Filled(docs, top, maxChars) = Fill(docs, top, maxChars)[Len(top)]
  BY DEF Filled, Fill, FillAt, Given, RoomFor

\* Documents, a part of their ranking, and a budget.
Budgeted(docs, top, maxChars) ==
  /\ top \in Seq(Nat) /\ maxChars \in Nat
  /\ \A k \in 1..Len(top) : docs[top[k]].length \in Nat \ {0}

LEMMA GivenType ==
  ASSUME NEW docs, NEW top, NEW c, Budgeted(docs, top, c),
         NEW k \in 1..Len(top), NEW st \in Filling, st.used <= c
  PROVE  /\ Given(docs, top, c, k, st) \in Filling
         /\ Given(docs, top, c, k, st).used <= c
<1> DEFINE l == docs[top[k]].length
           u == st.used
           room == RoomFor(docs, c, st.used, top[k])
<1>1. l \in Nat /\ u \in Nat /\ c \in Nat /\ u <= c /\ top[k] \in Nat /\ st.given \in Seq(Taken)
  BY DEF Budgeted, Filling
<1>2. room = IF l > c - u THEN c - u ELSE l
  BY DEF RoomFor
<1> HIDE DEF l, u, room
<1>3. room \in Nat /\ u + room \in Nat /\ u + room <= c
  BY <1>1, <1>2
<1>4. CASE Full(st.used, c)
  BY <1>4 DEF Given
<1>5. CASE ~Full(st.used, c)
  <2> DEFINE one == [doc |-> top[k], length |-> room]
  <2>1. one \in Taken
    BY <1>1, <1>3 DEF Taken
  <2>2. Append(st.given, one) \in Seq(Taken)
    <3> HIDE DEF one
    <3> QED BY <1>1, <2>1
  <2>3. Given(docs, top, c, k, st) = [given |-> Append(st.given, one), used |-> u + room]
    BY <1>5 DEF Given, room, u
  <2> HIDE DEF one
  <2> QED BY <1>3, <2>2, <2>3 DEF Filling
<1> QED BY <1>4, <1>5

LEMMA FillUnfolds ==
  ASSUME NEW docs, NEW top, NEW c, Budgeted(docs, top, c)
  PROVE  \A k \in 0..Len(top) :
           Fill(docs, top, c)[k] = FillAt(docs, top, c, Fill(docs, top, c), k)
<1> DEFINE n == Len(top)
           D == {st \in Filling : st.used <= c}
           init == [given |-> << >>, used |-> 0]
           step == [p \in (0..n) \X D |->
                      IF p[1] = 0 THEN init ELSE Given(docs, top, c, p[1], p[2])]
<1>1. n \in Nat /\ c \in Nat
  BY DEF Budgeted
<1>2. init \in D
  <2>1. init \in Filling
    BY DEF Filling
  <2>2. init.used <= c
    BY <1>1
  <2> HIDE DEF init
  <2> QED BY <2>1, <2>2
<1> HIDE DEF init
<1>3. step \in [(0..n) \X D -> D]
  <2>1. ASSUME NEW k \in 0..n, NEW st \in D, k # 0 PROVE Given(docs, top, c, k, st) \in D
    <3>1. k \in 1..n
      BY <1>1, <2>1
    <3> QED BY <3>1, GivenType
  <2>2. \A p \in (0..n) \X D :
          (IF p[1] = 0 THEN init ELSE Given(docs, top, c, p[1], p[2])) \in D
    <3> HIDE DEF D, n
    <3> QED BY <1>2, <2>1
  <2> HIDE DEF D, n
  <2> QED BY <2>2
<1>4. PICK f : Solves(f, 0, n, D, init, step)
  <2>1. 0 \in Int /\ n \in Int
    BY <1>1
  <2> HIDE DEF step, D, n
  <2> QED BY <1>2, <1>3, <2>1, Recursion
<1>5. /\ f \in [0..n -> D]
      /\ \A k \in 0..n : f[k] = IF k = 0 THEN init ELSE step[<<k, f[k - 1]>>]
  <2> HIDE DEF step, D
  <2> QED BY <1>4 DEF Solves
<1>6. ASSUME NEW k \in 0..n PROVE f[k] = FillAt(docs, top, c, f, k)
  <2>1. CASE k = 0
    BY <1>5, <2>1 DEF FillAt, init
  <2>2. CASE k # 0
    <3> DEFINE p == <<k, f[k - 1]>>
    <3>1. k - 1 \in 0..n
      BY <1>1, <2>2
    <3>2. f[k - 1] \in D /\ f[k] = step[p]
      <4> HIDE DEF step, n, D
      <4> QED BY <1>5, <2>2, <3>1
    <3>3. p \in (0..n) \X D /\ p[1] = k /\ p[2] = f[k - 1]
      <4> HIDE DEF n, D
      <4> QED BY <3>2
    <3>4. step[p] = IF p[1] = 0 THEN init ELSE Given(docs, top, c, p[1], p[2])
      <4> HIDE DEF p, n, D
      <4> QED BY <3>3
    <3> HIDE DEF p, step, n, D
    <3> QED BY <2>2, <3>2, <3>3, <3>4 DEF FillAt
  <2> QED BY <2>1, <2>2
<1>7. f = [k \in 0..Len(top) |-> FillAt(docs, top, c, f, k)]
  <2> HIDE DEF step, init, D
  <2> QED BY <1>5, <1>6
<1>8. Fill(docs, top, c) = [k \in 0..Len(top) |-> FillAt(docs, top, c, Fill(docs, top, c), k)]
  BY <1>7 DEF Fill
<1> QED BY <1>8

\* After k rounds: the first hits are given in the order of the ranking, within
\* the budget.  Either all k are, or the budget is used up, and only the hit
\* that used it up may be cut.
FilledTo(docs, top, c, k, st) ==
  /\ st \in Filling /\ st.used <= c
  /\ Len(st.given) <= k /\ (Len(st.given) = k \/ st.used = c)
  /\ \A m \in 1..Len(st.given) :
       /\ st.given[m].doc = top[m]
       /\ st.given[m].length > 0 /\ st.given[m].length <= docs[top[m]].length
       /\ st.given[m].length = docs[top[m]].length \/ (m = Len(st.given) /\ st.used = c)

LEMMA GivenKeeps ==
  ASSUME NEW docs, NEW top, NEW c, Budgeted(docs, top, c),
         NEW k \in 1..Len(top), NEW st, FilledTo(docs, top, c, k - 1, st)
  PROVE  FilledTo(docs, top, c, k, Given(docs, top, c, k, st))
<1> DEFINE l == docs[top[k]].length
           u == st.used
           g == Len(st.given)
           room == RoomFor(docs, c, st.used, top[k])
           r == Given(docs, top, c, k, st)
<1>1. /\ l \in Nat \ {0} /\ u \in Nat /\ c \in Nat /\ u <= c /\ top[k] \in Nat
      /\ st.given \in Seq(Taken) /\ g \in Nat /\ k \in Nat /\ st \in Filling
      /\ g <= k - 1 /\ (g = k - 1 \/ u = c)
  BY DEF Budgeted, Filling, FilledTo
<1>2. room = IF l > c - u THEN c - u ELSE l
  BY DEF RoomFor
<1>3. r \in Filling /\ r.used <= c
  BY <1>1, GivenType
<1>4. CASE Full(st.used, c)
  <2>1. r = st
    BY <1>4 DEF Given
  <2>2. st.used = c
    <3>1. u >= c
      BY <1>4 DEF Full
    <3> HIDE DEF u
    <3>2. u = c
      BY <1>1, <3>1
    <3> QED BY <3>2 DEF u
  <2>3. g <= k
    <3> HIDE DEF g
    <3> QED BY <1>1
  <2> HIDE DEF r
  <2>4. FilledTo(docs, top, c, k, r)
    BY <1>3, <2>1, <2>2, <2>3 DEF FilledTo
  <2> QED BY <2>4 DEF r
<1>5. CASE ~Full(st.used, c)
  <2> DEFINE one  == [doc |-> top[k], length |-> room]
             more == Append(st.given, one)
  <2>1. ~(u >= c)
    BY <1>5 DEF Full
  <2>2. r = [given |-> more, used |-> u + room]
    BY <1>5 DEF Given
  <2>3. /\ room \in Nat /\ room > 0 /\ room <= l /\ g = k - 1 /\ u # c
        /\ (room = l \/ u + room = c)
    <3> HIDE DEF l, u, room, g
    <3> QED BY <1>1, <1>2, <2>1
  <2>4. one \in Taken /\ one.doc = top[k] /\ one.length = room
    <3> HIDE DEF room
    <3> QED BY <1>1, <2>3 DEF Taken
  <2> HIDE DEF one, room, r
  <2>5. more \in Seq(Taken) /\ Len(more) = g + 1 /\ more[g + 1] = one
        /\ \A m \in 1..g : more[m] = st.given[m]
    BY <1>1, <2>4
  <2>6. r.given = more /\ r.used = u + room
    BY <2>2
  <2>7. Len(more) = k
    <3> HIDE DEF g, more
    <3> QED BY <1>1, <2>3, <2>5
  <2>8. ASSUME NEW m \in 1..k
        PROVE  /\ more[m].doc = top[m]
               /\ more[m].length > 0 /\ more[m].length <= docs[top[m]].length
               /\ more[m].length = docs[top[m]].length \/ (m = k /\ u + room = c)
    <3>1. CASE m = k
      <4>1. more[m] = one
        <5> HIDE DEF g, more
        <5> QED BY <1>1, <2>3, <2>5, <3>1
      <4> QED BY <2>3, <2>4, <3>1, <4>1
    <3>2. CASE m # k
      <4>1. m \in 1..g
        <5> HIDE DEF g
        <5> QED BY <1>1, <2>3, <3>2
      <4>2. /\ st.given[m].doc = top[m]
            /\ st.given[m].length > 0 /\ st.given[m].length <= docs[top[m]].length
            /\ st.given[m].length = docs[top[m]].length
        BY <2>3, <4>1 DEF FilledTo
      <4> QED BY <2>5, <4>1, <4>2
    <3> QED BY <3>1, <3>2
  <2>9. k <= k
    BY <1>1
  <2> HIDE DEF more, u
  <2>10. FilledTo(docs, top, c, k, r)
    BY <1>3, <2>6, <2>7, <2>8, <2>9 DEF FilledTo
  <2> QED BY <2>10 DEF r
<1> QED BY <1>4, <1>5

LEMMA FillSound ==
  ASSUME NEW docs, NEW top, NEW c, Budgeted(docs, top, c)
  PROVE  \A k \in 0..Len(top) : FilledTo(docs, top, c, k, Fill(docs, top, c)[k])
<1> DEFINE n == Len(top)
           Wrong == {k \in 0..n : ~FilledTo(docs, top, c, k, Fill(docs, top, c)[k])}
<1>1. n \in Nat /\ c \in Nat
  BY DEF Budgeted
<1>2. Wrong = {}
  <2> SUFFICES ASSUME Wrong # {} PROVE FALSE
    OBVIOUS
  <2>1. PICK k \in Wrong : \A j \in Wrong : k <= j
    <3>1. Wrong \in SUBSET Nat
      BY <1>1
    <3> HIDE DEF Wrong
    <3> QED BY <3>1, LeastNat
  <2>2. k \in 0..n /\ ~FilledTo(docs, top, c, k, Fill(docs, top, c)[k])
    OBVIOUS
  <2>3. Fill(docs, top, c)[k] = FillAt(docs, top, c, Fill(docs, top, c), k)
    BY <2>2, FillUnfolds
  <2>4. CASE k = 0
    <3> DEFINE st == [given |-> << >>, used |-> 0]
    <3>1. st \in Filling /\ st.given = << >> /\ st.used = 0
      BY DEF Filling
    <3> HIDE DEF st
    <3>2. Len(st.given) = 0 /\ 0 <= c /\ 1..0 = {}
      BY <1>1, <3>1
    <3>3. FilledTo(docs, top, c, 0, st)
      BY <3>1, <3>2 DEF FilledTo
    <3> QED BY <2>2, <2>3, <2>4, <3>3 DEF FillAt, st
  <2>5. CASE k # 0
    <3>1. k - 1 \in 0..n /\ k \in 1..n /\ ~(k <= k - 1)
      BY <1>1, <2>2, <2>5
    <3>2. k - 1 \notin Wrong
      <4> HIDE DEF Wrong
      <4> QED BY <2>1, <3>1
    <3>3. FilledTo(docs, top, c, k - 1, Fill(docs, top, c)[k - 1])
      BY <3>1, <3>2
    <3>4. FilledTo(docs, top, c, k, Given(docs, top, c, k, Fill(docs, top, c)[k - 1]))
      BY <3>1, <3>3, GivenKeeps
    <3> QED BY <2>2, <2>3, <2>5, <3>4 DEF FillAt
  <2> QED BY <2>4, <2>5
<1> QED BY <1>2

-----------------------------------------------------------------------------
\* The first of a sequence.

LEMMA FirstOf ==
  ASSUME NEW S, NEW s \in Seq(S), NEW n \in Nat
  PROVE  /\ First(n, s) \in Seq(S)
         /\ Len(First(n, s)) = IF n < Len(s) THEN n ELSE Len(s)
         /\ \A p \in 1..Len(First(n, s)) : p \in 1..Len(s) /\ First(n, s)[p] = s[p]
<1> DEFINE m == IF n < Len(s) THEN n ELSE Len(s)
           r == SubSeq(s, 1, m)
<1>1. m \in Nat /\ m <= Len(s) /\ Len(s) \in Nat
  OBVIOUS
<1>2. \A p \in 1..Len(s) : s[p] \in S
  OBVIOUS
<1> HIDE DEF m
<1>3. \A p \in 1..m : p \in 1..Len(s) /\ s[p] \in S
  BY <1>1, <1>2
<1>4. 1 \in Int /\ m \in Int /\ m - 1 + 1 = m
  BY <1>1
<1>5. /\ r \in Seq(S) /\ Len(r) = IF 1 <= m THEN m - 1 + 1 ELSE 0
      /\ \A p \in 1..(m - 1 + 1) : r[p] = s[1 + p - 1]
  BY <1>3, <1>4, SubSeqProperties
<1>6. Len(r) = m
  BY <1>1, <1>5
<1>7. \A p \in 1..m : r[p] = s[p]
  <2>1. \A p \in 1..m : 1 + p - 1 = p
    BY <1>1
  <2> QED BY <1>4, <1>5, <2>1
<1>8. First(n, s) = r
  BY DEF First, m
<1> HIDE DEF r
<1> QED BY <1>3, <1>5, <1>6, <1>7, <1>8 DEF m

LEMMA FirstOfFirst ==
  ASSUME NEW S, NEW s \in Seq(S), NEW n \in Nat, NEW m \in Nat, n <= m
  PROVE  First(n, First(m, s)) = First(n, s)
<1> DEFINE t == First(m, s)
           u == First(n, t)
           v == First(n, s)
<1>1. /\ t \in Seq(S) /\ Len(t) = IF m < Len(s) THEN m ELSE Len(s)
      /\ \A p \in 1..Len(t) : p \in 1..Len(s) /\ t[p] = s[p]
  BY FirstOf
<1>2. /\ v \in Seq(S) /\ Len(v) = IF n < Len(s) THEN n ELSE Len(s)
      /\ \A p \in 1..Len(v) : p \in 1..Len(s) /\ v[p] = s[p]
  BY FirstOf
<1> HIDE DEF t
<1>3. /\ u \in Seq(S) /\ Len(u) = IF n < Len(t) THEN n ELSE Len(t)
      /\ \A p \in 1..Len(u) : p \in 1..Len(t) /\ u[p] = t[p]
  BY <1>1, FirstOf
<1> HIDE DEF u, v
<1>4. Len(s) \in Nat
  OBVIOUS
<1>5. Len(u) = Len(v)
  BY <1>1, <1>2, <1>3, <1>4
<1>6. \A p \in 1..Len(u) : u[p] = v[p]
  BY <1>1, <1>2, <1>3, <1>5
<1>7. u = v
  BY <1>2, <1>3, <1>5, <1>6, SeqEqual
<1> QED BY <1>7 DEF t, u, v

-----------------------------------------------------------------------------
\* The ranking that is given, and what an answer gives of it.

RankScores(docs, degraded) ==
  IF degraded \/ \A i \in DOMAIN docs : docs[i].cosine = 0
    THEN LexicalScores(docs) ELSE [i \in DOMAIN docs |-> Fused(docs[i])]

LEMMA ScoresType ==
  ASSUME NEW N \in Nat, NEW docs \in [1..N -> Document], NEW degraded
  PROVE  RankScores(docs, degraded) \in [1..N -> Nat]
<1>1. LexicalWeight \in Nat /\ VectorWeight \in Nat /\ MaxScore \in Nat
  BY BudgetAssumption
<1>2. ASSUME NEW i \in 1..N PROVE docs[i].lexical \in Nat /\ Fused(docs[i]) \in Nat
  <2> DEFINE l == docs[i].lexical
             v == docs[i].cosine
  <2>1. l \in Nat /\ v \in Nat
    BY <1>1 DEF Document
  <2>2. Fused(docs[i]) = IF l > 0 /\ v > 0 THEN LexicalWeight * l + VectorWeight * v
                         ELSE (LexicalWeight + VectorWeight) * (IF l > 0 THEN l ELSE v)
    BY DEF Fused
  <2> HIDE DEF l, v
  <2>3. LexicalWeight * l + VectorWeight * v \in Nat
    BY <1>1, <2>1
  <2>4. (LexicalWeight + VectorWeight) * (IF l > 0 THEN l ELSE v) \in Nat
    BY <1>1, <2>1
  <2> QED BY <2>1, <2>2, <2>3, <2>4 DEF l
<1> QED BY <1>2 DEF RankScores, LexicalScores

LEMMA RankingIs ==
  ASSUME NEW N \in Nat, NEW docs \in [1..N -> Document], NEW degraded
  PROVE  /\ IsRanking(Ranking(docs, degraded), RankScores(docs, degraded))
         /\ Hits(RankScores(docs, degraded)) \subseteq 1..N
         /\ Ranking(docs, degraded) \in Seq(1..N)
<1> DEFINE scores == RankScores(docs, degraded)
<1>1. scores \in [1..N -> Nat]
  BY ScoresType
<1>2. Ranking(docs, degraded) = Sorted(scores)
  BY DEF Ranking, RankScores
<1> HIDE DEF scores
<1>3. IsRanking(Sorted(scores), scores) /\ Hits(scores) \subseteq 1..N
  BY <1>1, SortedIs, HitsFinite
<1>4. Sorted(scores) \in Seq(1..N)
  BY <1>3, SeqMonotonic DEF IsRanking
<1> QED BY <1>2, <1>3, <1>4 DEF scores

Top(docs, degraded, n) == First(n, Ranking(docs, degraded))

LEMMA TopBudgeted ==
  ASSUME NEW N \in Nat, NEW docs \in [1..N -> Document], NEW degraded, NEW n \in Nat, NEW c \in Nat
  PROVE  /\ Top(docs, degraded, n) \in Seq(1..N)
         /\ Budgeted(docs, Top(docs, degraded, n), c)
<1> DEFINE top == Top(docs, degraded, n)
<1>1. top \in Seq(1..N)
  BY RankingIs, FirstOf DEF Top
<1> HIDE DEF top
<1>2. top \in Seq(Nat)
  BY <1>1, SeqMonotonic
<1>3. MaxLength \in Nat
  BY BudgetAssumption
<1>4. \A i \in 1..N : docs[i].length \in Nat \ {0}
  BY <1>3 DEF Document
<1>5. \A k \in 1..Len(top) : top[k] \in 1..N
  BY <1>1
<1> QED BY <1>1, <1>2, <1>4, <1>5 DEF Budgeted, top

GivenOf(docs, degraded, n, c) ==
  Fill(docs, Top(docs, degraded, n), c)[Len(Top(docs, degraded, n))]

\* A hit is given in part.
Cut(docs, given) == \E k \in DOMAIN given : given[k].length < docs[given[k].doc].length

\* An answer is what the loop gives of the best hits, whether or not the
\* ranking was cut before; the hits it drops are counted if there are any.
LEMMA AnswerIs ==
  ASSUME NEW N \in Nat, NEW docs \in [1..N -> Document], NEW degraded, NEW limited,
         NEW n \in Nat \ {0}, NEW c \in Nat
  PROVE  /\ Answer(docs, degraded, limited, n, c).given = GivenOf(docs, degraded, n, c).given
         /\ Answer(docs, degraded, limited, n, c).used = GivenOf(docs, degraded, n, c).used
         /\ Answer(docs, degraded, limited, n, c).truncated <=>
              Cut(docs, GivenOf(docs, degraded, n, c).given)
         /\ Answer(docs, degraded, limited, n, c).dropped > 0 <=> Len(Ranking(docs, degraded)) > n
<1> DEFINE all    == Ranking(docs, degraded)
           m      == n * Headroom
           ranked == IF limited THEN First(m, all) ELSE all
           top    == First(n, ranked)
           a      == Answer(docs, degraded, limited, n, c)
<1>1. m \in Nat /\ n < m
  <2>1. Headroom \in Nat /\ Headroom >= 2
    BY BudgetAssumption
  <2>2. PICK h \in Nat : Headroom = h + 2
    <3>1. Headroom - 2 \in Nat /\ Headroom = (Headroom - 2) + 2
      BY <2>1
    <3> QED BY <3>1
  <2>3. n * h \in Nat /\ n * (h + 2) = n * h + 2 * n
    BY <2>2
  <2> QED BY <2>2, <2>3
<1>2. all \in Seq(1..N) /\ Len(all) \in Nat
  BY RankingIs
<1> HIDE DEF all, m
<1>3. top = First(n, all)
  BY <1>1, <1>2, FirstOfFirst
<1>4. First(m, all) \in Seq(1..N) /\ Len(First(m, all)) = IF m < Len(all) THEN m ELSE Len(all)
  BY <1>1, <1>2, FirstOf
<1>5. ranked \in Seq(1..N) /\ (Len(ranked) > n <=> Len(all) > n) /\ Len(ranked) \in Nat
  BY <1>1, <1>2, <1>4
<1> HIDE DEF ranked
<1>6. Len(top) = IF n < Len(ranked) THEN n ELSE Len(ranked)
  BY <1>5, FirstOf
<1>7. Len(ranked) - Len(top) > 0 <=> Len(all) > n
  <2> HIDE DEF top
  <2> QED BY <1>2, <1>5, <1>6
<1>8. Filled(docs, top, c) = GivenOf(docs, degraded, n, c)
  BY <1>3, FilledIs DEF GivenOf, Top, all
<1> HIDE DEF top
<1>9. a = [given     |-> Filled(docs, top, c).given,
           used      |-> Filled(docs, top, c).used,
           truncated |-> Cut(docs, Filled(docs, top, c).given),
           dropped   |-> Len(ranked) - Len(top)]
  BY DEF Answer, Cut, all, m, ranked, top
<1> HIDE DEF a
<1> QED BY <1>7, <1>8, <1>9 DEF a, all

\* The budgets of an answer.
LEMMA BudgetOf ==
  ASSUME NEW N \in Nat, NEW docs \in [1..N -> Document], NEW degraded, NEW limited,
         NEW n \in Nat \ {0}, NEW c \in Nat
  PROVE  Truthful(docs, degraded, limited, n, c)
<1> DEFINE a    == Answer(docs, degraded, limited, n, c)
           all  == Ranking(docs, degraded)
           top  == Top(docs, degraded, n)
           st   == GivenOf(docs, degraded, n, c)
           last == Len(st.given)
           whole(k) == st.given[k].length = docs[st.given[k].doc].length
<1>1. /\ a.given = st.given /\ a.used = st.used
      /\ a.truncated <=> Cut(docs, st.given)
      /\ a.dropped > 0 <=> Len(all) > n
  BY AnswerIs
<1>2. all \in Seq(1..N) /\ Len(all) \in Nat
  BY RankingIs
<1>3. /\ top = First(n, all) /\ top \in Seq(1..N) /\ Len(top) \in Nat
      /\ Len(top) = IF n < Len(all) THEN n ELSE Len(all)
      /\ \A p \in 1..Len(top) : p \in 1..Len(all) /\ top[p] = all[p]
  <2>1. top = First(n, all)
    BY DEF Top
  <2> HIDE DEF top, all
  <2> QED BY <1>2, <2>1, FirstOf
<1>4. FilledTo(docs, top, c, Len(top), st)
  <2>1. Len(top) \in 0..Len(top)
    BY <1>3
  <2>2. Budgeted(docs, top, c)
    BY TopBudgeted
  <2> HIDE DEF top
  <2>3. FilledTo(docs, top, c, Len(top), Fill(docs, top, c)[Len(top)])
    BY <2>1, <2>2, FillSound
  <2> QED BY <2>3 DEF GivenOf, top
<1>5. \A i \in 1..N : docs[i].length \in Nat
  <2>1. MaxLength \in Nat
    BY BudgetAssumption
  <2> QED BY <2>1 DEF Document
<1> HIDE DEF a, all, top, st
<1>6. /\ st.given \in Seq(Taken) /\ DOMAIN st.given = 1..last /\ last \in Nat /\ st.used \in Nat
      /\ st.used <= c /\ last <= Len(top) /\ (last = Len(top) \/ st.used = c)
  BY <1>4 DEF FilledTo, Filling
<1>7. last <= n /\ last <= Len(all) /\ (last = Len(top) \/ st.used = c)
  <2> HIDE DEF last
  <2> QED BY <1>2, <1>3, <1>6
<1>8. ASSUME NEW k \in 1..last
      PROVE  /\ st.given[k].doc = all[k] /\ k \in 1..Len(all)
             /\ st.given[k].length > 0
             /\ st.given[k].length <= docs[st.given[k].doc].length
             /\ k < last => whole(k)
             /\ st.given[k].length < docs[st.given[k].doc].length <=> ~whole(k)
  <2>1. k \in 1..Len(top) /\ k \in Nat
    <3> HIDE DEF last
    <3> QED BY <1>3, <1>6
  <2>2. top[k] = all[k] /\ k \in 1..Len(all) /\ top[k] \in 1..N
    BY <1>3, <2>1
  <2>3. /\ st.given[k].doc = top[k]
        /\ st.given[k].length > 0 /\ st.given[k].length <= docs[top[k]].length
        /\ st.given[k].length = docs[top[k]].length \/ k = last
    BY <1>4 DEF FilledTo
  <2>4. st.given[k].length \in Nat /\ docs[top[k]].length \in Nat
    <3>1. st.given[k] \in Taken
      BY <1>6
    <3> QED BY <1>5, <2>2, <3>1 DEF Taken
  <2>5. k < last => k # last
    BY <2>1
  <2>6. st.given[k].length < docs[top[k]].length <=> st.given[k].length # docs[top[k]].length
    BY <2>3, <2>4
  <2> HIDE DEF last
  <2> QED BY <2>2, <2>3, <2>5, <2>6
<1> HIDE DEF whole
<1>9. [k \in 1..last |-> st.given[k].doc] = First(last, all)
  <2> DEFINE s == [k \in 1..last |-> st.given[k].doc]
             f == First(last, all)
  <2>1. f \in Seq(1..N) /\ Len(f) = last /\ \A k \in 1..last : f[k] = all[k]
    <3> HIDE DEF last
    <3>1. /\ f \in Seq(1..N) /\ Len(f) = IF last < Len(all) THEN last ELSE Len(all)
          /\ \A k \in 1..Len(f) : f[k] = all[k]
      BY <1>2, <1>6, FirstOf
    <3>2. Len(f) = last
      <4> HIDE DEF f
      <4> QED BY <1>2, <1>6, <1>7, <3>1
    <3> QED BY <3>1, <3>2
  <2>2. \A k \in 1..last : s[k] = all[k]
    BY <1>8
  <2>3. f = [k \in 1..last |-> f[k]]
    <3> HIDE DEF f, last
    <3> QED BY <2>1
  <2> HIDE DEF f
  <2> QED BY <2>1, <2>3, <1>8 DEF f
<1>10. "DROPPED" \in Warnings(a) <=> Len(all) > n
  BY <1>1 DEF Warnings
<1>11. "TRUNCATED" \in Warnings(a) <=> \E k \in 1..last : ~whole(k)
  <2>1. "TRUNCATED" \in Warnings(a) <=> a.truncated
    BY DEF Warnings
  <2> HIDE DEF last
  <2> QED BY <1>1, <1>6, <1>8, <2>1 DEF Cut
<1>12. Warnings(a) = {} => last = Len(all) \/ a.used = c
  <2>1. Warnings(a) = {} => ~(Len(all) > n)
    BY <1>10
  <2>2. ~(Len(all) > n) => Len(top) = Len(all)
    BY <1>2, <1>3
  <2> QED BY <1>1, <1>6, <2>1, <2>2
<1>13. last < Len(First(n, all)) => a.used = c
  <2>1. last < Len(top) => last # Len(top)
    BY <1>3, <1>6
  <2> QED BY <1>1, <1>3, <1>6, <2>1
<1>14. /\ last <= n /\ a.used <= c
       /\ [k \in 1..last |-> a.given[k].doc] = First(last, all)
       /\ \A k \in 1..last : a.given[k].length > 0 /\ (k < last => whole(k))
  <2> HIDE DEF last
  <2> QED BY <1>1, <1>6, <1>7, <1>8, <1>9
<1>15. last = Len(a.given) /\ \A k : whole(k) <=> a.given[k].length = docs[a.given[k].doc].length
  BY <1>1 DEF whole
<1> HIDE DEF last
<1> QED BY <1>10, <1>11, <1>12, <1>13, <1>14, <1>15 DEF Truthful, a, all

\* Every answer is the ranking as far as its budgets reach, and its warnings
\* say what is missing, for any documents, weights, limits and budgets
\* (ContextService.recallInternal).
THEOREM BudgetsKept == BudgetTruthful
<1> SUFFICES ASSUME NEW docs \in DocumentLists, NEW degraded \in BOOLEAN, NEW limited \in BOOLEAN,
                    NEW n \in 1..MaxResults, NEW c \in 1..MaxChars
             PROVE  Truthful(docs, degraded, limited, n, c)
  BY DEF BudgetTruthful
<1>1. PICK N \in Nat : docs \in [1..N -> Document]
  BY DEF DocumentLists
<1>2. n \in Nat \ {0} /\ c \in Nat
  BY BudgetAssumption
<1> QED BY <1>1, <1>2, BudgetOf

-----------------------------------------------------------------------------
\* What vectors do to the ranking.

PlaceIn(ranking, i) == CHOOSE p \in DOMAIN ranking : ranking[p] = i

\* In a ranking, places are in the order of the scores.
LEMMA RankingOrders ==
  ASSUME NEW n \in Nat, NEW scores \in [1..n -> Nat], NEW seq, IsRanking(seq, scores)
  PROVE  /\ ToSet(seq) = Hits(scores)
         /\ \A i, j \in Hits(scores) :
              PlaceIn(seq, i) < PlaceIn(seq, j) <=> Ahead(scores, i, j)
<1> DEFINE H == Hits(scores)
<1>1. /\ seq \in Seq(H) /\ DOMAIN seq = 1..Len(seq) /\ Len(seq) \in Nat
      /\ \A i \in H : \E p \in 1..Len(seq) : seq[p] = i
      /\ \A p, q \in 1..Len(seq) : p < q => Ahead(scores, seq[p], seq[q])
  BY DEF IsRanking
<1>2. H \subseteq 1..n
  BY HitsFinite
<1> HIDE DEF H
<1>3. ToSet(seq) = H
  BY <1>1 DEF ToSet
<1>4. \A i \in H : PlaceIn(seq, i) \in 1..Len(seq) /\ seq[PlaceIn(seq, i)] = i
  BY <1>1 DEF PlaceIn
<1>5. ASSUME NEW i \in H, NEW j \in H
      PROVE  PlaceIn(seq, i) < PlaceIn(seq, j) <=> Ahead(scores, i, j)
  <2> DEFINE p == PlaceIn(seq, i)
             q == PlaceIn(seq, j)
  <2>1. p \in 1..Len(seq) /\ q \in 1..Len(seq) /\ seq[p] = i /\ seq[q] = j
    BY <1>4
  <2> HIDE DEF p, q
  <2>2. p < q => Ahead(scores, i, j)
    BY <1>1, <2>1
  <2>3. q < p => Ahead(scores, j, i)
    BY <1>1, <2>1
  <2>4. Ahead(scores, i, j) => ~Ahead(scores, j, i) /\ i # j
    BY <1>2, AheadOrders
  <2>5. p = q => i = j
    BY <2>1
  <2>6. p < q \/ q < p \/ p = q
    BY <1>1, <2>1
  <2>7. p < q <=> Ahead(scores, i, j)
    BY <2>2, <2>3, <2>4, <2>5, <2>6
  <2> QED BY <2>7 DEF p, q
<1> QED BY <1>3, <1>5 DEF H

\* Scaling by a positive number keeps the order.
LEMMA Scaled ==
  ASSUME NEW w \in Nat \ {0}, NEW x \in Nat, NEW y \in Nat
  PROVE  /\ w * x \in Nat /\ (w * x > 0 <=> x > 0)
         /\ w * x > w * y <=> x > y
         /\ w * x = w * y <=> x = y
<1>1. ASSUME NEW a \in Nat, NEW b \in Nat, a > b PROVE w * a > w * b
  <2>1. PICK d \in Nat : a = b + d + 1
    <3>1. a - b - 1 \in Nat /\ a = b + (a - b - 1) + 1
      BY <1>1
    <3> QED BY <3>1
  <2>2. w * d \in Nat /\ w * b \in Nat /\ w * (b + d + 1) = w * b + w * d + w
    OBVIOUS
  <2> QED BY <2>1, <2>2
<1>2. w * x \in Nat /\ w * y \in Nat /\ w * 0 = 0
  OBVIOUS
<1>3. x > y => w * x > w * y
  BY <1>1
<1>4. y > x => w * y > w * x
  BY <1>1
<1>5. x > 0 => w * x > w * 0
  BY <1>1
<1>6. x > y \/ y > x \/ x = y
  OBVIOUS
<1>7. x > 0 \/ x = 0
  OBVIOUS
<1>8. w * x > w * y => ~(w * y > w * x) /\ w * x # w * y
  BY <1>2
<1> QED BY <1>2, <1>3, <1>4, <1>5, <1>6, <1>7, <1>8

\* The scores of both rankings, and those of the weighted sum.
LEMMA FusedIs ==
  ASSUME NEW d \in Document
  PROVE  LET l == d.lexical
             v == d.cosine
             W == LexicalWeight + VectorWeight
         IN /\ l \in Nat /\ v \in Nat /\ W \in Nat \ {0} /\ Fused(d) \in Nat
            /\ Fused(d) > 0 <=> l > 0 \/ v > 0
            /\ v = 0 => Fused(d) = W * l
            /\ \A x \in Nat : x > l /\ x > v => W * x > Fused(d)
<1> DEFINE l == d.lexical
           v == d.cosine
           A == LexicalWeight
           B == VectorWeight
           W == A + B
<1>1. /\ A \in Nat \ {0} /\ B \in Nat \ {0} /\ MaxScore \in Nat
  BY BudgetAssumption
<1>2. l \in Nat /\ v \in Nat /\ W \in Nat \ {0}
  BY <1>1 DEF Document
<1>3. Fused(d) = IF l > 0 /\ v > 0 THEN A * l + B * v ELSE W * (IF l > 0 THEN l ELSE v)
  BY DEF Fused
<1> DEFINE F == Fused(d)
<1> HIDE DEF l, v, A, B, F
<1>4. CASE l > 0 /\ v > 0
  <2>1. F = A * l + B * v
    BY <1>3, <1>4 DEF F
  <2>2. A * l \in Nat /\ B * v \in Nat /\ A * l > 0
    BY <1>1, <1>2, <1>4, Scaled
  <2>3. ASSUME NEW x \in Nat, x > l, x > v PROVE W * x > F
    <3>1. A * x > A * l /\ B * x > B * v /\ A * x \in Nat /\ B * x \in Nat
      BY <1>1, <1>2, <2>3, Scaled
    <3>2. W * x = A * x + B * x
      BY <1>1
    <3> QED BY <2>1, <2>2, <3>1, <3>2
  <2>4. F \in Nat /\ F > 0
    BY <2>1, <2>2
  <2>5. v # 0
    BY <1>2, <1>4
  <2> QED BY <1>2, <1>4, <2>3, <2>4, <2>5 DEF l, v, A, B, F
<1>5. CASE ~(l > 0 /\ v > 0)
  <2> DEFINE e == IF l > 0 THEN l ELSE v
  <2>1. e \in Nat /\ (e > 0 <=> l > 0 \/ v > 0) /\ (v = 0 => e = l)
    BY <1>2
  <2>2. e = l \/ e = v
    OBVIOUS
  <2>3. F = W * e
    BY <1>3, <1>5 DEF F
  <2> HIDE DEF e, W
  <2>4. F \in Nat /\ (F > 0 <=> l > 0 \/ v > 0)
    BY <1>2, <2>1, <2>3, Scaled
  <2>5. v = 0 => F = W * l
    BY <2>1, <2>3
  <2>6. ASSUME NEW x \in Nat, x > l, x > v PROVE W * x > F
    <3>1. x > e
      BY <2>2, <2>6
    <3> QED BY <1>2, <2>1, <2>3, <3>1, Scaled
  <2> QED BY <1>2, <2>4, <2>5, <2>6 DEF l, v, A, B, F, W
<1> QED BY <1>4, <1>5

\* What the scores of both rankings have to do with each other.
ScoresAgree(docs, f, s) ==
  /\ \A i \in DOMAIN docs : s[i] > 0 => f[i] > 0
  /\ \A i \in DOMAIN docs : docs[i].cosine = 0 /\ f[i] > 0 => s[i] > 0
  /\ \A i, j \in DOMAIN docs :
       docs[i].cosine = 0 /\ docs[j].cosine = 0 => (Ahead(f, i, j) <=> Ahead(s, i, j))
  /\ \A i, j \in DOMAIN docs :
       docs[i].cosine = 0 /\ docs[i].lexical > docs[j].lexical /\ docs[i].lexical > docs[j].cosine
         => f[i] > f[j]

LEMMA ScoresDo ==
  ASSUME NEW N \in Nat, NEW docs \in [1..N -> Document],
         NEW no, no = FALSE, NEW yes, yes = TRUE
  PROVE  ScoresAgree(docs, RankScores(docs, no), RankScores(docs, yes))
<1> DEFINE f == RankScores(docs, no)
           s == RankScores(docs, yes)
           l(i) == docs[i].lexical
           v(i) == docs[i].cosine
           W == LexicalWeight + VectorWeight
<1>1. s = [i \in 1..N |-> l(i)]
  BY DEF RankScores, LexicalScores
<1>2. \A i \in 1..N : docs[i] \in Document /\ l(i) \in Nat
  BY BudgetAssumption, FusedIs
<1>3. \A i \in 1..N : s[i] = l(i)
  BY <1>1
<1>4. DOMAIN docs = 1..N /\ \A i \in 1..N : i \in Int
  OBVIOUS
<1> HIDE DEF s
<1>5. CASE \A i \in 1..N : v(i) = 0
  <2>1. f = [i \in 1..N |-> l(i)]
    BY <1>5 DEF RankScores, LexicalScores
  <2> HIDE DEF f
  <2>2. f = s
    BY <1>1, <2>1
  <2> QED BY <1>2, <1>3, <1>4, <2>2 DEF ScoresAgree, f, s
<1>6. CASE ~\A i \in 1..N : v(i) = 0
  <2>1. f = [i \in 1..N |-> Fused(docs[i])]
    BY <1>6 DEF RankScores
  <2>2. \A i \in 1..N : f[i] = Fused(docs[i])
    BY <2>1
  <2> HIDE DEF f
  <2>3. W \in Nat \ {0}
    BY BudgetAssumption
  <2>4. ASSUME NEW i \in 1..N
        PROVE  /\ f[i] \in Nat /\ (f[i] > 0 <=> l(i) > 0 \/ v(i) > 0)
               /\ v(i) = 0 => f[i] = W * l(i)
               /\ \A x \in Nat : x > l(i) /\ x > v(i) => W * x > f[i]
    BY <1>2, <2>2, FusedIs
  <2> HIDE DEF W
  <2>5. \A i \in 1..N : s[i] > 0 => f[i] > 0
    BY <1>3, <2>4
  <2>6. \A i \in 1..N : v(i) = 0 /\ f[i] > 0 => s[i] > 0
    BY <1>3, <2>4
  <2>7. ASSUME NEW i \in 1..N, NEW j \in 1..N, v(i) = 0, v(j) = 0
        PROVE  Ahead(f, i, j) <=> Ahead(s, i, j)
    <3>1. f[i] = W * l(i) /\ f[j] = W * l(j) /\ l(i) \in Nat /\ l(j) \in Nat
      BY <1>2, <2>4, <2>7
    <3>2. (f[i] > f[j] <=> l(i) > l(j)) /\ (f[i] = f[j] <=> l(i) = l(j))
      <4> HIDE DEF l
      <4> QED BY <2>3, <3>1, Scaled
    <3> QED BY <1>3, <3>2 DEF Ahead
  <2>8. ASSUME NEW i \in 1..N, NEW j \in 1..N, v(i) = 0, l(i) > l(j), l(i) > v(j)
        PROVE  f[i] > f[j]
    BY <1>2, <2>4, <2>8
  <2>9. ScoresAgree(docs, f, s)
    BY <1>4, <2>5, <2>6, <2>7, <2>8 DEF ScoresAgree
  <2> QED BY <2>9 DEF f, s
<1> QED BY <1>5, <1>6

LEMMA Reordered ==
  ASSUME NEW N \in Nat, NEW docs \in [1..N -> Document],
         NEW no, no = FALSE, NEW yes, yes = TRUE
  PROVE  Reorders(docs, Ranking(docs, no), Ranking(docs, yes))
<1> DEFINE f == RankScores(docs, no)
           s == RankScores(docs, yes)
           fused == Ranking(docs, no)
           lexical == Ranking(docs, yes)
           plain == {i \in DOMAIN docs : docs[i].cosine = 0}
<1>1. f \in [1..N -> Nat] /\ s \in [1..N -> Nat]
  BY ScoresType
<1>2. IsRanking(fused, f) /\ IsRanking(lexical, s)
  BY RankingIs
<1>3. ScoresAgree(docs, f, s)
  BY ScoresDo
<1>4. DOMAIN docs = 1..N
  OBVIOUS
<1> HIDE DEF f, s, fused, lexical
<1>5. /\ ToSet(fused) = Hits(f) /\ ToSet(lexical) = Hits(s)
      /\ \A i, j \in Hits(f) : PlaceIn(fused, i) < PlaceIn(fused, j) <=> Ahead(f, i, j)
      /\ \A i, j \in Hits(s) : PlaceIn(lexical, i) < PlaceIn(lexical, j) <=> Ahead(s, i, j)
  BY <1>1, <1>2, RankingOrders
<1>6. Hits(f) = {i \in 1..N : f[i] > 0} /\ Hits(s) = {i \in 1..N : s[i] > 0}
  BY <1>1 DEF Hits
<1>7. Hits(s) \subseteq Hits(f) /\ plain \cap Hits(f) \subseteq Hits(s)
  BY <1>3, <1>4, <1>6 DEF ScoresAgree
<1>8. \A i, j \in plain \cap Hits(s) :
        PlaceIn(fused, i) < PlaceIn(fused, j) <=> PlaceIn(lexical, i) < PlaceIn(lexical, j)
  BY <1>3, <1>5, <1>7 DEF ScoresAgree
<1>9. ASSUME NEW i \in plain \cap Hits(f), NEW j \in Hits(f),
             docs[i].lexical > docs[j].lexical, docs[i].lexical > docs[j].cosine
      PROVE  PlaceIn(fused, i) < PlaceIn(fused, j)
  <2>1. i \in 1..N /\ j \in 1..N
    BY <1>6
  <2>2. f[i] > f[j]
    BY <1>3, <1>4, <1>9, <2>1 DEF ScoresAgree
  <2> QED BY <1>5, <2>2 DEF Ahead
<1>10. Reorders(docs, fused, lexical)
  BY <1>5, <1>7, <1>8, <1>9 DEF Reorders, PlaceIn
<1> QED BY <1>10 DEF fused, lexical

-----------------------------------------------------------------------------
\* The older route.

PlainAt(docs, ranked, c, f, k) ==
  IF k = 0 THEN [output |-> << >>, remaining |-> c]
  ELSE LET before == f[k - 1]
           length == docs[ranked[k]].length
           size   == IF length > before.remaining THEN before.remaining ELSE length
       IN IF before.remaining <= 0 THEN before
          ELSE [output    |-> Append(before.output, [doc |-> ranked[k], length |-> size]),
                remaining |-> before.remaining - size]

Plain(docs, ranked, c) ==
  CHOOSE f : f = [k \in 0..Len(ranked) |-> PlainAt(docs, ranked, c, f, k)]

LEMMA PlainIs ==
  ASSUME NEW docs, NEW n, NEW c
  PROVE  LET ranked == First(n, Sorted(LexicalScores(docs)))
         IN  PlainRecall(docs, n, c) = Plain(docs, ranked, c)[Len(ranked)].output
  BY DEF PlainRecall, Plain, PlainAt

\* What the other loop has used up is what remains to this one.
Remaining(st, c) == [output |-> st.given, remaining |-> c - st.used]

LEMMA PlainRound ==
  ASSUME NEW docs, NEW top, NEW c, Budgeted(docs, top, c), NEW k \in 0..Len(top), NEW f,
         k # 0 => f[k - 1] = Remaining(Fill(docs, top, c)[k - 1], c)
  PROVE  PlainAt(docs, top, c, f, k) = Remaining(Fill(docs, top, c)[k], c)
<1>1. Fill(docs, top, c)[k] = FillAt(docs, top, c, Fill(docs, top, c), k)
  BY FillUnfolds
<1>2. c \in Nat /\ Len(top) \in Nat
  BY DEF Budgeted
<1>3. CASE k = 0
  BY <1>1, <1>2, <1>3 DEF PlainAt, FillAt, Remaining
<1>4. CASE k # 0
  <2> DEFINE st == Fill(docs, top, c)[k - 1]
             l == docs[top[k]].length
             u == st.used
             room == RoomFor(docs, c, u, top[k])
             size == IF l > c - u THEN c - u ELSE l
  <2>1. k - 1 \in 0..Len(top) /\ k \in 1..Len(top)
    BY <1>2, <1>4
  <2>2. FilledTo(docs, top, c, k - 1, st)
    BY <2>1, FillSound
  <2> HIDE DEF st
  <2>3. u \in Nat /\ u <= c /\ l \in Nat
    BY <2>1, <2>2 DEF FilledTo, Filling, Budgeted
  <2>4. Fill(docs, top, c)[k] = Given(docs, top, c, k, st)
    BY <1>1, <1>4 DEF FillAt, st
  <2>5. f[k - 1] = [output |-> st.given, remaining |-> c - u]
    BY <1>4 DEF Remaining, st
  <2>6. PlainAt(docs, top, c, f, k) =
          IF c - u <= 0 THEN [output |-> st.given, remaining |-> c - u]
          ELSE [output    |-> Append(st.given, [doc |-> top[k], length |-> size]),
                remaining |-> (c - u) - size]
    BY <1>4, <2>5 DEF PlainAt
  <2>7. Given(docs, top, c, k, st) =
          IF u >= c THEN st
          ELSE [given |-> Append(st.given, [doc |-> top[k], length |-> room]),
                used  |-> u + room]
    BY DEF Given, Full
  <2>8. room = size
    BY DEF RoomFor
  <2> HIDE DEF u, l, room, size
  <2>9. (u >= c <=> c - u <= 0) /\ size \in Int /\ (c - u) - size = c - (u + size)
    <3>1. size \in Int
      BY <1>2, <2>3 DEF size
    <3> QED BY <1>2, <2>3, <3>1
  <2>10. CASE u >= c
    BY <2>4, <2>6, <2>7, <2>9, <2>10 DEF Remaining, u
  <2>11. CASE ~(u >= c)
    <3> DEFINE more == Append(st.given, [doc |-> top[k], length |-> size])
    <3>1. PlainAt(docs, top, c, f, k) = [output |-> more, remaining |-> (c - u) - size]
      BY <2>6, <2>9, <2>11
    <3>2. Fill(docs, top, c)[k] = [given |-> more, used |-> u + size]
      BY <2>4, <2>7, <2>8, <2>11
    <3> HIDE DEF more
    <3> QED BY <2>9, <3>1, <3>2 DEF Remaining
  <2> QED BY <2>10, <2>11
<1> QED BY <1>3, <1>4

LEMMA PlainGives ==
  ASSUME NEW docs, NEW top, NEW c, Budgeted(docs, top, c)
  PROVE  Plain(docs, top, c)[Len(top)].output = Fill(docs, top, c)[Len(top)].given
<1> DEFINE n == Len(top)
           F == Fill(docs, top, c)
           g == [k \in 0..n |-> Remaining(F[k], c)]
           f == Plain(docs, top, c)
<1>1. n \in Nat
  BY DEF Budgeted
<1>2. g = [k \in 0..n |-> PlainAt(docs, top, c, g, k)]
  <2>1. ASSUME NEW k \in 0..n PROVE PlainAt(docs, top, c, g, k) = Remaining(F[k], c)
    <3>1. k # 0 => k - 1 \in 0..n
      BY <1>1
    <3>2. k # 0 => g[k - 1] = Remaining(F[k - 1], c)
      BY <3>1
    <3> HIDE DEF g
    <3> QED BY <3>2, PlainRound
  <2> DEFINE h == [k \in 0..n |-> PlainAt(docs, top, c, g, k)]
  <2>2. h = [k \in 0..n |-> Remaining(F[k], c)]
    <3> HIDE DEF g
    <3> QED BY <2>1
  <2> QED BY <2>2
<1> HIDE DEF g
<1>3. f = [k \in 0..n |-> PlainAt(docs, top, c, f, k)]
  BY <1>2 DEF Plain
<1>4. \A k \in 0..n : f[k] = PlainAt(docs, top, c, f, k)
  BY <1>3
<1> HIDE DEF f, F
<1> DEFINE Wrong == {k \in 0..n : f[k] # Remaining(F[k], c)}
<1>5. Wrong = {}
  <2> SUFFICES ASSUME Wrong # {} PROVE FALSE
    OBVIOUS
  <2>1. PICK k \in Wrong : \A j \in Wrong : k <= j
    <3>1. Wrong \in SUBSET Nat
      BY <1>1
    <3> HIDE DEF Wrong
    <3> QED BY <3>1, LeastNat
  <2>2. k \in 0..n /\ f[k] # Remaining(F[k], c)
    OBVIOUS
  <2>3. k # 0 => k - 1 \in 0..n /\ ~(k <= k - 1)
    BY <1>1, <2>2
  <2>4. k # 0 => k - 1 \notin Wrong
    <3> HIDE DEF Wrong
    <3> QED BY <2>1, <2>3
  <2>5. k # 0 => f[k - 1] = Remaining(F[k - 1], c)
    BY <2>3, <2>4
  <2>6. PlainAt(docs, top, c, f, k) = Remaining(F[k], c)
    BY <2>2, <2>5, PlainRound DEF F
  <2> QED BY <1>4, <2>2, <2>6
<1>6. f[n] = Remaining(F[n], c)
  BY <1>1, <1>5
<1> QED BY <1>6 DEF Remaining, f, F

LEMMA PlainIsAnswer ==
  ASSUME NEW N \in Nat, NEW docs \in [1..N -> Document], NEW n \in Nat \ {0}, NEW c \in Nat,
         NEW yes, Ranking(docs, yes) = Sorted(LexicalScores(docs))
  PROVE  PlainRecall(docs, n, c) = Answer(docs, yes, yes, n, c).given
<1> DEFINE top == Top(docs, yes, n)
<1>1. Budgeted(docs, top, c)
  BY TopBudgeted
<1>2. PlainRecall(docs, n, c) = Plain(docs, top, c)[Len(top)].output
  BY PlainIs DEF Top
<1>3. Answer(docs, yes, yes, n, c).given = Fill(docs, top, c)[Len(top)].given
  <2>1. Answer(docs, yes, yes, n, c).given = GivenOf(docs, yes, n, c).given
    BY AnswerIs
  <2> QED BY <2>1 DEF GivenOf
<1> HIDE DEF top
<1> QED BY <1>1, <1>2, <1>3, PlainGives

\* Vectors add hits and reorder them, no more (HybridRetriever.rank).
THEOREM VectorsReorder == VectorsOnlyReorder
<1> DEFINE no == FALSE
           yes == TRUE
<1>1. no = FALSE /\ yes = TRUE
  OBVIOUS
<1> HIDE DEF no, yes
<1>2. ASSUME NEW docs \in DocumentLists
      PROVE  /\ Reorders(docs, Ranking(docs, no), Ranking(docs, yes))
             /\ \A n \in 1..MaxResults, c \in 1..MaxChars :
                  PlainRecall(docs, n, c) = Answer(docs, yes, yes, n, c).given
  <2>1. PICK N \in Nat : docs \in [1..N -> Document]
    BY DEF DocumentLists
  <2>2. Reorders(docs, Ranking(docs, no), Ranking(docs, yes))
    BY <1>1, <2>1, Reordered
  <2>3. ASSUME NEW n \in 1..MaxResults, NEW c \in 1..MaxChars
        PROVE  PlainRecall(docs, n, c) = Answer(docs, yes, yes, n, c).given
    <3>1. n \in Nat \ {0} /\ c \in Nat
      BY BudgetAssumption
    <3>2. Ranking(docs, yes) = Sorted(LexicalScores(docs))
      BY <1>1 DEF Ranking
    <3> QED BY <2>1, <3>1, <3>2, PlainIsAnswer
  <2> QED BY <2>2, <2>3
<1> QED BY <1>2 DEF VectorsOnlyReorder, no, yes

\* Whenever an answer is given, it is the ranking as far as its budgets reach.
THEOREM AnswersTruthful == RecallSpec => []AnswersGivenAreTruthful
<1>1. AnswersGivenAreTruthful
  BY BudgetsKept, VectorsReorder DEF AnswersGivenAreTruthful, AnswerTruthful
<1> QED BY <1>1, PTL

-----------------------------------------------------------------------------
\* Texts.

\* The place of a part in a text.
Stands(string, part, i) ==
  /\ i \in 0..(Len(string) - Len(part))
  /\ \A k \in 1..Len(part) : string[i + k] = part[k]

LEMMA IncludesIs ==
  ASSUME NEW X, NEW string \in Seq(X), NEW part \in Seq(X)
  PROVE  Includes(string, part) <=> \E i : Stands(string, part, i)
<1> DEFINE n == Len(part)
           cut(i) == SubSeq(string, i + 1, i + n)
<1>1. n \in Nat /\ Len(string) \in Nat
  OBVIOUS
<1>2. ASSUME NEW i \in 0..(Len(string) - n)
      PROVE  cut(i) = part <=> \A k \in 1..n : string[i + k] = part[k]
  <2>1. \A k \in (i + 1)..(i + n) : string[k] \in X
    <3>1. ASSUME NEW k \in (i + 1)..(i + n) PROVE k \in 1..Len(string)
      BY <1>1, <3>1
    <3> QED BY <3>1
  <2>2. i + 1 \in Int /\ i + n \in Int /\ (i + n) - (i + 1) + 1 = n
        /\ (n # 0 => i + 1 <= i + n) /\ (n = 0 => ~(i + 1 <= i + n))
        /\ \A k \in 1..n : (i + 1) + k - 1 = i + k
    BY <1>1
  <2>3. /\ cut(i) \in Seq(X)
        /\ Len(cut(i)) = n
        /\ \A k \in 1..n : cut(i)[k] = string[i + k]
    <3>1. /\ cut(i) \in Seq(X)
          /\ Len(cut(i)) = IF i + 1 <= i + n THEN (i + n) - (i + 1) + 1 ELSE 0
          /\ \A k \in 1..((i + n) - (i + 1) + 1) : cut(i)[k] = string[(i + 1) + k - 1]
      <4> DEFINE a == i + 1
                 b == i + n
      <4>1. a \in Int /\ b \in Int /\ \A k \in a..b : string[k] \in X
        BY <2>1, <2>2
      <4> HIDE DEF a, b
      <4>2. /\ SubSeq(string, a, b) \in Seq(X)
            /\ Len(SubSeq(string, a, b)) = IF a <= b THEN b - a + 1 ELSE 0
            /\ \A k \in 1..(b - a + 1) : SubSeq(string, a, b)[k] = string[a + k - 1]
        BY <4>1, SubSeqProperties
      <4> QED BY <4>2 DEF a, b
    <3> HIDE DEF cut, n
    <3> QED BY <2>2, <3>1
  <2> HIDE DEF cut
  <2> QED BY <2>3, SeqEqual
<1> QED BY <1>2 DEF Includes, Stands

LEMMA IncludesMore ==
  ASSUME NEW X, NEW string \in Seq(X), NEW part \in Seq(X), NEW inner \in Seq(X),
         Includes(string, part), Includes(part, inner)
  PROVE  Includes(string, inner)
<1>1. PICK i : Stands(string, part, i)
  BY IncludesIs
<1>2. PICK j : Stands(part, inner, j)
  BY IncludesIs
<1>3. Stands(string, inner, i + j)
  <2>1. /\ i \in Nat /\ j \in Nat /\ i + j \in 0..(Len(string) - Len(inner))
        /\ \A k \in 1..Len(inner) : j + k \in 1..Len(part) /\ (i + j) + k = i + (j + k)
    BY <1>1, <1>2 DEF Stands
  <2>2. \A k \in 1..Len(inner) : string[i + (j + k)] = part[j + k] /\ part[j + k] = inner[k]
    BY <1>1, <1>2, <2>1 DEF Stands
  <2> QED BY <2>1, <2>2 DEF Stands
<1> QED BY <1>3, IncludesIs

\* The parts of a text stand in it.
LEMMA CutIs ==
  ASSUME NEW X, NEW string \in Seq(X),
         NEW i \in 1..Len(string), NEW j \in i..Len(string)
  PROVE  /\ SubSeq(string, i, j) \in Seq(X) /\ Len(SubSeq(string, i, j)) = j - i + 1
         /\ \A k \in 1..(j - i + 1) : SubSeq(string, i, j)[k] = string[i + k - 1]
         /\ Includes(string, SubSeq(string, i, j))
<1> DEFINE cut == SubSeq(string, i, j)
<1>1. /\ cut \in Seq(X) /\ Len(cut) = j - i + 1
      /\ \A k \in 1..(j - i + 1) : cut[k] = string[i + k - 1]
  <2>1. \A k \in i..j : string[k] \in X
    OBVIOUS
  <2>2. i \in Int /\ j \in Int /\ i <= j
    OBVIOUS
  <2> QED BY <2>1, <2>2, SubSeqProperties
<1>2. Stands(string, cut, i - 1)
  <2> HIDE DEF cut
  <2>1. i - 1 \in 0..(Len(string) - Len(cut))
    BY <1>1
  <2>2. \A k \in 1..Len(cut) : i + k - 1 = (i - 1) + k
    BY <1>1
  <2> QED BY <1>1, <2>1, <2>2 DEF Stands
<1> HIDE DEF cut
<1> QED BY <1>1, <1>2, IncludesIs DEF cut

LEMMA IncludesItself ==
  ASSUME NEW X, NEW string \in Seq(X)
  PROVE  Includes(string, string)
<1>1. Stands(string, string, 0)
  BY DEF Stands
<1> QED BY <1>1, IncludesIs

\* A bounded set of numbers has a greatest one.
LEMMA GreatestNat ==
  ASSUME NEW T \in SUBSET Nat, T # {}, NEW b \in Nat, \A t \in T : t <= b
  PROVE  \E m \in T : \A n \in T : n <= m
<1> DEFINE U == {b - t : t \in T}
<1>1. U \in SUBSET Nat /\ U # {}
  <2>1. \A t \in T : t \in Nat /\ t <= b
    OBVIOUS
  <2>2. \A t \in T : b - t \in Nat
    BY <2>1
  <2>3. PICK t \in T : TRUE
    OBVIOUS
  <2> QED BY <2>2, <2>3
<1>2. PICK u \in U : \A v \in U : u <= v
  <2> HIDE DEF U
  <2> QED BY <1>1, LeastNat
<1>3. PICK m \in T : u = b - m
  OBVIOUS
<1>4. ASSUME NEW n \in T PROVE n <= m
  <2>1. b - n \in U
    OBVIOUS
  <2>2. u <= b - n
    <3> HIDE DEF U
    <3> QED BY <1>2, <2>1
  <2> QED BY <1>3, <2>2
<1> QED BY <1>4

LEMMA LargestIs ==
  ASSUME NEW T \in SUBSET Nat, T # {}, NEW b \in Nat, \A t \in T : t <= b
  PROVE  Largest(T) \in T /\ \A t \in T : Largest(T) >= t
<1>1. \E m \in T : \A n \in T : m >= n
  <2>1. PICK m \in T : \A n \in T : n <= m
    BY GreatestNat
  <2> QED BY <2>1
<1> QED BY <1>1 DEF Largest

-----------------------------------------------------------------------------
\* Segments.

Blanks == {"-", " "}

\* What can be a segment of a text.
PartOf(string) == {s \in Seq(Characters) : s # << >> /\ IsSegment(s) /\ Includes(string, s)}

Longest(string, i) ==
  SubSeq(string, i, CHOOSE j \in i..Len(string) :
    /\ IsSegment(SubSeq(string, i, j))
    /\ \A k \in j + 1..Len(string) : ~IsSegment(SubSeq(string, i, k)))

LEMMA SingleIsSegment ==
  ASSUME NEW s \in Seq(Characters), Len(s) = 1, s[1] \notin Blanks
  PROVE  IsSegment(s)
<1>1. DOMAIN s = {1} /\ s[1] \in Characters
  BY LenProperties
<1>2. s[1] \in Letters \cup Ideographs /\ s[1] # "-"
  BY <1>1 DEF Characters, Blanks
<1>3. ToSet(s) = {s[1]}
  BY <1>1 DEF ToSet
<1>4. \A i \in 1..(Len(s) - 1) : FALSE
  OBVIOUS
<1>5. CASE s[1] \in Ideographs
  BY <1>3, <1>5 DEF IsSegment, IsCjk
<1>6. CASE s[1] \notin Ideographs
  <2>1. ToSet(s) \subseteq Letters \cup Ideographs \cup {"-"}
    BY <1>2, <1>3
  <2> QED BY <1>2, <1>4, <1>6, <2>1 DEF IsSegment, Words
<1> QED BY <1>5, <1>6

LEMMA LongestIs ==
  ASSUME NEW string \in Seq(Characters), NEW i \in 1..Len(string), string[i] \notin Blanks
  PROVE  /\ Longest(string, i) \in PartOf(string)
         /\ i + Len(Longest(string, i)) \in (i + 1)..(Len(string) + 1)
<1> DEFINE Ends == {j \in i..Len(string) : IsSegment(SubSeq(string, i, j))}
           Good(j) == /\ IsSegment(SubSeq(string, i, j))
                      /\ \A k \in j + 1..Len(string) : ~IsSegment(SubSeq(string, i, k))
           e == CHOOSE j \in i..Len(string) : Good(j)
<1>1. i \in Ends
  <2>1. /\ SubSeq(string, i, i) \in Seq(Characters) /\ Len(SubSeq(string, i, i)) = 1
        /\ SubSeq(string, i, i)[1] = string[i]
    <3>1. i \in i..Len(string) /\ i - i + 1 = 1 /\ i + 1 - 1 = i /\ 1 \in 1..1
      OBVIOUS
    <3> QED BY <3>1, CutIs
  <2>2. IsSegment(SubSeq(string, i, i))
    BY <2>1, SingleIsSegment
  <2> QED BY <2>2
<1>2. PICK m \in Ends : \A n \in Ends : n <= m
  <2>1. Ends \in SUBSET Nat /\ Ends # {} /\ Len(string) \in Nat /\ \A t \in Ends : t <= Len(string)
    BY <1>1
  <2> HIDE DEF Ends
  <2> QED BY <2>1, GreatestNat
<1>3. m \in i..Len(string) /\ Good(m)
  <2>1. m \in i..Len(string) /\ IsSegment(SubSeq(string, i, m))
    OBVIOUS
  <2>2. ASSUME NEW k \in m + 1..Len(string), IsSegment(SubSeq(string, i, k)) PROVE FALSE
    <3>1. k \in i..Len(string) /\ ~(k <= m)
      BY <2>1
    <3>2. k \in Ends
      BY <2>2, <3>1
    <3> HIDE DEF Ends
    <3> QED BY <1>2, <3>1, <3>2
  <2> QED BY <2>1, <2>2
<1>4. e \in i..Len(string) /\ Good(e)
  <2> HIDE DEF Good
  <2> QED BY <1>3
<1>5. Longest(string, i) = SubSeq(string, i, e)
  BY DEF Longest
<1> HIDE DEF e
<1>6. /\ SubSeq(string, i, e) \in Seq(Characters) /\ Len(SubSeq(string, i, e)) = e - i + 1
      /\ Includes(string, SubSeq(string, i, e))
  BY <1>4, CutIs
<1>7. SubSeq(string, i, e) # << >>
  BY <1>4, <1>6
<1>8. i + Len(SubSeq(string, i, e)) \in (i + 1)..(Len(string) + 1)
  BY <1>4, <1>6
<1> QED BY <1>4, <1>5, <1>6, <1>7, <1>8 DEF PartOf

\* A segment is its own longest match.
LEMMA LongestWhole ==
  ASSUME NEW string \in Seq(Characters), string # << >>, IsSegment(string)
  PROVE  Longest(string, 1) = string /\ string[1] \notin Blanks
<1>1. Len(string) \in Nat \ {0} /\ SubSeq(string, 1, Len(string)) = string
  BY EmptySeq, SubSeqFull
<1> DEFINE n == Len(string)
           Good(j) == /\ IsSegment(SubSeq(string, 1, j))
                      /\ \A k \in j + 1..n : ~IsSegment(SubSeq(string, 1, k))
<1>2. Good(n)
  <2>1. IsSegment(SubSeq(string, 1, n))
    BY <1>1
  <2>2. \A k \in (n + 1)..n : FALSE
    BY <1>1
  <2> QED BY <2>1, <2>2
<1>3. ASSUME NEW j \in 1..n, Good(j) PROVE j = n
  <2>1. j # n => n \in (j + 1)..n
    <3>1. n \in Nat
      BY <1>1
    <3> HIDE DEF n
    <3> QED BY <3>1
  <2> QED BY <1>1, <1>3, <2>1
<1>4. (CHOOSE j \in 1..n : Good(j)) = n
  <2>1. n \in 1..n
    BY <1>1
  <2> HIDE DEF Good, n
  <2> QED BY <1>2, <1>3, <2>1
<1>5. string[1] \in ToSet(string)
  BY <1>1 DEF ToSet
<1>6. string[1] \notin Blanks
  <2>1. CASE string[1] \in Ideographs
    BY <2>1, TextAssumption DEF Blanks
  <2>2. CASE string[1] \notin Ideographs
    BY <1>5, <2>2, TextAssumption DEF Blanks, IsSegment, Words
  <2> QED BY <2>1, <2>2
<1> QED BY <1>1, <1>4, <1>6 DEF Longest

\* textSegments at one position, over what it gives from the later ones on.
FromAt(string, f, i) ==
  IF i > Len(string) THEN << >>
  ELSE IF string[i] \in Blanks THEN f[i + 1]
  ELSE <<Longest(string, i)>> \o f[i + Len(Longest(string, i))]

From(string) == CHOOSE f : f = [i \in 1..(Len(string) + 1) |-> FromAt(string, f, i)]

LEMMA SegmentsIs ==
  ASSUME NEW string
  PROVE  Segments(string) = From(string)[1]
BY DEF Segments, From, FromAt, Longest, Blanks

\* What it needs of the later positions, and that it keeps its type.
LEMMA FromAtLater ==
  ASSUME NEW string \in Seq(Characters), NEW i \in 1..(Len(string) + 1),
         NEW f \in [1..(Len(string) + 1) -> Seq(PartOf(string))],
         NEW g, \A j \in 1..(Len(string) + 1) : j > i => g[j] = f[j]
  PROVE  FromAt(string, f, i) \in Seq(PartOf(string)) /\ FromAt(string, g, i) = FromAt(string, f, i)
<1> DEFINE n == Len(string)
           s == Longest(string, i)
<1>1. n \in Nat
  OBVIOUS
<1>2. CASE i > n
  BY <1>2 DEF FromAt
<1>3. CASE i <= n /\ string[i] \in Blanks
  <2>1. i + 1 \in 1..(n + 1) /\ i + 1 > i /\ ~(i > n)
    BY <1>1, <1>3
  <2> QED BY <1>3, <2>1 DEF FromAt
<1>4. CASE i <= n /\ string[i] \notin Blanks
  <2>1. s \in PartOf(string) /\ i + Len(s) \in (i + 1)..(n + 1)
    <3>1. i \in 1..Len(string)
      BY <1>1, <1>4
    <3> QED BY <1>4, <3>1, LongestIs
  <2> DEFINE j == i + Len(s)
  <2>2. j \in 1..(n + 1) /\ j > i /\ ~(i > n)
    <3>1. j \in (i + 1)..(n + 1)
      BY <2>1
    <3> HIDE DEF j
    <3> QED BY <1>1, <1>4, <3>1
  <2>3. f[j] \in Seq(PartOf(string)) /\ g[j] = f[j]
    <3> HIDE DEF j
    <3> QED BY <2>2
  <2>4. FromAt(string, f, i) = <<s>> \o f[j] /\ FromAt(string, g, i) = <<s>> \o g[j]
    BY <1>4, <2>2 DEF FromAt
  <2>5. <<s>> \in Seq(PartOf(string))
    <3> HIDE DEF s
    <3> QED BY <2>1
  <2>6. <<s>> \o f[j] \in Seq(PartOf(string))
    <3> HIDE DEF s, j
    <3> QED BY <2>3, <2>5, ConcatProperties
  <2> HIDE DEF s, j
  <2> QED BY <2>3, <2>4, <2>6
<1> QED BY <1>1, <1>2, <1>3, <1>4

LEMMA FromUnfolds ==
  ASSUME NEW string \in Seq(Characters)
  PROVE  /\ From(string) \in [1..(Len(string) + 1) -> Seq(PartOf(string))]
         /\ \A i \in 1..(Len(string) + 1) : From(string)[i] = FromAt(string, From(string), i)
<1> DEFINE n == Len(string)
           D == Seq(PartOf(string))
           Upto(f, r) == /\ f \in [1..(n + 1) -> D]
                         /\ \A i \in 1..(n + 1) : i > n - r => f[i] = FromAt(string, f, i)
           Stuck == {r \in Nat : ~\E f : Upto(f, r)}
<1>1. n \in Nat
  OBVIOUS
<1>2. ASSUME NEW r \in Nat, NEW f, Upto(f, r) PROVE \E g : Upto(g, r + 1)
  <2> DEFINE m == n - r
             g == [f EXCEPT ![m] = FromAt(string, f, m)]
  <2>1. m \in Int /\ n - (r + 1) = m - 1
    BY <1>1
  <2>2. f \in [1..(n + 1) -> D] /\ \A i \in 1..(n + 1) : i > m => f[i] = FromAt(string, f, i)
    BY <1>2
  <2> HIDE DEF m, n, Upto, D
  <2>3. \A i \in 1..(n + 1) : g[i] = IF i = m THEN FromAt(string, f, m) ELSE f[i]
    BY <2>2
  <2>4. g \in [1..(n + 1) -> D]
    <3>1. m \in 1..(n + 1) => FromAt(string, f, m) \in D
      BY <2>2, FromAtLater DEF D, n
    <3> QED BY <2>2, <3>1
  <2>5. ASSUME NEW i \in 1..(n + 1), i > m - 1 PROVE g[i] = FromAt(string, g, i)
    <3>1. \A j \in 1..(n + 1) : j > i => g[j] = f[j]
      <4>1. \A j \in 1..(n + 1) : j > i => j # m
        BY <1>1, <2>1, <2>5
      <4> QED BY <2>3, <4>1
    <3>2. FromAt(string, g, i) = FromAt(string, f, i)
      <4> HIDE DEF g
      <4> QED BY <2>2, <3>1, FromAtLater DEF D, n
    <3>3. g[i] = FromAt(string, f, i)
      <4>1. i # m => i > m
        BY <1>1, <2>1, <2>5
      <4> HIDE DEF g
      <4> QED BY <2>2, <2>3, <4>1
    <3> QED BY <3>2, <3>3
  <2> HIDE DEF g
  <2>6. Upto(g, r + 1)
    BY <2>1, <2>4, <2>5 DEF Upto
  <2> QED BY <2>6
<1>3. \E f : Upto(f, 0)
  <2> DEFINE f == [i \in 1..(n + 1) |-> << >>]
  <2>1. f \in [1..(n + 1) -> D]
    OBVIOUS
  <2>2. \A i \in 1..(n + 1) : i > n - 0 => f[i] = FromAt(string, f, i)
    BY <1>1 DEF FromAt
  <2> HIDE DEF f
  <2>3. Upto(f, 0)
    BY <2>1, <2>2
  <2> QED BY <2>3
<1>4. Stuck = {}
  <2> SUFFICES ASSUME Stuck # {} PROVE FALSE
    OBVIOUS
  <2>1. PICK r \in Stuck : \A s \in Stuck : r <= s
    <3>1. Stuck \in SUBSET Nat
      OBVIOUS
    <3> HIDE DEF Stuck
    <3> QED BY <3>1, LeastNat
  <2>2. r \in Nat /\ ~\E f : Upto(f, r)
    OBVIOUS
  <2> HIDE DEF Upto
  <2>3. r # 0
    BY <1>3, <2>2
  <2>4. r - 1 \in Nat /\ ~(r <= r - 1) /\ (r - 1) + 1 = r
    BY <2>2, <2>3
  <2>5. r - 1 \notin Stuck
    <3> HIDE DEF Stuck
    <3> QED BY <2>1, <2>4
  <2>6. \E f : Upto(f, r - 1)
    BY <2>4, <2>5
  <2>7. \E g : Upto(g, (r - 1) + 1)
    BY <1>2, <2>4, <2>6
  <2> QED BY <2>2, <2>4, <2>7
<1>5. PICK f : Upto(f, n + 1)
  <2>1. n + 1 \notin Stuck /\ n + 1 \in Nat
    <3> HIDE DEF Stuck
    <3> QED BY <1>1, <1>4
  <2> HIDE DEF Upto, n
  <2> QED BY <2>1
<1>6. /\ f \in [1..(n + 1) -> D]
      /\ \A i \in 1..(n + 1) : f[i] = FromAt(string, f, i)
  <2>1. \A i \in 1..(n + 1) : i > n - (n + 1)
    BY <1>1
  <2>2. /\ f \in [1..(n + 1) -> D]
        /\ \A i \in 1..(n + 1) : i > n - (n + 1) => f[i] = FromAt(string, f, i)
    BY <1>5
  <2> HIDE DEF n, D
  <2> QED BY <2>1, <2>2
<1>7. f = [i \in 1..(n + 1) |-> FromAt(string, f, i)]
  <2> HIDE DEF n, D
  <2> QED BY <1>6
<1> DEFINE Is(h) == h = [i \in 1..(n + 1) |-> FromAt(string, h, i)]
<1>8. Is(CHOOSE h : Is(h))
  <2>1. Is(f)
    BY <1>7
  <2> HIDE DEF Is
  <2> QED BY <2>1
<1>9. From(string) = [i \in 1..(n + 1) |-> FromAt(string, From(string), i)]
  BY <1>8 DEF From
\* The solution has a type since it is the only one.
<1> DEFINE h == From(string)
           Off == {r \in Nat : \E i \in 1..(n + 1) : i = n + 1 - r /\ h[i] # f[i]}
<1>10. \A i \in 1..(n + 1) : h[i] = FromAt(string, h, i)
  <2> HIDE DEF n
  <2> QED BY <1>9
<1>11. Off = {}
  <2> SUFFICES ASSUME Off # {} PROVE FALSE
    OBVIOUS
  <2>1. PICK r \in Off : \A s \in Off : r <= s
    <3>1. Off \in SUBSET Nat
      OBVIOUS
    <3> HIDE DEF Off
    <3> QED BY <3>1, LeastNat
  <2>2. PICK i \in 1..(n + 1) : i = n + 1 - r /\ h[i] # f[i]
    OBVIOUS
  <2>3. ASSUME NEW j \in 1..(n + 1), j > i, h[j] # f[j] PROVE FALSE
    <3>1. n + 1 - j \in Nat /\ j = n + 1 - (n + 1 - j) /\ ~(r <= n + 1 - j)
      <4>1. r \in Nat
        OBVIOUS
      <4> HIDE DEF n, Off
      <4> QED BY <1>1, <2>2, <2>3, <4>1
    <3>2. n + 1 - j \in Off
      <4> HIDE DEF h, n
      <4> QED BY <2>3, <3>1
    <3> HIDE DEF Off
    <3> QED BY <2>1, <3>1, <3>2
  <2>4. FromAt(string, h, i) = FromAt(string, f, i)
    <3>1. \A j \in 1..(n + 1) : j > i => h[j] = f[j]
      BY <2>3
    <3> HIDE DEF h
    <3> QED BY <1>6, <3>1, FromAtLater
  <2> QED BY <1>6, <1>10, <2>2, <2>4
<1>12. h = f
  <2>1. \A i \in 1..(n + 1) : h[i] = f[i]
    <3>1. ASSUME NEW i \in 1..(n + 1), h[i] # f[i] PROVE FALSE
      <4>1. n + 1 - i \in Nat /\ i = n + 1 - (n + 1 - i)
        <5> HIDE DEF n
        <5> QED BY <1>1
      <4>2. n + 1 - i \in Off
        <5> HIDE DEF h, n
        <5> QED BY <3>1, <4>1
      <4> HIDE DEF Off
      <4> QED BY <1>11, <4>2
    <3> QED BY <3>1
  <2>2. h = [i \in 1..(n + 1) |-> h[i]]
    BY <1>9
  <2>3. f = [i \in 1..(n + 1) |-> f[i]]
    BY <1>6
  <2> HIDE DEF h, n
  <2> QED BY <2>1, <2>2, <2>3
<1> HIDE DEF h
<1> QED BY <1>6, <1>10, <1>12 DEF h

\* The segments of a text stand in it; one that is a segment has no other.
LEMMA SegmentsType ==
  ASSUME NEW string \in Seq(Characters)
  PROVE  Segments(string) \in Seq(PartOf(string))
<1>1. 1 \in 1..(Len(string) + 1)
  OBVIOUS
<1> QED BY <1>1, FromUnfolds, SegmentsIs

LEMMA SegmentsWhole ==
  ASSUME NEW string \in Seq(Characters), string # << >>, IsSegment(string)
  PROVE  Segments(string) = <<string>>
<1> DEFINE n == Len(string)
<1>1. n \in Nat \ {0} /\ Longest(string, 1) = string /\ string[1] \notin Blanks
  BY EmptySeq, LongestWhole
<1>2. /\ From(string)[1] = FromAt(string, From(string), 1)
      /\ From(string)[n + 1] = FromAt(string, From(string), n + 1)
  <2>1. 1 \in 1..(n + 1) /\ n + 1 \in 1..(n + 1)
    BY <1>1
  <2> QED BY <2>1, FromUnfolds
<1>3. From(string)[n + 1] = << >>
  <2>1. n + 1 > n
    BY <1>1
  <2> QED BY <1>2, <2>1 DEF FromAt
<1>4. From(string)[1] = <<string>> \o From(string)[1 + n]
  <2>1. ~(1 > n)
    BY <1>1
  <2> QED BY <1>1, <1>2, <2>1 DEF FromAt
<1>5. 1 + n = n + 1
  BY <1>1
<1>6. <<string>> \o << >> = <<string>>
  <2>1. <<string>> \in Seq({string})
    OBVIOUS
  <2> QED BY <2>1, ConcatEmptySeq
<1> QED BY <1>3, <1>4, <1>5, <1>6, SegmentsIs

-----------------------------------------------------------------------------
\* Terms and scores.

\* The characters of a text in which pronouns are alike.
Symbols == Characters \cup {"pronoun"}

Folded(s) == [i \in DOMAIN s |-> IF s[i] \in Pronouns THEN "pronoun" ELSE s[i]]

LEMMA FoldedIs ==
  ASSUME NEW s \in Seq(Characters)
  PROVE  Folded(s) \in Seq(Symbols) /\ Len(Folded(s)) = Len(s)
<1>1. s \in [1..Len(s) -> Characters] /\ Len(s) \in Nat /\ DOMAIN s = 1..Len(s)
  BY LenProperties
<1>2. Folded(s) \in [1..Len(s) -> Symbols]
  BY <1>1 DEF Folded, Symbols
<1> QED BY <1>1, <1>2

LEMMA FoldedIncludes ==
  ASSUME NEW string \in Seq(Characters), NEW part \in Seq(Characters), Includes(string, part)
  PROVE  Includes(Folded(string), Folded(part))
<1>1. PICK i : Stands(string, part, i)
  BY IncludesIs
<1>2. /\ Folded(string) \in Seq(Symbols) /\ Len(Folded(string)) = Len(string)
      /\ Folded(part) \in Seq(Symbols) /\ Len(Folded(part)) = Len(part)
  BY FoldedIs
<1>3. \A k \in 1..Len(part) : Folded(string)[i + k] = Folded(part)[k]
  <2>1. \A k \in 1..Len(part) : i + k \in DOMAIN string /\ k \in DOMAIN part /\ string[i + k] = part[k]
    BY <1>1 DEF Stands
  <2> QED BY <2>1 DEF Folded
<1>4. Stands(Folded(string), Folded(part), i)
  BY <1>1, <1>2, <1>3 DEF Stands
<1> QED BY <1>2, <1>4, IncludesIs

Pronounced(t) == ToSet(t) \cap Pronouns # {}

\* What folding makes the same is the same unless pronouns stand on both sides.
LEMMA FoldedReflects ==
  ASSUME NEW string \in Seq(Characters), NEW part \in Seq(Characters),
         Includes(Folded(string), Folded(part)), ~Pronounced(string) \/ ~Pronounced(part)
  PROVE  Includes(string, part)
<1>1. /\ Folded(string) \in Seq(Symbols) /\ Len(Folded(string)) = Len(string)
      /\ Folded(part) \in Seq(Symbols) /\ Len(Folded(part)) = Len(part)
  BY FoldedIs
<1>2. PICK i : Stands(Folded(string), Folded(part), i)
  BY <1>1, IncludesIs
<1>3. ASSUME NEW k \in 1..Len(part) PROVE string[i + k] = part[k]
  <2>1. i + k \in DOMAIN string /\ k \in DOMAIN part /\ i + k \in 1..Len(string)
    BY <1>1, <1>2 DEF Stands
  <2>2. Folded(string)[i + k] = Folded(part)[k]
    BY <1>1, <1>2 DEF Stands
  <2>3. string[i + k] \in Characters /\ part[k] \in Characters
    BY <2>1
  <2>4. "pronoun" \notin Characters
    BY TextAssumption DEF Characters
  <2>5. string[i + k] \in ToSet(string) /\ part[k] \in ToSet(part)
    BY <2>1 DEF ToSet
  <2>6. string[i + k] \notin Pronouns \/ part[k] \notin Pronouns
    BY <2>5 DEF Pronounced
  <2> QED BY <2>1, <2>2, <2>3, <2>4, <2>6 DEF Folded
<1>4. Stands(string, part, i)
  BY <1>1, <1>2, <1>3 DEF Stands
<1> QED BY <1>4, IncludesIs

LEMMA PartsPronounced ==
  ASSUME NEW string \in Seq(Characters), NEW part \in Seq(Characters),
         Includes(string, part), Pronounced(part)
  PROVE  Pronounced(string)
<1>1. PICK i : Stands(string, part, i)
  BY IncludesIs
<1>2. PICK k \in 1..Len(part) : part[k] \in Pronouns
  BY DEF Pronounced, ToSet
<1>3. i + k \in DOMAIN string /\ string[i + k] = part[k]
  BY <1>1 DEF Stands
<1> QED BY <1>2, <1>3 DEF Pronounced, ToSet

\* The CJK segments of a text, pronouns alike.
CjkPart(string) == {s \in ToSet(Segments(string)) : IsCjk(s)}

LEMMA CjkSegmentsAre ==
  ASSUME NEW string
  PROVE  CjkSegments(string) = {Folded(s) : s \in CjkPart(string)}
BY DEF CjkSegments, CjkPart, Folded

LEMMA SegmentIs ==
  ASSUME NEW string \in Seq(Characters), NEW s \in ToSet(Segments(string))
  PROVE  /\ s \in Seq(Characters) /\ s # << >> /\ Len(s) \in Nat \ {0}
         /\ IsSegment(s) /\ Includes(string, s)
<1>1. s \in PartOf(string)
  BY SegmentsType DEF ToSet
<1>2. s \in Seq(Characters) /\ s # << >>
  BY <1>1 DEF PartOf
<1> QED BY <1>1, <1>2, EmptySeq DEF PartOf

LEMMA WindowsAre ==
  ASSUME NEW X, NEW s \in Seq(X), NEW n \in Nat \ {0}, Len(s) >= n
  PROVE  /\ IsFiniteSet(Windows(s, n)) /\ Windows(s, n) # {}
         /\ \A w \in Windows(s, n) : w \in Seq(X) /\ Len(w) = n /\ Includes(s, w)
<1> DEFINE m == Len(s) - n + 1
           cut == [i \in 1..m |-> SubSeq(s, i, i + n - 1)]
<1>1. m \in Nat \ {0} /\ Windows(s, n) = {cut[i] : i \in 1..m}
  BY DEF Windows
<1>2. IsFiniteSet(1..m)
  BY <1>1, FS_Interval
<1>3. cut \in Surjection(1..m, {cut[i] : i \in 1..m})
  BY DEF Surjection
<1>4. IsFiniteSet(Windows(s, n))
  <2> HIDE DEF cut, m
  <2> QED BY <1>1, <1>2, <1>3, FS_Surjection
<1>5. ASSUME NEW i \in 1..m
      PROVE  cut[i] \in Seq(X) /\ Len(cut[i]) = n /\ Includes(s, cut[i])
  <2> DEFINE j == i + n - 1
  <2>1. i \in 1..Len(s) /\ j \in i..Len(s) /\ j - i + 1 = n
    OBVIOUS
  <2>2. cut[i] = SubSeq(s, i, j)
    OBVIOUS
  <2> HIDE DEF cut, j, m
  <2> QED BY <2>1, <2>2, CutIs
<1>6. 1 \in 1..m
  BY <1>1
<1> HIDE DEF cut, m
<1> QED BY <1>1, <1>4, <1>5, <1>6

\* cjkPhraseScore.
Found(part, contents) == \E c \in contents : Includes(c, part)

SomeFound(s, contents) ==
  \/ Len(s) = 2 /\ Found(s, contents)
  \/ Len(s) >= 3 /\ \E w \in Windows(s, 3) : Found(w, contents)

AllFound(s, contents) ==
  /\ Len(s) >= 2
  /\ Len(s) = 2 => Found(s, contents)
  /\ Len(s) >= 3 => \A w \in Windows(s, 3) : Found(w, contents)

LEMMA PhraseIs ==
  ASSUME NEW X, NEW s \in Seq(X), NEW contents
  PROVE  /\ PhraseScore(s, contents) \in 0..6
         /\ PhraseScore(s, contents) > 0 => SomeFound(s, contents)
         /\ AllFound(s, contents) => PhraseScore(s, contents) = 6
<1> DEFINE all == Windows(s, 3)
           hit == {w \in all : Found(w, contents)}
           m   == Cardinality(hit)
           n   == Cardinality(all)
           p   == PhraseScore(s, contents)
           l   == Len(s)
<1>1. l \in Nat
  OBVIOUS
<1>2. CASE l < 2
  <2>1. p = 0
    BY <1>1, <1>2 DEF PhraseScore
  <2>2. ~AllFound(s, contents)
    BY <1>1, <1>2 DEF AllFound
  <2> HIDE DEF p
  <2> QED BY <2>1, <2>2 DEF p
<1>3. CASE l = 2
  <2>1. p = IF Found(s, contents) THEN 6 ELSE 0
    BY <1>1, <1>3 DEF PhraseScore, Found
  <2>2. /\ Found(s, contents) => SomeFound(s, contents)
        /\ AllFound(s, contents) => Found(s, contents)
    BY <1>3 DEF SomeFound, AllFound
  <2> HIDE DEF p
  <2> QED BY <2>1, <2>2 DEF p
<1>4. CASE l >= 3
  <2>0. ~(l < 2) /\ l # 2 /\ l >= 2
    <3> HIDE DEF l
    <3> QED BY <1>1, <1>4
  <2>1. p = Smaller((6 * m) \div Smaller(n, 3), 6)
    BY <2>0 DEF PhraseScore, Found
  <2>2. IsFiniteSet(all) /\ all # {}
    BY <1>4, WindowsAre
  <2>3. n \in Nat /\ n # 0 /\ m \in Nat /\ m <= n /\ (m = 0 <=> hit = {}) /\ (hit = all => m = n)
    <3> HIDE DEF all
    <3>1. n \in Nat /\ n # 0
      BY <2>2, FS_CardinalityType, FS_EmptySet
    <3>2. hit \in SUBSET all
      OBVIOUS
    <3>3. IsFiniteSet(hit) /\ m <= n
      <4> HIDE DEF hit
      <4> QED BY <2>2, <3>2, FS_Subset
    <3>4. m \in Nat /\ (m = 0 <=> hit = {})
      <4> HIDE DEF hit
      <4> QED BY <3>3, FS_CardinalityType, FS_EmptySet
    <3> QED BY <3>1, <3>3, <3>4
  <2>4. hit # {} => SomeFound(s, contents)
    BY <1>4 DEF SomeFound
  <2>5. AllFound(s, contents) => hit = all
    BY <1>4 DEF AllFound
  <2> DEFINE d == Smaller(n, 3)
             q == (6 * m) \div d
  <2> HIDE DEF n, m, hit, p
  <2>6. d \in 1..3 /\ d <= n /\ (n <= 3 => d = n) /\ (n > 3 => d = 3)
    BY <2>3 DEF Smaller
  <2>7. p = Smaller(q, 6)
    BY <2>1
  <2> HIDE DEF d
  <2>8. q \in Nat /\ (m = 0 => q = 0) /\ (m = n => q >= 6)
    <3>1. CASE d = 1
      BY <2>3, <2>6, <3>1
    <3>2. CASE d = 2
      BY <2>3, <2>6, <3>2
    <3>3. CASE d = 3
      BY <2>3, <2>6, <3>3
    <3> QED BY <2>6, <3>1, <3>2, <3>3
  <2> HIDE DEF q
  <2>9. p \in 0..6 /\ (p > 0 => m # 0) /\ (m = n => p = 6)
    BY <2>7, <2>8 DEF Smaller
  <2> HIDE DEF all
  <2> QED BY <2>3, <2>4, <2>5, <2>9 DEF p
<1>5. l < 2 \/ l = 2 \/ l >= 3
  <2> HIDE DEF l
  <2> QED BY <1>1
<1> QED BY <1>2, <1>3, <1>4, <1>5

\* lexicalScore: the part of the words, and the parts of the phrases.
TermPlaces(query) == {i \in DOMAIN Segments(query) : ~IsCjk(Segments(query)[i])}

TermHits(query, content) ==
  {i \in TermPlaces(query) : Includes(content, Segments(query)[i])}

WordScore(query, content) ==
  IF Cardinality(TermHits(query, content)) = 0 THEN 0
  ELSE (6 * Cardinality(TermHits(query, content))) \div Smaller(Cardinality(TermPlaces(query)), 2)

PhraseScores(query, content) ==
  {PhraseScore(s, CjkSegments(content)) : s \in CjkSegments(query)}

LEMMA ScoreIs ==
  ASSUME NEW query, NEW content
  PROVE  LexicalScore(query, content) =
           Largest(PhraseScores(query, content) \cup {WordScore(query, content)})
BY DEF LexicalScore, PhraseScores, WordScore, TermHits, TermPlaces

LEMMA WordScoreIs ==
  ASSUME NEW query \in Seq(Characters), NEW content
  PROVE  /\ WordScore(query, content) \in Nat
         /\ WordScore(query, content) > 0 <=> TermHits(query, content) # {}
         /\ TermHits(query, content) # {} /\ Len(Segments(query)) = 1 =>
              WordScore(query, content) >= 6
<1> DEFINE places == TermPlaces(query)
           hits   == TermHits(query, content)
           k == Cardinality(places)
           m == Cardinality(hits)
           n == Len(Segments(query))
           w == WordScore(query, content)
<1>1. n \in Nat /\ DOMAIN Segments(query) = 1..n
  BY SegmentsType, LenProperties
<1>2. places \in SUBSET (1..n) /\ hits \in SUBSET places
  BY <1>1 DEF TermPlaces, TermHits
<1> HIDE DEF places, hits
<1>3. IsFiniteSet(1..n) /\ Cardinality(1..n) = n
  <2> HIDE DEF n
  <2>1. IsFiniteSet(1..n) /\ Cardinality(1..n) = IF 1 > n THEN 0 ELSE n - 1 + 1
    BY <1>1, FS_Interval
  <2> QED BY <1>1, <2>1
<1>4. IsFiniteSet(places) /\ k <= n
  <2> HIDE DEF n
  <2> QED BY <1>2, <1>3, FS_Subset
<1>5. IsFiniteSet(hits) /\ m <= k
  BY <1>2, <1>4, FS_Subset
<1>6. k \in Nat /\ m \in Nat /\ (m = 0 <=> hits = {})
  BY <1>4, <1>5, FS_CardinalityType, FS_EmptySet
<1>7. w = IF m = 0 THEN 0 ELSE (6 * m) \div Smaller(k, 2)
  BY DEF WordScore, places, hits
<1> HIDE DEF n, k, m, w
<1>8. CASE m = 0
  BY <1>6, <1>7, <1>8 DEF w, hits
<1>9. CASE m # 0
  <2>1. CASE k = 1
    <3>1. m = 1 /\ Smaller(k, 2) = 1
      BY <1>5, <1>6, <1>9, <2>1 DEF Smaller
    <3>2. w = 6
      BY <1>7, <3>1
    <3> QED BY <1>6, <1>9, <3>2 DEF w, hits
  <2>2. CASE k # 1
    <3>1. k > 1 /\ Smaller(k, 2) = 2
      BY <1>5, <1>6, <1>9, <2>2 DEF Smaller
    <3>2. w = (6 * m) \div 2
      BY <1>7, <1>9, <3>1
    <3>3. w \in Nat /\ w >= 3
      BY <1>6, <1>9, <3>2
    <3>4. n # 1
      BY <1>1, <1>4, <1>6, <3>1
    <3> QED BY <1>6, <1>9, <3>3, <3>4 DEF w, hits, n
  <2> QED BY <2>1, <2>2
<1> QED BY <1>8, <1>9

LEMMA CjkSegmentIs ==
  ASSUME NEW string \in Seq(Characters), NEW f \in CjkSegments(string)
  PROVE  /\ f \in Seq(Symbols)
         /\ \E s \in CjkPart(string) : f = Folded(s) /\ Len(f) = Len(s)
<1>1. PICK s \in CjkPart(string) : f = Folded(s)
  BY CjkSegmentsAre
<1>2. s \in ToSet(Segments(string))
  BY DEF CjkPart
<1>3. s \in Seq(Characters)
  BY <1>2, SegmentIs
<1> QED BY <1>1, <1>3, FoldedIs

LEMMA ScoreBest ==
  ASSUME NEW query \in Seq(Characters), NEW content
  PROVE  /\ LexicalScore(query, content) \in Nat
         /\ LexicalScore(query, content) \in
              PhraseScores(query, content) \cup {WordScore(query, content)}
         /\ LexicalScore(query, content) >= WordScore(query, content)
         /\ \A x \in PhraseScores(query, content) : LexicalScore(query, content) >= x
<1> DEFINE w == WordScore(query, content)
           T == PhraseScores(query, content) \cup {w}
<1>1. w \in Nat
  BY WordScoreIs
<1>2. \A x \in PhraseScores(query, content) : x \in 0..6
  <2>1. ASSUME NEW f \in CjkSegments(query)
        PROVE  PhraseScore(f, CjkSegments(content)) \in 0..6
    BY CjkSegmentIs, PhraseIs
  <2> QED BY <2>1 DEF PhraseScores
<1>3. T \in SUBSET Nat /\ T # {} /\ w + 6 \in Nat /\ \A t \in T : t <= w + 6
  <2> HIDE DEF w
  <2> QED BY <1>1, <1>2
<1>4. Largest(T) \in T /\ \A t \in T : Largest(T) >= t
  <2> HIDE DEF T, w
  <2> QED BY <1>3, LargestIs
<1>5. LexicalScore(query, content) = Largest(T)
  BY ScoreIs
<1> QED BY <1>3, <1>4, <1>5

-----------------------------------------------------------------------------
\* What is written is found.

Searched(s, content) ==
  ~IsCjk(s) \/ (Len(s) > 1 /\ \E c \in ToSet(Segments(content)) : IsCjk(c) /\ Includes(c, s))

LEMMA SearchedScores ==
  ASSUME NEW query \in Seq(Characters), NEW content \in Seq(Characters),
         NEW s \in ToSet(Segments(query)), Includes(content, s), Searched(s, content)
  PROVE  /\ LexicalScore(query, content) > 0
         /\ Len(Segments(query)) = 1 => LexicalScore(query, content) >= 6
<1> DEFINE score == LexicalScore(query, content)
           w == WordScore(query, content)
<1>1. score \in Nat /\ score >= w /\ \A x \in PhraseScores(query, content) : score >= x
  BY ScoreBest
<1>2. CASE ~IsCjk(s)
  <2>1. TermHits(query, content) # {}
    <3>1. PICK i \in DOMAIN Segments(query) : s = Segments(query)[i]
      BY DEF ToSet
    <3> QED BY <1>2, <3>1 DEF TermHits, TermPlaces
  <2>2. w \in Nat /\ w > 0 /\ (Len(Segments(query)) = 1 => w >= 6)
    BY <2>1, WordScoreIs
  <2> HIDE DEF w, score
  <2>3. score > 0 /\ (w >= 6 => score >= 6)
    BY <1>1, <2>2
  <2> QED BY <2>2, <2>3 DEF score
<1>3. CASE IsCjk(s)
  <2>1. s \in Seq(Characters) /\ Len(s) \in Nat
    BY SegmentIs
  <2>2. Len(s) > 1 /\ \E c \in ToSet(Segments(content)) : IsCjk(c) /\ Includes(c, s)
    BY <1>3 DEF Searched
  <2>3. PICK c \in ToSet(Segments(content)) : IsCjk(c) /\ Includes(c, s)
    BY <2>2
  <2> DEFINE f == Folded(s)
             d == Folded(c)
             contents == CjkSegments(content)
  <2>4. /\ f \in CjkSegments(query) /\ d \in contents
    BY <1>3, <2>3, CjkSegmentsAre DEF CjkPart
  <2>5. c \in Seq(Characters)
    BY SegmentIs
  <2>6. /\ f \in Seq(Symbols) /\ Len(f) = Len(s) /\ d \in Seq(Symbols) /\ Includes(d, f)
    BY <2>1, <2>3, <2>5, FoldedIs, FoldedIncludes
  <2> HIDE DEF f, d, contents
  <2>7. Found(f, contents)
    BY <2>4, <2>6 DEF Found
  <2>8. ASSUME Len(f) >= 3, NEW x \in Windows(f, 3) PROVE Found(x, contents)
    <3>1. x \in Seq(Symbols) /\ Includes(f, x)
      BY <2>6, <2>8, WindowsAre
    <3>2. Includes(d, x)
      BY <2>6, <3>1, IncludesMore
    <3> QED BY <2>4, <3>2 DEF Found
  <2>9. AllFound(f, contents)
    BY <2>1, <2>2, <2>6, <2>7, <2>8 DEF AllFound
  <2>10. PhraseScore(f, contents) = 6
    BY <2>6, <2>9, PhraseIs
  <2>11. 6 \in PhraseScores(query, content)
    BY <2>4, <2>10 DEF PhraseScores, contents
  <2>12. score >= 6
    <3> HIDE DEF score
    <3> QED BY <1>1, <2>11
  <2> HIDE DEF score
  <2>13. score > 0 /\ score >= 6
    BY <1>1, <2>12
  <2> QED BY <2>13 DEF score
<1> QED BY <1>2, <1>3

\* The terms of a text: its words, and its CJK segments in pairs.
TermsOf(s) == IF IsCjk(s) /\ Len(s) >= 3 THEN Windows(s, 2) ELSE {s}

LEMMA TermsAre ==
  ASSUME NEW string, NEW t
  PROVE  t \in RetrievalTerms(string) <=> \E s \in ToSet(Segments(string)) : t \in TermsOf(s)
BY DEF RetrievalTerms, TermsOf

LEMMA WindowInner ==
  ASSUME NEW s \in Seq(Characters), Len(s) >= 3, NEW w \in Windows(s, 3)
  PROVE  \E v \in Windows(s, 2) : Includes(w, v)
<1>1. PICK i \in 1..(Len(s) - 3 + 1) : w = SubSeq(s, i, i + 3 - 1)
  BY DEF Windows
<1> DEFINE j == i + 2
           k == i + 1
<1>2. w = SubSeq(s, i, j) /\ i \in 1..Len(s) /\ j \in i..Len(s) /\ k \in i..Len(s)
      /\ j - i + 1 = 3 /\ k - i + 1 = 2
  BY <1>1
<1> DEFINE v == SubSeq(s, i, k)
<1>3. v \in Windows(s, 2)
  <2>1. i \in 1..(Len(s) - 2 + 1) /\ k = i + 2 - 1
    OBVIOUS
  <2> QED BY <2>1 DEF Windows
<1> HIDE DEF j, k
<1>4. /\ w \in Seq(Characters) /\ Len(w) = 3 /\ \A x \in 1..3 : w[x] = s[i + x - 1]
      /\ v \in Seq(Characters) /\ Len(v) = 2 /\ \A x \in 1..2 : v[x] = s[i + x - 1]
  BY <1>2, CutIs
<1> HIDE DEF v
<1>5. Stands(w, v, 0)
  <2>1. \A x \in 1..2 : x \in 1..3 /\ 0 + x = x
    OBVIOUS
  <2> QED BY <1>4, <2>1 DEF Stands
<1> QED BY <1>3, <1>4, <1>5, IncludesIs

LEMMA FoldedWindow ==
  ASSUME NEW s \in Seq(Characters), Len(s) >= 3, NEW x \in Windows(Folded(s), 3)
  PROVE  \E w \in Windows(s, 3) : x = Folded(w)
<1>1. Folded(s) \in Seq(Symbols) /\ Len(Folded(s)) = Len(s)
  BY FoldedIs
<1>2. PICK i \in 1..(Len(s) - 3 + 1) : x = SubSeq(Folded(s), i, i + 3 - 1)
  BY <1>1 DEF Windows
<1> DEFINE j == i + 3 - 1
           w == SubSeq(s, i, j)
<1>3. /\ i \in 1..Len(s) /\ j \in i..Len(s) /\ j - i + 1 = 3 /\ w \in Windows(s, 3)
  BY DEF Windows
<1>4. x = SubSeq(Folded(s), i, j)
  BY <1>2
<1> HIDE DEF j, w
<1>5. /\ x \in Seq(Symbols) /\ Len(x) = 3 /\ \A k \in 1..3 : x[k] = Folded(s)[i + k - 1]
      /\ w \in Seq(Characters) /\ Len(w) = 3 /\ \A k \in 1..3 : w[k] = s[i + k - 1]
  <2>1. /\ SubSeq(Folded(s), i, j) \in Seq(Symbols) /\ Len(SubSeq(Folded(s), i, j)) = j - i + 1
        /\ \A k \in 1..(j - i + 1) : SubSeq(Folded(s), i, j)[k] = Folded(s)[i + k - 1]
    BY <1>1, <1>3, CutIs
  <2>2. /\ SubSeq(s, i, j) \in Seq(Characters) /\ Len(SubSeq(s, i, j)) = j - i + 1
        /\ \A k \in 1..(j - i + 1) : SubSeq(s, i, j)[k] = s[i + k - 1]
    BY <1>3, CutIs
  <2> QED BY <1>3, <1>4, <2>1, <2>2 DEF w
<1>6. Folded(w) \in Seq(Symbols) /\ Len(Folded(w)) = 3
  BY <1>5, FoldedIs
<1>7. ASSUME NEW k \in 1..3 PROVE Folded(w)[k] = x[k]
  <2>1. k \in DOMAIN w /\ i + k - 1 \in DOMAIN s
    BY <1>3, <1>5
  <2>2. w[k] = s[i + k - 1]
    BY <1>5
  <2> QED BY <1>5, <2>1, <2>2 DEF Folded
<1>8. Folded(w) = x
  BY <1>5, <1>6, <1>7, SeqEqual
<1> QED BY <1>3, <1>8

\* A hit has a term to show for it, unless pronouns made it.
LEMMA HitShown ==
  ASSUME NEW query \in Seq(Characters), NEW content \in Seq(Characters),
         LexicalScore(query, content) > 0
  PROVE  \/ MatchedQueryTerms(query, content) # {}
         \/ Pronounced(query) /\ Pronounced(content)
<1> DEFINE contents == CjkSegments(content)
<1>1. SUFFICES ASSUME ~Pronounced(query) \/ ~Pronounced(content)
               PROVE  MatchedQueryTerms(query, content) # {}
  OBVIOUS
<1>2. CASE LexicalScore(query, content) = WordScore(query, content)
  <2>1. TermHits(query, content) # {}
    BY <1>2, WordScoreIs
  <2>2. PICK i \in DOMAIN Segments(query) :
          ~IsCjk(Segments(query)[i]) /\ Includes(content, Segments(query)[i])
    BY <2>1 DEF TermHits, TermPlaces
  <2> DEFINE s == Segments(query)[i]
  <2>3. s \in ToSet(Segments(query)) /\ s \in TermsOf(s)
    BY <2>2 DEF ToSet, TermsOf
  <2>4. s \in RetrievalTerms(query)
    BY <2>3, TermsAre
  <2> QED BY <2>2, <2>4 DEF MatchedQueryTerms
<1>3. CASE LexicalScore(query, content) \in PhraseScores(query, content)
  <2>1. PICK f \in CjkSegments(query) : PhraseScore(f, contents) > 0
    BY <1>3 DEF PhraseScores
  <2>2. f \in Seq(Symbols) /\ \E s \in CjkPart(query) : f = Folded(s) /\ Len(f) = Len(s)
    BY CjkSegmentIs
  <2>3. PICK s \in CjkPart(query) : f = Folded(s) /\ Len(f) = Len(s)
    BY <2>2
  <2>4. s \in ToSet(Segments(query)) /\ IsCjk(s)
    BY DEF CjkPart
  <2>5. s \in Seq(Characters) /\ Includes(query, s) /\ Len(s) \in Nat
    BY <2>4, SegmentIs
  <2>6. SomeFound(f, contents)
    BY <2>1, <2>2, PhraseIs
  \* What is found of the folded segment is found of the segment itself.
  <2>7. ASSUME NEW part \in Seq(Characters), Includes(s, part), Found(Folded(part), contents)
        PROVE  Includes(content, part)
    <3>1. PICK d \in contents : Includes(d, Folded(part))
      BY <2>7 DEF Found
    <3>2. PICK c \in CjkPart(content) : d = Folded(c)
      BY CjkSegmentsAre
    <3>3. c \in ToSet(Segments(content))
      BY DEF CjkPart
    <3>4. c \in Seq(Characters) /\ Includes(content, c)
      BY <3>3, SegmentIs
    <3>5. Includes(query, part)
      BY <2>5, <2>7, IncludesMore
    <3>6. ~Pronounced(c) \/ ~Pronounced(part)
      BY <1>1, <2>5, <3>4, <3>5, PartsPronounced
    <3>7. Includes(c, part)
      BY <3>1, <3>2, <3>4, <3>6, FoldedReflects
    <3> QED BY <3>4, <3>7, IncludesMore
  <2>8. CASE Len(s) = 2
    <3>1. Found(f, contents)
      BY <2>3, <2>6, <2>8 DEF SomeFound
    <3>2. Includes(content, s)
      BY <2>3, <2>5, <2>7, <3>1, IncludesItself
    <3>3. s \in TermsOf(s)
      BY <2>8 DEF TermsOf
    <3>4. s \in RetrievalTerms(query)
      BY <2>4, <3>3, TermsAre
    <3> QED BY <3>2, <3>4 DEF MatchedQueryTerms
  <2>9. CASE Len(s) # 2
    <3>1. Len(s) >= 3 /\ \E x \in Windows(f, 3) : Found(x, contents)
      BY <2>3, <2>6, <2>9 DEF SomeFound
    <3>2. PICK x \in Windows(f, 3) : Found(x, contents)
      BY <3>1
    <3>3. PICK w \in Windows(s, 3) : x = Folded(w)
      BY <2>3, <2>5, <3>1, FoldedWindow
    <3>4. w \in Seq(Characters) /\ Includes(s, w)
      BY <2>5, <3>1, WindowsAre
    <3>5. Includes(content, w)
      BY <2>7, <3>2, <3>3, <3>4
    <3>6. PICK v \in Windows(s, 2) : Includes(w, v)
      BY <2>5, <3>1, WindowInner
    <3>7. v \in Seq(Characters)
      <4>1. Len(s) >= 2
        BY <2>5, <3>1
      <4> QED BY <2>5, <4>1, WindowsAre
    <3>8. Includes(content, v)
      BY <3>4, <3>5, <3>6, <3>7, IncludesMore
    <3>9. v \in TermsOf(s)
      BY <2>4, <3>1 DEF TermsOf
    <3>10. v \in RetrievalTerms(query)
      BY <2>4, <3>9, TermsAre
    <3> QED BY <3>8, <3>10 DEF MatchedQueryTerms
  <2> QED BY <2>8, <2>9
<1> QED BY <1>2, <1>3, ScoreBest

\* The score of a text of CJK characters only is that of its folded form.
LEMMA CjkScore ==
  ASSUME NEW query \in Seq(Characters), query # << >>, IsCjk(query), NEW content
  PROVE  LexicalScore(query, content) = Largest({PhraseScore(Folded(query), CjkSegments(content)), 0})
<1>1. Len(query) \in Nat \ {0}
  BY EmptySeq
<1>2. IsSegment(query)
  <2>1. query[1] \in ToSet(query)
    BY <1>1 DEF ToSet
  <2> QED BY <2>1 DEF IsSegment, IsCjk
<1>3. Segments(query) = <<query>>
  BY <1>2, SegmentsWhole
<1>4. CjkSegments(query) = {Folded(query)}
  <2>1. ToSet(<<query>>) = {query}
    BY DEF ToSet
  <2>2. CjkPart(query) = {query}
    BY <1>3, <2>1 DEF CjkPart
  <2> QED BY <2>2, CjkSegmentsAre
<1>5. WordScore(query, content) = 0
  <2>1. TermPlaces(query) = {}
    BY <1>3 DEF TermPlaces
  <2>2. TermHits(query, content) = {}
    BY <2>1 DEF TermHits
  <2> QED BY <2>2, FS_EmptySet DEF WordScore
<1>6. PhraseScores(query, content) \cup {0} = {PhraseScore(Folded(query), CjkSegments(content)), 0}
  BY <1>4 DEF PhraseScores
<1> QED BY <1>5, <1>6, ScoreIs

With(query, p) == [i \in DOMAIN query |-> IF query[i] \in Pronouns THEN p ELSE query[i]]

LEMMA PronounsAlike ==
  ASSUME NEW query \in Seq(Characters), query # << >>, IsCjk(query),
         NEW content, NEW p \in Pronouns
  PROVE  LexicalScore(With(query, p), content) = LexicalScore(query, content)
<1> DEFINE other == With(query, p)
<1>1. Len(query) \in Nat \ {0} /\ query \in [1..Len(query) -> Characters] /\ DOMAIN query = 1..Len(query)
  BY EmptySeq, LenProperties
<1>2. \A i \in 1..Len(query) : query[i] \in Ideographs
  BY <1>1 DEF IsCjk, ToSet
<1>3. p \in Ideographs /\ p \in Characters
  BY TextAssumption DEF Characters
<1>4. other \in [1..Len(query) -> Characters] /\ \A i \in 1..Len(query) : other[i] \in Ideographs
  BY <1>1, <1>2, <1>3 DEF With
<1>5. other \in Seq(Characters) /\ Len(other) = Len(query) /\ DOMAIN other = 1..Len(query)
  <2> HIDE DEF other
  <2> QED BY <1>1, <1>4
<1>6. other # << >> /\ IsCjk(other)
  <2> HIDE DEF other
  <2>1. other # << >>
    BY <1>1, <1>5
  <2>2. ToSet(other) \subseteq Ideographs
    BY <1>4, <1>5 DEF ToSet
  <2> QED BY <2>1, <2>2 DEF IsCjk
<1>7. Folded(other) = Folded(query)
  <2>1. \A i \in 1..Len(query) :
          (IF other[i] \in Pronouns THEN "pronoun" ELSE other[i])
            = (IF query[i] \in Pronouns THEN "pronoun" ELSE query[i])
    BY <1>1 DEF With
  <2> HIDE DEF other
  <2> QED BY <1>1, <1>5, <2>1 DEF Folded
<1> HIDE DEF other
<1> QED BY <1>5, <1>6, <1>7, CjkScore DEF other

\* What a query finds, in parts.
FindsWritten(query, content) ==
  /\ Includes(content, query) /\ (\E s \in ToSet(Segments(query)) : Searched(s, content))
       => LexicalScore(query, content) > 0
  /\ Includes(content, query) /\ Len(Segments(query)) = 1 /\ Searched(Segments(query)[1], content)
       => LexicalScore(query, content) >= 6

LEMMA WrittenFound ==
  ASSUME NEW query \in Seq(Characters), NEW content \in Seq(Characters)
  PROVE  FindsWritten(query, content)
<1>1. ASSUME Includes(content, query), NEW s \in ToSet(Segments(query)), Searched(s, content)
      PROVE  /\ LexicalScore(query, content) > 0
             /\ Len(Segments(query)) = 1 => LexicalScore(query, content) >= 6
  <2>1. s \in Seq(Characters) /\ Includes(query, s)
    BY SegmentIs
  <2>2. Includes(content, s)
    BY <1>1, <2>1, IncludesMore
  <2> QED BY <1>1, <2>2, SearchedScores
<1>2. Len(Segments(query)) = 1 => Segments(query)[1] \in ToSet(Segments(query))
  <2>1. DOMAIN Segments(query) = 1..Len(Segments(query))
    BY SegmentsType, LenProperties
  <2> QED BY <2>1 DEF ToSet
<1> QED BY <1>1, <1>2 DEF FindsWritten

LEMMA TextsAre ==
  ASSUME NEW n, NEW t \in TextsUpTo(n), n \in Nat
  PROVE  t \in Seq(Characters) /\ t # << >>
<1>1. PICK k \in 1..n : t \in [1..k -> Characters]
  BY DEF TextsUpTo
<1>2. k \in Nat \ {0} /\ t \in Seq(Characters) /\ Len(t) = k
  BY <1>1
<1> QED BY <1>2

\* What a query asks for is found, with the score and the terms it deserves,
\* and whichever pronoun it is put with (lexicalScore, matchedQueryTerms), for
\* texts of any length.
THEOREM SearchFinds == SearchTruthful
<1> SUFFICES ASSUME NEW query \in {q \in TextsUpTo(MaxQuery) : Segments(q) # << >>},
                    NEW content \in TextsUpTo(MaxContent)
             PROVE  /\ FindsWritten(query, content)
                    /\ LexicalScore(query, content) > 0 =>
                         \/ MatchedQueryTerms(query, content) # {}
                         \/ Pronounced(query) /\ Pronounced(content)
                    /\ Pronounced(query) /\ IsCjk(query) =>
                         \A p \in Pronouns :
                           LexicalScore(With(query, p), content) = LexicalScore(query, content)
  BY DEF SearchTruthful, FindsWritten, Searched, Pronounced, With
<1>1. query \in Seq(Characters) /\ query # << >> /\ content \in Seq(Characters)
  BY TextsAre, TextAssumption
<1> QED BY <1>1, WrittenFound, HitShown, PronounsAlike

-----------------------------------------------------------------------------
\* Conflict tasks.

LEMMA TermIs ==
  ASSUME NEW string \in Seq(Characters), NEW t \in RetrievalTerms(string)
  PROVE  /\ t \in Seq(Characters) /\ t # << >> /\ IsSegment(t) /\ Includes(string, t)
         /\ IsCjk(t) => \E c \in ToSet(Segments(string)) : IsCjk(c) /\ Includes(c, t)
<1>1. PICK s \in ToSet(Segments(string)) : t \in TermsOf(s)
  BY TermsAre
<1>2. s \in Seq(Characters) /\ s # << >> /\ IsSegment(s) /\ Includes(string, s) /\ Len(s) \in Nat
  BY SegmentIs
<1>3. CASE IsCjk(s) /\ Len(s) >= 3
  <2>1. t \in Windows(s, 2) /\ Len(s) >= 2
    BY <1>1, <1>2, <1>3 DEF TermsOf
  <2>2. t \in Seq(Characters) /\ Len(t) = 2 /\ Includes(s, t)
    <3>1. \A w \in Windows(s, 2) : w \in Seq(Characters) /\ Len(w) = 2 /\ Includes(s, w)
      <4>1. 2 \in Nat \ {0} /\ Len(s) >= 2 /\ s \in Seq(Characters)
        BY <1>2, <2>1
      <4> QED BY <4>1, WindowsAre
    <3> QED BY <2>1, <3>1
  <2>3. PICK i : Stands(s, t, i)
    BY <1>2, <2>2, IncludesIs
  <2>4. t # << >> /\ DOMAIN t = 1..2
    <3>1. DOMAIN t = 1..Len(t) /\ Len(<< >>) = 0
      BY <2>2, LenProperties, EmptySeq
    <3>2. Len(t) = 2
      BY <2>2
    <3>3. DOMAIN t = 1..2
      BY <3>1, <3>2
    <3>4. ASSUME t = << >> PROVE FALSE
      <4>1. 0 = 2
        BY <3>1, <3>2, <3>4
      <4> QED BY <4>1
    <3> QED BY <3>3, <3>4
  <2>5. \A k \in 1..2 : t[k] \in Ideographs
    <3>1. \A k \in 1..2 : i + k \in DOMAIN s /\ s[i + k] = t[k]
      BY <1>2, <2>2, <2>3 DEF Stands
    <3> QED BY <1>3, <3>1 DEF IsCjk, ToSet
  <2>6. IsCjk(t)
    BY <2>4, <2>5 DEF IsCjk, ToSet
  <2>7. IsSegment(t)
    BY <2>5, <2>6 DEF IsSegment
  <2>8. Includes(string, t)
    BY <1>2, <2>2, IncludesMore
  <2> QED BY <1>3, <2>2, <2>4, <2>7, <2>8
<1>4. CASE ~(IsCjk(s) /\ Len(s) >= 3)
  <2>1. t = s
    BY <1>1, <1>4 DEF TermsOf
  <2> QED BY <1>2, <2>1, IncludesItself
<1> QED BY <1>3, <1>4

\* A text is found by its terms, but for single CJK characters.
LEMMA TermFinds ==
  ASSUME NEW string \in Seq(Characters), NEW t \in RetrievalTerms(string),
         ~(IsCjk(t) /\ Len(t) = 1)
  PROVE  HasLexicalMatch(t, string)
<1>1. /\ t \in Seq(Characters) /\ t # << >> /\ IsSegment(t) /\ Includes(string, t)
      /\ IsCjk(t) => \E c \in ToSet(Segments(string)) : IsCjk(c) /\ Includes(c, t)
  BY TermIs
<1>2. Len(t) \in Nat \ {0}
  BY <1>1, EmptySeq
<1>3. t \in ToSet(Segments(t))
  <2>1. Segments(t) = <<t>>
    BY <1>1, SegmentsWhole
  <2>2. ToSet(<<t>>) = {t}
    BY DEF ToSet
  <2> QED BY <2>1, <2>2
<1>4. Searched(t, string)
  <2>1. ASSUME IsCjk(t) PROVE Len(t) > 1
    <3> DEFINE l == Len(t)
    <3>1. l # 1
      BY <2>1
    <3>2. l \in Nat \ {0}
      BY <1>2
    <3> HIDE DEF l
    <3>3. l > 1
      BY <3>1, <3>2
    <3> QED BY <3>3 DEF l
  <2> QED BY <1>1, <2>1 DEF Searched
<1> QED BY <1>1, <1>3, <1>4, SearchedScores DEF HasLexicalMatch

\* The parts of a text are finitely many.
LEMMA TermsFinite ==
  ASSUME NEW string \in Seq(Characters)
  PROVE  IsFiniteSet(RetrievalTerms(string))
<1> DEFINE n == Len(string)
           cut == [p \in (0..n) \X (0..n) |-> SubSeq(string, p[1] + 1, p[1] + p[2])]
           all == {cut[p] : p \in (0..n) \X (0..n)}
<1>1. n \in Nat
  OBVIOUS
<1>2. IsFiniteSet((0..n) \X (0..n))
  <2>1. IsFiniteSet(0..n)
    <3> HIDE DEF n
    <3> QED BY <1>1, FS_Interval
  <2> HIDE DEF n
  <2> QED BY <2>1, FS_Product
<1>3. IsFiniteSet(all)
  <2>1. cut \in Surjection((0..n) \X (0..n), all)
    BY DEF Surjection
  <2> HIDE DEF cut, all, n
  <2> QED BY <1>2, <2>1, FS_Surjection
<1>4. RetrievalTerms(string) \in SUBSET all
  <2>1. ASSUME NEW t \in RetrievalTerms(string) PROVE t \in all
    <3>1. t \in Seq(Characters) /\ Includes(string, t)
      BY TermIs
    <3>2. Len(t) \in Nat
      BY <3>1
    <3> DEFINE l == Len(t)
    <3>3. PICK i \in 0..(n - l) : SubSeq(string, i + 1, i + l) = t
      BY <3>1 DEF Includes
    <3>4. i \in 0..n /\ l \in 0..n
      <4> HIDE DEF n, l
      <4>1. l \in Nat
        BY <3>2 DEF l
      <4> QED BY <1>1, <4>1
    <3> HIDE DEF n, l
    <3>5. cut[<<i, l>>] = t
      BY <3>3, <3>4
    <3>6. <<i, l>> \in (0..n) \X (0..n)
      BY <3>4
    <3> HIDE DEF cut
    <3> QED BY <3>5, <3>6
  <2> HIDE DEF all
  <2> QED BY <2>1
<1> HIDE DEF all
<1> QED BY <1>3, <1>4, FS_Subset

LEMMA OverlapIs ==
  ASSUME NEW a, NEW b, IsFiniteSet(a), IsFiniteSet(b)
  PROVE  /\ Overlaps(a, b) <=> Overlaps(b, a)
         /\ Overlaps(a, b) => a \cap b # {}
<1> DEFINE k == Cardinality(a)
           m == Cardinality(b)
           c == a \cap b
           l == Cardinality(c)
<1>1. k \in Nat /\ m \in Nat /\ l \in Nat /\ (k = 0 <=> a = {}) /\ (m = 0 <=> b = {}) /\ (l = 0 <=> c = {})
  <2>1. IsFiniteSet(c)
    BY FS_Intersection
  <2> HIDE DEF c
  <2> QED BY <2>1, FS_CardinalityType, FS_EmptySet
<1>2. Smaller(k, m) = Smaller(m, k) /\ (k # 0 /\ m # 0 => Smaller(k, m) >= 1)
  <2> HIDE DEF k, m
  <2> QED BY <1>1 DEF Smaller
<1>3. b \cap a = c
  OBVIOUS
<1>4. Overlaps(a, b) <=> a # {} /\ b # {} /\ 5 * l >= 3 * Smaller(k, m)
  BY DEF Overlaps
<1>5. Overlaps(b, a) <=> a # {} /\ b # {} /\ 5 * l >= 3 * Smaller(m, k)
  BY <1>3 DEF Overlaps
<1>6. ASSUME Overlaps(a, b) PROVE c # {}
  <2>1. 5 * l >= 3 * Smaller(k, m) /\ Smaller(k, m) >= 1
    BY <1>1, <1>2, <1>4, <1>6
  <2>2. Smaller(k, m) \in Nat
    <3> HIDE DEF k, m
    <3> QED BY <1>1 DEF Smaller
  <2> DEFINE d == Smaller(k, m)
  <2> HIDE DEF d, l, c
  <2>3. l # 0
    <3>1. d \in Nat /\ d >= 1 /\ 5 * l >= 3 * d
      BY <2>1, <2>2 DEF d
    <3> QED BY <1>1, <3>1
  <2> QED BY <1>1, <2>3
<1> HIDE DEF k, m, l
<1> QED BY <1>2, <1>4, <1>5, <1>6

LEMMA ClassifyIs ==
  ASSUME NEW left \in Seq(Characters), NEW right \in Seq(Characters)
  PROVE  /\ Classify(left, right) = Classify(right, left)
         /\ Classify(left, right) = "conflict" => RetrievalTerms(left) \cap RetrievalTerms(right) # {}
<1> DEFINE a == RetrievalTerms(left)
           b == RetrievalTerms(right)
           l == Normalized(left)
           r == Normalized(right)
           same == l = r \/ Contained(l, r) \/ Contained(r, l)
<1>1. (Overlaps(a, b) <=> Overlaps(b, a)) /\ (Overlaps(a, b) => a \cap b # {})
  <2>1. IsFiniteSet(a) /\ IsFiniteSet(b)
    BY TermsFinite
  <2> HIDE DEF a, b
  <2> QED BY <2>1, OverlapIs
<1>2. /\ Classify(left, right) = IF same THEN "duplicate" ELSE IF Overlaps(a, b) THEN "conflict" ELSE "none"
      /\ Classify(right, left) = IF same THEN "duplicate" ELSE IF Overlaps(b, a) THEN "conflict" ELSE "none"
  <2>1. r = l \/ Contained(r, l) \/ Contained(l, r) <=> same
    OBVIOUS
  <2> QED BY <2>1 DEF Classify
<1> HIDE DEF same
<1> QED BY <1>1, <1>2

\* The tasks of two assets.
LEMMA PairTasks ==
  ASSUME NEW x, NEW y
  PROVE  Tasks(<<x, y>>) =
           {t \in {[kind |-> Classify(x.text, y.text), assetIds |-> {x.id, y.id}]} : t.kind # "none"}
<1> DEFINE listing == <<x, y>>
           pairs == {p \in (DOMAIN listing) \X (DOMAIN listing) : p[1] < p[2]}
           task(p) == [kind     |-> Classify(listing[p[1]].text, listing[p[2]].text),
                       assetIds |-> {listing[p[1]].id, listing[p[2]].id}]
<1>1. DOMAIN listing = 1..2 /\ listing[1] = x /\ listing[2] = y
  OBVIOUS
<1>2. pairs = {<<1, 2>>}
  BY <1>1
<1>3. task(<<1, 2>>) = [kind |-> Classify(x.text, y.text), assetIds |-> {x.id, y.id}]
  BY <1>1
<1>4. Tasks(listing) = {t \in {task(p) : p \in pairs} : t.kind # "none"}
  BY DEF Tasks
<1> HIDE DEF task, pairs, listing
<1>5. {task(p) : p \in pairs} = {task(<<1, 2>>)}
  BY <1>2
<1> QED BY <1>3, <1>4, <1>5 DEF listing

\* The report on conflicts is the same in any order of the listing, and what
\* it calls a conflict is found together by what both share (listTasks), for
\* texts of any length.
THEOREM TasksTell == TasksTruthful
<1> SUFFICES ASSUME NEW left \in TextsUpTo(MaxQuery), NEW right \in TextsUpTo(MaxQuery)
             PROVE  /\ Tasks(<<[id |-> 1, text |-> left], [id |-> 2, text |-> right]>>)
                         = Tasks(<<[id |-> 2, text |-> right], [id |-> 1, text |-> left]>>)
                    /\ Classify(left, right) = "conflict" =>
                         /\ RetrievalTerms(left) \cap RetrievalTerms(right) # {}
                         /\ \A t \in RetrievalTerms(left) \cap RetrievalTerms(right) :
                              \/ HasLexicalMatch(t, left) /\ HasLexicalMatch(t, right)
                              \/ IsCjk(t) /\ Len(t) = 1
  BY DEF TasksTruthful
<1>1. left \in Seq(Characters) /\ right \in Seq(Characters)
  BY TextsAre, TextAssumption
<1> DEFINE a == [id |-> 1, text |-> left]
           b == [id |-> 2, text |-> right]
<1>2. Tasks(<<a, b>>) = Tasks(<<b, a>>)
  <2>1. /\ Tasks(<<a, b>>) = {t \in {[kind |-> Classify(a.text, b.text), assetIds |-> {a.id, b.id}]} : t.kind # "none"}
        /\ Tasks(<<b, a>>) = {t \in {[kind |-> Classify(b.text, a.text), assetIds |-> {b.id, a.id}]} : t.kind # "none"}
    BY PairTasks
  <2>2. Classify(a.text, b.text) = Classify(b.text, a.text) /\ {a.id, b.id} = {b.id, a.id}
    BY <1>1, ClassifyIs
  <2> HIDE DEF a, b
  <2> QED BY <2>1, <2>2
<1> QED BY <1>1, <1>2, ClassifyIs, TermFinds

\* What an answer matches is what its query asks for, and the conflicts that
\* are reported are those an answer may hold: in every state.
THEOREM AnswersMatch == RecallSpec => []AnswersMatchTheirQuery
<1>1. AnswersMatchTheirQuery
  BY SearchFinds, TasksTell DEF AnswersMatchTheirQuery
<1> QED BY <1>1, PTL

=============================================================================
