--------------------------- MODULE EmbeddingSync ---------------------------
(***************************************************************************)
(* The vector index of one scope and the synchronisations that bring it up *)
(* to date with the recallable assets.                                     *)
(*                                                                         *)
(* A synchronisation reads both lists of recallable assets once, when it   *)
(* starts; then, first for memories and then for skills, it removes the    *)
(* rows of assets that are not on its list, and embeds the texts the index *)
(* does not hold, batch by batch.  Every embedding call is awaited, so     *)
(* reviewers and other synchronisations go on in between; the database     *)
(* calls are synchronous, and what lies between two embedding calls is one *)
(* step.  Every status change starts a synchronisation in its own request  *)
(* (syncVectorsAfterTransition); POST /v1/retrieval/sync starts one too,   *)
(* with drafts on demand.                                                  *)
(*                                                                         *)
(* A text stands for its SHA-256 fingerprint, and a row of asset_embeddings*)
(* for the text it was computed from.  The key of a row is the asset alone:*)
(* the model is fixed and an asset never changes its scope.                *)
(***************************************************************************)
EXTENDS Lifecycle, Integers, FiniteSets

CONSTANTS
  Memories, Skills,  \* asset ids
  Texts,             \* what a search text can be
  NoText,            \* no row in the index, or not on a list
  Syncs,             \* requests that can be synchronising at a time
  BatchSize          \* EmbeddingSyncOptions.batchSize

Assets == Memories \cup Skills

ASSUME SyncAssumption ==
  /\ Memories \cap Skills = {}
  /\ Texts # {} /\ NoText \notin Texts
  /\ BatchSize \in Nat \ {0}

VARIABLES
  status,    \* status of each asset, "absent" before it is proposed
  text,      \* its search text (memorySearchText, skillSearchText)
  expired,   \* memories past their validUntil
  index,     \* table asset_embeddings: the text each row was embedded from
  sync,      \* the synchronisation each request is running
  calm,      \* history: the synchronisations nothing has disturbed so far
  exact,     \* history: what the last undisturbed synchronisation covered
  offered    \* history: the texts each asset was ever on some list with

governed == <<status, text, expired>>
vars == <<governed, index, sync, calm, exact, offered>>

OptText == Texts \cup {NoText}
Nothing == [a \in Assets |-> NoText]

\* kind: the assets being embedded; todo: of these, the texts still to be
\* embedded, and of the skills, while memories are embedded, their list.
Idle == [kind |-> "none", drafts |-> FALSE, todo |-> Nothing]
SyncState == [kind : {"none", "memory", "skill"}, drafts : BOOLEAN,
              todo : [Assets -> OptText]]

TypeOK ==
  /\ status  \in [Assets -> Statuses \cup {"absent"}]
  /\ text    \in [Assets -> Texts]
  /\ expired \subseteq Memories
  /\ index   \in [Assets -> OptText]
  /\ sync    \in [Syncs -> SyncState]
  /\ calm    \subseteq Syncs
  /\ exact   \in {"unknown", "verified", "drafts"}
  /\ offered \in [Assets -> SUBSET Texts]

Init ==
  /\ status  = [a \in Assets |-> "absent"]
  /\ text    = [a \in Assets |-> CHOOSE t \in Texts : TRUE]
  /\ expired = {}
  /\ index   = Nothing
  /\ sync    = [y \in Syncs |-> Idle]
  /\ calm    = {}
  /\ exact   = "unknown"
  /\ offered = [a \in Assets |-> {}]

-----------------------------------------------------------------------------
OfKind(kind) == IF kind = "memory" THEN Memories ELSE Skills
Running(y)   == sync[y].kind # "none"

\* The texts of the kind at hand that are still to be embedded.
Left(y) == {a \in OfKind(sync[y].kind) : sync[y].todo[a] # NoText}

\* Every synchronisation is waiting for the embedding provider: only then do
\* other requests get the event loop.
Waiting == \A y \in Syncs : Running(y) => Left(y) # {}

\* MemoryService.listRecallable and SkillService.listRecallable.
Recallable(drafts) ==
  {a \in Assets : /\ status[a] = "verified" \/ (drafts /\ status[a] = "draft")
                  /\ a \notin expired}

\* What is on the lists, with its text.
Listing(drafts) ==
  [a \in Assets |-> IF a \in Recallable(drafts) THEN text[a] ELSE NoText]

\* Mutant of Cleaned: rows of assets that left the list stay.
CleanedNot(kind, list) == index

\* index.remove: rows of this kind that are not on the list go.
Cleaned(kind, list) ==
  [a \in Assets |-> IF a \in OfKind(kind) /\ list[a] = NoText
                      THEN NoText ELSE index[a]]

\* The fingerprints of this kind strike from the list what is indexed already.
Pending(kind, list) ==
  [a \in Assets |-> IF a \in OfKind(kind) /\ index[a] = list[a]
                      THEN NoText ELSE list[a]]

\* EmbeddingSyncService.sync, up to the first embedding call.  A request runs
\* one synchronisation at a time.
Start(y, drafts) ==
  LET list == Listing(drafts)' IN
  /\ Waiting /\ ~Running(y)
  /\ index'   = Cleaned("memory", list)
  /\ sync'    = [sync EXCEPT ![y] =
       [kind |-> "memory", drafts |-> drafts, todo |-> Pending("memory", list)]]
  /\ calm'    = IF \E z \in Syncs : Running(z) THEN {} ELSE {y}
  /\ exact'   = "unknown"
  /\ offered' = [a \in Assets |-> offered[a] \cup ({list[a]} \ {NoText})]

\* What governance does without a synchronisation.
Silently == /\ Waiting
            /\ calm'  = {}
            /\ exact' = "unknown"
            /\ UNCHANGED <<index, sync, offered>>

\* POST /v1/memories, /v1/skills and the proposal jobs.
Propose(a) ==
  /\ status[a] = "absent"
  /\ status' = [status EXCEPT ![a] = "draft"]
  /\ Silently
  /\ UNCHANGED <<text, expired>>

\* PUT /v1/skills/:id appends a draft version and leaves the index alone.
Rewrite(k, t) ==
  /\ status[k] \in {"draft", "verified", "deprecated"}
  /\ text'   = [text EXCEPT ![k] = t]
  /\ status' = [status EXCEPT ![k] = "draft"]
  /\ Silently
  /\ UNCHANGED expired

\* The clock passes validUntil.
Expire(m) ==
  /\ m \notin expired
  /\ expired' = expired \cup {m}
  /\ Silently
  /\ UNCHANGED <<status, text>>

\* Every route that changes statuses: review, rules, feedback, sweeps and
\* evidence deletion.  One request may move several assets.
Govern(y, moved, target) ==
  /\ moved # {}
  /\ \A a \in moved : status[a] # "absent" /\ CanTransition(status[a], target)
  /\ status' = [a \in Assets |-> IF a \in moved THEN target ELSE status[a]]
  /\ UNCHANGED <<text, expired>>
  /\ Start(y, FALSE)

\* POST /v1/governance/memories/:id/renew.
Renew(y, m) ==
  /\ status[m] \in {"verified", "deprecated"}
  /\ expired' = expired \ {m}
  /\ status'  = [status EXCEPT ![m] = "verified"]
  /\ UNCHANGED text
  /\ Start(y, FALSE)

\* POST /v1/skills/:id/rollback: an earlier content as a new draft.
Rollback(y, k, t) ==
  /\ status[k] \in {"draft", "verified", "deprecated"}
  /\ text'   = [text EXCEPT ![k] = t]
  /\ status' = [status EXCEPT ![k] = "draft"]
  /\ UNCHANGED expired
  /\ Start(y, FALSE)

\* POST /v1/retrieval/sync, and the later rounds of applyAutoVerifyResults.
ManualSync(y, drafts) ==
  /\ UNCHANGED governed
  /\ Start(y, drafts)

-----------------------------------------------------------------------------
\* pending.slice(start, start + batchSize); the order of the list is open.
Batches(y) ==
  {b \in SUBSET Left(y) :
     Cardinality(b) = IF Cardinality(Left(y)) < BatchSize
                        THEN Cardinality(Left(y)) ELSE BatchSize}

\* Mutant of EmbedBatch: the row is written with the text the asset has now.
EmbedBatchReread(y, batch) ==
  /\ Waiting /\ Running(y) /\ batch \in Batches(y)
  /\ index' = [a \in Assets |-> IF a \in batch THEN text[a] ELSE index[a]]
  /\ sync'  = [sync EXCEPT ![y].todo =
                 [a \in Assets |-> IF a \in batch THEN NoText ELSE @[a]]]
  /\ UNCHANGED <<governed, calm, exact, offered>>

\* Mutant of EmbedBatch: a batch that was stored is sent again.
EmbedBatchAgain(y, batch) ==
  /\ Waiting /\ Running(y) /\ batch \in Batches(y)
  /\ index' = [a \in Assets |-> IF a \in batch THEN sync[y].todo[a] ELSE index[a]]
  /\ UNCHANGED <<governed, sync, calm, exact, offered>>

\* The provider answers a batch, and its rows are written in one transaction.
EmbedBatch(y, batch) ==
  /\ Waiting /\ Running(y) /\ batch \in Batches(y)
  /\ index' = [a \in Assets |-> IF a \in batch THEN sync[y].todo[a] ELSE index[a]]
  /\ sync'  = [sync EXCEPT ![y].todo =
                 [a \in Assets |-> IF a \in batch THEN NoText ELSE @[a]]]
  /\ UNCHANGED <<governed, calm, exact, offered>>

\* The provider fails, or answers with the wrong number of vectors: the
\* synchronisation is abandoned, the batches already written stay, and nothing
\* governed changes.
EmbedFails(y) ==
  /\ Waiting /\ Running(y)
  /\ sync' = [sync EXCEPT ![y] = Idle]
  /\ calm' = calm \ {y}
  /\ UNCHANGED <<governed, index, exact, offered>>

\* Memories are done: syncKind of the skills, up to its first embedding call.
NextKind(y) ==
  /\ sync[y].kind = "memory" /\ Left(y) = {}
  /\ index' = Cleaned("skill", sync[y].todo)
  /\ sync'  = [sync EXCEPT ![y].kind = "skill", ![y].todo = Pending("skill", @)]
  /\ UNCHANGED <<governed, calm, exact, offered>>

\* Skills are done: the report is returned.
Finish(y) ==
  /\ sync[y].kind = "skill" /\ Left(y) = {}
  /\ sync'  = [sync EXCEPT ![y] = Idle]
  /\ calm'  = calm \ {y}
  /\ exact' = IF y \notin calm THEN exact
              ELSE IF sync[y].drafts THEN "drafts" ELSE "verified"
  /\ UNCHANGED <<governed, index, offered>>

SyncStep(y) ==
  \/ EmbedFails(y) \/ NextKind(y) \/ Finish(y)
  \/ \E batch \in SUBSET Assets : EmbedBatch(y, batch)

Next ==
  \/ \E a \in Assets : Propose(a)
  \/ \E k \in Skills, t \in Texts : Rewrite(k, t)
  \/ \E m \in Memories : Expire(m)
  \/ \E y \in Syncs :
       \/ \E moved \in SUBSET Assets, target \in Statuses : Govern(y, moved, target)
       \/ \E m \in Memories : Renew(y, m)
       \/ \E k \in Skills, t \in Texts : Rollback(y, k, t)
       \/ \E drafts \in BOOLEAN : ManualSync(y, drafts)
       \/ SyncStep(y)

Spec == Init /\ [][Next]_vars

\* Every embedding call settles, by its answer, its error or its timeout, and
\* the event loop takes up every settled call.  Fairness is strong because the
\* call waits, ready, while other requests have the turn.
FairSpec == Spec /\ \A y \in Syncs : SF_vars(SyncStep(y))

-----------------------------------------------------------------------------
\* After a synchronisation that nothing disturbed, the index holds exactly the
\* recallable assets, each with its current text, whatever failed, overlapped
\* or went stale before (embedding-sync.ts).
UndisturbedSyncIsExact ==
  exact # "unknown" => index = Listing(exact = "drafts")

\* No text reaches the index unless its asset was on a list with that text:
\* a draft rewrite of a published skill stays out, however slow the
\* synchronisation that was under way.
OnlyOfferedIndexed ==
  \A a \in Assets : index[a] # NoText => index[a] \in offered[a]

\* Every synchronisation ends, by its report or by a failure.
SyncsEnd == \A y \in Syncs : Running(y) ~> ~Running(y)

=============================================================================
