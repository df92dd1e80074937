# Memory Skills in TLA+

A model of the governance service under `src/`: what can happen to memories,
skills, their evidence, their vector index and the requests that touch them when
several clients, models, sweeps, crashes and evidence deletions interleave. TLC
checks small instances, TLAPS proves every safety property of the runs for all
of them.
Paths below are relative to the repository (`src/api/...` is `src/src/api/...`
in `PROJECT.json`).

To run something: `tlc -config skills.cfg MCSkills`, `tlapm
SkillVersions_proof.tla`. `PROJECT.json` names the module of every run.

## 1. The system

One Node process serves an HTTP API over one SQLite file (`node:sqlite`,
synchronous). Every part of a handler between two `await`s therefore runs alone,
and every SQL transaction is atomic. What really interleaves is

- handlers at their `await`s: the body of a request, a model call, an embedding
  call of a synchronisation or of a recall;
- clients, between reading an asset and acting on what they read;
- processes: while the database is opened (`runMigrations`; a second server
  opens the file before it finds the port taken), the scripts that copy it or
  replace it, and the MCP adapter and the session hook, which see the service
  only through requests that may be late;
- a crash, between two autocommitted statements of one handler.

| Component | State | Operations | Talks to | Correct when |
| --- | --- | --- | --- | --- |
| Asset lifecycle (`governance/lifecycle.ts`) | none: a transition table | `transitionStatus` | everything that writes a status | nothing leaves `rejected`/`archived` for service; drafts first |
| Evidence and memories (`memory/`, `storage/`) | tables `evidence`, `memories`, `memory_evidence` | capture, propose, status, delete with propagation | gateway, jobs, feedback, sweeps | links join live rows of one scope; a deletion withdraws all it must and nothing else |
| Automatic verification (`governance/auto-verify*`) | none beyond `verifiedBy` | verify new drafts, evaluate the drafts of a scope | memories, evidence, gateway | what rules published stays backed by evidence |
| Feedback (`feedback/`) | feedback records | record, downgrade rule-published memories | memories | a disputed memory that rules published leaves service, and only a person puts it back |
| Retention, renewal, impact (`governance/`) | none | deprecate expired, archive stale drafts, renew, preview a deletion | memories, skills; called by an external cron | drafts do not stay in the queue; the preview is what happens |
| Skills (`skills/`) | `skills`, `skill_versions`, `skill_evidence` | create, update with `expectedVersion`, review, rollback, diff baseline | gateway, deletion, sweep | tables agree, no lost update, history frozen |
| Vector index (`retrieval/embedding-sync.ts`, `vector-index.ts`) | `asset_embeddings` | `sync`: remove, embed, store, batch by batch | embedding provider (awaited), every governed change | an undisturbed synchronisation repairs everything; nothing unlisted is indexed |
| Recall (`context/`, `retrieval/hybrid-retriever.ts`) | query cache, recall log | read memories, rank (await), read skills, rank (await) | index, embedding provider | only what governance allows is returned; lexical hits are not lost |
| Migrations (`storage/migration-runner.ts`) | `schema_migrations`, backups | baseline, backup, apply | file system, other processes | the register is a true prefix; used data is backed up first |
| Model calls (`llm/`) | per call: attempt, timer, signal | `structured()` with retries | provider, caller's signal | errors attributed and retried as classified; every call ends |
| Proposal jobs (`extraction/`) | none between calls | select evidence, ask, filter, store drafts | model calls, memories | drafts rest on evidence that still exists and repeat nothing |
| HTTP gateway (`api/http-server.ts`) | requests under way | authenticate, read, authorise, handle, audit, answer | all services | nothing without right and scope, a request without a scope included; what is answered is recorded |
| Body reader (`api/read-request-body.ts`) | per request: bytes, outcome | data, end, error, close | gateway | settles once; keeps nothing beyond the limit |
| Authentication (`auth/`), rate limiter (`security/rate-limit.ts`) | tokens; windows by key | authenticate; `consume` | gateway | windows are exact, whatever is evicted |
| Audit and events (`observability/`) | a JSONL file | emit, which may throw | gateway | success is never reported without its record |
| Skill diff, parser, validator (`skills/`) | none | split a SKILL.md into sections, compare two, warn | reviewers | the diff tells all that changed, line for line |
| Text matching, budgets (`retrieval/text-match.ts`, `context/`) | none | segments, scores; fusion, ranking, cut to budgets | recall | what is written is found; the answer is the ranking as far as it reaches, and says so |
| Conflict tasks (`governance/conflict-service.ts`) | none | classify pairs of verified assets | recall, by its terms | the same pairs in any order of the listing; conflicts can be recalled together |
| Remote MCP adapter (`adapters/mcp/`) | handlers by caller | authenticate, run a read-only tool, shut down | main service over HTTP | an agent gets what was verified in its own scope; shutdown ends |
| Session hook, review console (`scripts/session-end-capture.mjs`, `review-drafts.mjs`) | a list of drafts, a deadline | capture a digest in parts, ask for a proposal, review | main service; a person; other reviewers | only decisions take effect; proposals rest on the session without gaps; main returns (that they rest on the whole session, and that the process ends, fails: section 6) |
| Backup, restore (`scripts/`) | snapshots, manifests, safety copies | back up, stage, verify, copy, replace | database file and its log, beside the service | what is restored is what was backed up; nothing is lost |
| Web UI, evaluation | clients and offline tools | - | gateway | not modelled (section 7) |

Behaviours that are hard to test here, each with its line, are the `hazards` of
`PROJECT.json`; the properties below were chosen from that list.

## 2. Modules

    Lifecycle            the transition table, no state
      GovernedAssets     what governance promises of any asset (abstract)
      MemoryGovernance   evidence, memories, rules, feedback, sweeps, deletion
        ProposalJobs     + LlmCall: jobs waiting for a model beside governance
      SkillVersions      skills, versions, concurrent authors
        MCSkills         + SkillDiff: sections and diffs of two versions
      EmbeddingSync      the vector index and overlapping synchronisations
        ContextRecall    recalls waiting beside governance and synchronisations
          MCRecall       + RecallBudget: ranking, budgets and warnings
                         + ConflictTasks, over TextMatch: words and scores
      ServedAssets       assets seen from outside: what others may do to them
        McpAdapter       requests to the remote MCP server (MCMcpAdapter)
        SessionHook      the end of a session and the review consoles
          MCSessionHook  + SessionDigest: cutting a session into parts
    LlmCall              retries, timer and cancellation of a model call
    Migrations           processes opening and upgrading one database
    BackupRestore        the two scripts on a database file and its log
    RateLimit            the fixed-window limiter
    RequestBody          the body reader
      Gateway            + both: requests from their head to their answer
        MCGateway        its instance for TLC

`X_proof` holds the theorems about `X`, and those about what is composed with it:
`MemoryGovernance_proof` also covers `LlmCall` and `ProposalJobs`,
`SkillVersions_proof` `SkillDiff`, `ContextRecall_proof` `EmbeddingSync`,
`RecallBudget`, `TextMatch` and `ConflictTasks`, `Gateway_proof` `RequestBody` and `RateLimit`, `Clients_proof`
`McpAdapter`, `SessionHook` and `SessionDigest`. `Induction` has the two lemmas by
which loops over data are proved. A definition called "Mutant of ..." is a
plausible bug in the definition below it; replacing one by the other makes TLC
violate the property it is listed with, which shows that the property depends on
that code.

**Lifecycle** is `ALLOWED_TRANSITIONS` and `transitionStatus`, including the
accepted transition to the status an asset already has.

**GovernedAssets** is the abstract specification: assets are born drafts, rules
publish drafts only, machines alone only take assets away, and what was taken
away comes back by a reviewer or not at all. `MemoryGovernance` implements it
with memories as assets and `verifiedBy` as publisher; `SkillVersions` with every
*version* as an asset, because an update makes a new draft of a published skill.

**MemoryGovernance**: a variable per column that governance reads; `memory` is
the immutable part of a row and `links` the table `memory_evidence`, which
deletion follows and `ON DELETE CASCADE` shortens. Each route or service call is
an action with its whole synchronous part. The rules are `RulesPass`; layer,
confidence and sensitivity of a proposal are one Boolean `fit`, overlap of
contents above the threshold is equality of abstract contents. A sweep commits
row by row, so its action takes the set `done` it got to before it ended or the
process died; `RenewMemory` takes `finished` for the same reason. `captured` and
`disputed` are history variables: the second holds the memories that were called
incorrect or outdated after they had left the draft status, and is never emptied. `ReuseIds` says whether the environment
captures a deleted evidence id again (ids come from clients).

**SkillVersions**: the status of a skill is stored in `skills` and in the row of
its current version; `SetStatus` and `WriteVersion` are the statements that write
both. Clients `Read` a version and later `Update` with it as `expectedVersion`;
`basis` records who wrote on top of what. A content is the description its front
matter declares and the rest. Whether a draft is stale is left open.

**EmbeddingSync**: a text stands for its fingerprint, a row of the index for the
text it was embedded from. A synchronisation reads both lists once (`Start`,
together with the governed change that triggers it: the routes call it in the
same synchronous part), then alternates awaited embedding calls (`EmbedBatch`,
`EmbedFails`) with synchronous clean-up (`Cleaned`). `Waiting` says that other
requests only get the event loop while every synchronisation awaits.

**ContextRecall** adds requests that read memories, await the query embedding,
rank, read skills, await and rank again. `Matches` leaves open which near rows
the index returns (candidate limit, failure of the provider, inactive vector
channel). A lexical score is weighted by the confidence of the memory: a memory of
confidence 0 has none, so its text counts as one that does not match (`Scores`). A
cached query embedding only removes an interleaving.

**LlmCall**: timer and caller abort one internal signal, and the inner call may
still answer or fail in its own way; `Attribution` is how `structured()` decides.
Error kinds are grouped by what the loop distinguishes.

**ProposalJobs** composes `LlmCall` with the actions of `MemoryGovernance` that
change what a job reads. `Drafts` is the loop over the candidates, a recursive
function of how many of the answer it has taken.

**Migrations**: a migration is its id, its change is there or not; the
transactions of baseline, migration and registration are separate actions, and
`Fault` kills or fails a process between any two.

**RateLimit, RequestBody, Gateway**: an HTTP request is `none`, `reading` its
body, `asking` a model, `syncing` the index, or `answered`. What a handler does
between these waits is one action. Every event may throw (`appendFileSync`), and
the exception ends the handler where it stands: a change that was committed
before stays. The services behind a route appear as "refused" or "changed"; their
own behaviour is in the other modules. A request gives a scope of a team, a user
and an agent, or none (`NoScope`: `authorize` checks no boundary then and takes
the quota all the same). `Scoped` is what handlers do with the one, `Unscoped`
with the other: they throw, refuse, or answer a read with nothing. `served` says
that an answer holds what was found in the scope of the request. A key of a login
may have blanks around it (`"padded"`: the quota of failures trims it, the login
does not) or be no text. Simplifications: refusals by services, the 503 of
unconfigured providers among them, are one code; a batch writes one record; a
synchronisation is one wait; body sizes are counted in chunks; 404s are left out;
a scope that is no whole one counts as outside every boundary; a reader is
forgotten once its result is taken.

**ServedAssets** is the service as its clients see it: assets of some scope move
through the lifecycle by hands that are not modelled (`Elsewhere`).

**McpAdapter**: a request is `reading` its body, `calling` the main service,
`answering`, or `answered`. `MainReads` is the moment the main service reads its
tables and `Deliver` the moment its answer is handed on; assets change between
the two. A key `${userId}@${teamId}` is the pair of both, which is faithful as
long as ids contain no `@`. `verified` is a history variable: what the caller was
entitled to at some moment of the request.

**SessionHook**: each request of the hook has a timer, so `CapturePart` and
`AskForProposal` end it, go on, or leave the service to do later what it was
asked. The hook's prompt and `npm run review:drafts` are two `Consoles` with one
loop; `yes` and `no` record what the person decided. `origin` is the evidence the
model read for a draft: of what a job selected, the parts that `renderEvidenceList`
lists (`Rendered`), `Readable` being how many fit. `Return` is the end of `main`;
the process stays as long as a read of the terminal is left (`held`), which the
timer of a prompt leaves behind for certain (`Idle`), an answer perhaps (the
stream reads on), and a typed line ends (`TypeLine`). With `--skills` the second
console lists skills, whose versions are not modelled here. **SessionDigest** is
the cut of a session: of each role the tail that fits its budget, bullets packed
into parts.

**BackupRestore**: a database is a file and its log, a content the set of the
commits in it. Every step of a script is an action, `Abort` and `Killed` fall
between any two. `before` and `settled` remember what there was to lose.

**SkillDiff, RecallBudget, SessionDigest, TextMatch, ConflictTasks** are
operators without state: the functions of the code over all small texts, lists
and scores. A text is a sequence of lines told apart as the code does (a heading,
a step, a blank, other), or of characters by their class. The code's functions
appear as what they compute (the longest match, the place of a hit), loops that
could go wrong at a boundary as recursive functions over the index. Their
properties are stated in the MC modules under the condition that the system has
come to use the result - two versions exist, an answer is given, a hook
captures -, since that is when they matter.

## 3. Runs

All instances are deliberately tiny; the bound is named with the reason why the
interesting cases still occur.

| Run | Distinct states | Shows | Bounds |
| --- | --- | --- | --- |
| `memory_reuse` | 166,476 | `LinksSound`, `DisputedNeedsHuman`, `DeletionInScope`, `ImplementsGovernedAssets`, `DraftsLeaveQueue`: with ids captured again in another scope, links and deletions stay in their scope, what was disputed after its publication is in service only by a person, memories follow the governed lifecycle, and untouched drafts leave the queue | one memory, two evidences, two scopes, clock 0..2, drafts stale after 1: one memory meets every status, is disputed in each, renewed, withdrawn and reviewed again, and an id is captured in either scope before and after deletion |
| `memory_unique` | 212,648 | `AutoVerifiedBacked`, `DeletionWithdraws` (exactly what the preview announced) while ids are not reused | two evidences, contents and sessions, so that one source can carry the rules and the loss of the other can end it; two sessions required |
| `skills` | 378,464 | `CurrentRow`, `BaselineIsLastPublished`, `NoLostUpdate`, `HistoryFrozen`, `DeletionWithdraws`, `ImplementsGovernedAssets`, `ReviewShowsTheChange` | one skill, two clients, three versions, two scopes: one version superseded twice, a rollback past a published version, two authors on one version, evidence of the wrong scope. Diffs: texts of up to 3 lines over 3 titles and 3 other lines, bodies of up to 3, so that titles repeat, move and disappear and a line is common to both sides in either order |
| `vectors` | 91,983 | `UndisturbedSyncIsExact`, `OnlyOfferedIndexed`, `SyncsEnd` | a memory and a skill, two texts, two overlapping synchronisations, batches of one |
| `recall` | 783,027 | `AnswersWereRecallable`, `StableHitsFound`; `AnswersGivenAreTruthful` (budgets), `AnswersMatchTheirQuery` (texts and conflict tasks) | as above with one synchronisation and one recall; one text matches lexically, the other is near. Budgets: up to 3 documents, scores 0..2, lengths 1..2, at most 2 results and 4 characters, headroom 2: each budget is met exactly, missed by one, and never reached. Texts: queries of up to 3 and contents of up to 4 characters over a letter, a CJK character, two pronouns, hyphen and blank; three characters are where windows begin |
| `migrations` | 150,426 | `RegisterSound`, `UpgradesBackedUp`, `UpgradeCompletes` | two processes, the six migrations of the code, the four that `detectBaseline` can tell, every legacy or registered start, two faults |
| `proposals` | 82,188 | `LinksSound`, `CallFailuresTrue`, `NewDraftsAreNew`, `JobsEnd` | two jobs (one may be cancelled), one retry, answers of up to two candidates with one content, so that duplicates come from the answer, from the other job and from a reviewer |
| `gateway` | 360,766 | `BodiesSound`, `QuotaExact`, `OnlyPermitted`, `AnswersAudited` | two requests of any route with the local key, a reader's token for one agent or a revoked one; three scopes (the reader's, of another team, of another agent) or none; limits of 1, windows of 2 ticks, a map that is full with one key; bodies of up to one chunk and one to drain; every event may fail |
| `session` | 398,103 | `OnlyDecided`, `DrawnWithoutGap`, `MainReturns`, `CapturesTheWholeDigest` | two drafts, three parts of which two fit into the prompt, one hook and one console of the other kind: a part in the middle can be missing, and one behind the budget; digests of up to 4 texts of length up to 7 with budgets that are hit exactly, overrun by a tail and by a single text |
| `mcp` | 274,527 | `DeliveredWasVerified`, `ShutdownEnds` | two requests; one user in two teams, a caller without rights, an unknown token; one asset in each scope; a sink that may fail |
| `restore` | 237,004 | `RestoresTheBackup`, `NothingSettledIsLost` | three commits, two backups, so that a wrong one can be restored and another taken in between; any number of restores |
| `restore_undo` | violation | `WrongRestoreCanBeUndone` fails for commits that were only in the log | two commits, one backup |

Type invariants are parts of the inductive invariants that are proved (section 5).

`CHECK_DEADLOCK FALSE` is set only where the system may stop: `memory_unique`
(all ids used, clock at its bound), `gateway` and `mcp` (all requests answered,
the server down), `session` (the hook has ended, nothing is left to do),
`restore` and `restore_undo` (commits and backups used up, a restore done).

## 4. Fairness

- `MemoryGovernance!FairSpec`: the clock goes on and the sweep of every scope is
  run while it has something to do. The sweep is `npm run governance:sweep`,
  driven by an external cron (`docs/operations.md`); without it drafts do stay.
- `EmbeddingSync!FairSpec`: every embedding call settles (answer, error, or the
  timeout of the provider) and the event loop takes it up. Strong, because the
  call is ready while other handlers have their turn.
- `Migrations!FairSpec`: a process that runs goes on (weak); one that gave up is
  started again for real, also between dry runs (strong): its supervisor. Faults
  are bounded.
- `SessionHook!HookFairSpec`: the timers of the hook fire (5 s for a capture, 30 s
  for a proposal, 20 s at its prompt), and what it need not wait for goes on.
  Nothing is assumed of the service, of the person (a line may never be typed), or
  of the other console, whose prompt has no timer. So `main` returns; that the
  process ends (`HookExits`) does not hold under the same fairness (section 6).
- `McpAdapter!McpFairSpec`: a body ends, breaks off or meets the request timeout
  of Node's HTTP server; a `fetch` settles or meets the timeouts of its library.
  No tool has a timer of its own.
- `ProposalJobs!JobFairSpec`: timers fire, an aborted `fetch` rejects, a pause
  ends. Nothing is assumed of the model: it may never answer.

## 5. What is proved

The proofs hold for every value of the constants under the named `ASSUME`s of
the modules: sentinels differ from data, bounds are numbers, names are in range;
the four quotas of the gateway exist and no scope is the missing one
(`GatewayAssumption`); a session has parts and the prompt takes at least one
(`HookAssumption`); weights are positive
and the retriever asks for more than the limit (`BudgetAssumption`); a part of a
digest has room beside its title, a role beside its head (`DigestAssumption`).
Further hypotheses are stated in a theorem.

**Induction.** The library's induction theorems take a predicate as a parameter,
which no installed prover can instantiate. The two lemmas here take *sets* and
*functions* instead, so they can be cited: `LeastNat` (a set of numbers that has a
member has a least one) turns an induction into the study of a least
counterexample, and `Recursion` (a recursion along an interval has a solution)
says that the recursive function a module defines satisfies its equation. Every loop below is proved from these two: an invariant of
the loop, and the first index at which it would fail.

**MemoryGovernance_proof.** `TypeCorrect` first. Links are handled through
`LinksSound`, inductive with the types; `DeletionStaysInScope` follows, since
deletion moves only what links name. The converse, `SourcesLinked` ("a live source is linked"), is
inductive only if ids are not reused: `DeletionAlwaysWithdraws` and
`RulesKeepBacking` assume `ReuseIds = FALSE`. The assumption is needed: after
delete, capture again, verify and delete again, a memory stays verified without a
source (section 6). `DisputedNeverAuto` (every action that can put a memory back
in service is a person's, or finds it a draft, which a disputed memory never is
again) and the step simulation
`MemoriesAreGoverned` (with `RowsHaveStatus`: a row exists exactly if it has a
status) complete it.

Of calls, `CallsSound` ties attempt, error and stage together. `JobStepsMoveCalls`
shows that a step of the composed system moves calls as `LlmCall` does or not at
all, so that `CancellationTruthful` and `NoEarlySurrender`, together
`FailuresTrue`, hold of calls inside jobs. Of jobs, `JobInv` joins types, links
and calls, with `JobsBound`: who waits for a model has a scope and its evidence.
`DraftsSound` is the invariant of the loop over the candidates - each draft rests
on evidence that was selected *and still exists*, is active nowhere in its scope
and is made once -, which gives `NewDraftsAlwaysNew` however the evidence and the
memories moved while the model was asked, and `LinksSoundBesideJobs`.

**SkillVersions_proof.** The inductive invariant is `Sound == TypeOK /\ Rowed /\
Linked`: versions are numbered without a gap and the current row carries the
status of the skill; links join what exists. `StepKinds` reduces every action to
three kinds - leaves both tables alone, writes a version, sets a status - so the
rest is proved per kind: `LostUpdatesRefused`, `HistoryKept`, `SkillsAreGoverned`,
and `BaselineTrue` with the strengthening `PublishedTrue`, which says of
superseded rows what the property needs and of the current row what makes that
true when it is superseded: one in service was published, and a published one is
in service or archived, after which no version follows. `DeletionAlwaysWithdraws`
again assumes `ReuseIds = FALSE`; a rollback links sources it finds without their
scope, so `SourcesLinked` carries the scope with it.

`LineDiffMinimal`: for bodies of any length the table of the diff bounds every
common subsequence (`Bounded`) and reaches its bound (`Reached`); the walk through
it then keeps that many, the same lines in both bodies. `DiffTells`: the diff of any
two texts, applied to the old one, gives the fields and sections of the new one.
`ReviewsAreExact` is both, of every review.

**ContextRecall_proof.** `SyncInv` holds of the index: what a synchronisation has
still to do was on its list (`TodoOffered`), and for an *undisturbed* one, each
asset of its list is in the index as it should be or still to be embedded
(`CalmSound`, with `Covered` as the part about one asset). Both
`IndexOffered` and `UndisturbedExact` follow; overlap is the difficulty, since
another synchronisation may undo a row and must then count as a disturbance.
`RecallInv` ties a waiting recall to what it has read: what was read was visible at
some moment since the recall began, and every part of the answer was made from
such a text or from an absence, where a text with a lexical score is never left
out (`MadeFrom`). `AnswersRecallable` and `StableFound` follow.

Of the ranking, `IsRanking` says that it is a bijection from places to hits that
respects scores and, among equals, the order of the listing. `FilledTo` is the
invariant of the loop that cuts to the budgets: the answer so far is the ranking
so far, all whole but perhaps the last. From it `BudgetsKept`; with `ScoresAgree`
(where the vectors say nothing, fused scores order as the lexical ones do)
`VectorsReorder`: vectors add hits and reorder them, no more, and without them the
two routes agree. `AnswersTruthful` is both, of every answer.

Of texts, `FromUnfolds` says that the segments of any text exist and are unique
(each match is at least one character long), `SegmentsType` that each stands in
the text and is what the pattern admits, `SegmentsWhole` that a text which is a
segment has no other. So a term of a text, put as a query, is its own only segment
(`TermFinds`), which with `FoldedIncludes` and `FoldedReflects` (pronouns made
alike keep matches, and add none unless they stand on both sides) and `PhraseIs`
(how many windows must be found for a score) gives `SearchFinds` and `TasksTell`.

**Gateway_proof.** `GateInv` has three parts: each body reader keeps all it
received or nothing (`ReaderSound`), a request that has not arrived has nothing
to read, and each request satisfies `RequestSound`: what it took from a quota its
role allowed (`Allowable`), what it did or was given it was allowed and had a scope
for (`Entitled`), what it answers is on record, and how far it has come bounds what it can have
done (`StageSound`, the strengthening: nothing is changed or taken from a quota
before the body is read, nothing recorded while a model is asked, a change under
synchronisation is already recorded). `Lawful` is what remains of it inside a
handler; lemmas say which answers a lawful request may get. From it
`BodiesAreSound`, `OnlyPermittedAct`, `AnswersAreAudited`, whatever the sink
throws and whatever the limiter says.

`LimitInv` is about the limiter: what its map holds of a key sums up the history of
its uses (`Counted`): the start of the window opened last and how many uses fell
into it, granted or not; a key that is not held has no window that still runs. That is
what eviction needs: `QuotasExact` - up to the limit every use of a window is
granted, beyond it none - although the map is swept and may be full.

**BackupRestore_proof.** `BInv`: a snapshot with a manifest is what was backed up
(`SnapshotsTrue`), and a restore under way works on such a snapshot, in a stopped
service, with the file it found still in place until it is replaced and a copy of
it once one was made (`RestoreInOrder`). `LogsBelong` - no log lies beside a file
it was not written for - is what makes `RestoreTrue` follow from the rename alone.

**Clients_proof.** `MInv`, of the MCP adapter: a handler has the scope of *every*
caller with its key (`HandlersSound`), and what a tool found was once in the
history of the caller (`Sound`). The first half is where the two fields of the key
are needed; leaving one out is the mutant of `DeliveredWasVerified`.

`HInv`, of the session hook: a proposal under way has selected the whole session
(`JobsWhole`), so that what the model read of it is its beginning (`NoGap`; not its
whole, section 6), a console sends only what was decided there, and after "a" its list
holds nothing that was not on it when the "a" was given (`ConsolesSound`).
`DigestComplete`, of the cut of a session of any number of texts of any length: the
parts so far hold the characters of the kept texts so far (`KeptTo`), in order,
and each is within the limit (`Sofar`); no more is omitted than the budget asks.
`CapturesWhole` says so of what a hook sends.

**Migrations_proof.** `MigInv`: changes and register are prefixes (`PrefixesTrue`);
what a process still has to do joins the register without a gap, although it was
computed before others changed it (`RunnerSound`); a process that may migrate a
database in use has seen a backup (`Backed`). Since a process that lost a race
stops at the primary key, `RegisterAlwaysSound` and `UpgradesAlwaysBackedUp` hold
for any number of processes and faults.

Only model-checked: all liveness (`DraftsLeaveQueue`, `SyncsEnd`,
`UpgradeCompletes`, `JobsEnd`, `MainReturns`, `ShutdownEnds`), which is out of the
prover's reach.

## 6. Where code and documents disagree

One run expects a violation, the finding of `PROJECT.json`:

- `restore_undo`: the safety copy of a restore is a copy of the database file; its
  log is removed. Commits that were only in the log of a service that died are in
  no copy afterwards, against `docs/operations.md:64`.

Met while modelling, where the model of the code has behaviours that contradict a
document:

- The list for the model ends at 48,000 characters (`proposal-service.ts:205`), a
  session is captured with up to 60,000 of each role. The parts behind are captured,
  selected, accepted as references, and never read, against
  `session-end-capture.mjs:40` and `README.md:158` ("保证每块都能完整进入模型"). With
  `DrawnFromWhole` in place of `DrawnWithoutGap`, `session.cfg` gives the trace.
- The timer of a prompt closes the readline interface and resolves the promise
  (`session-end-capture.mjs:238`), but not the stream on `/dev/tty` (line 229), whose
  read stays pending; nothing calls `process.exit`. `main` returns, and the process,
  which the host waits for, stays until a line is typed, against lines 11 and 48 and
  `README.md:167` ("绝不阻塞会话收尾"). An answered prompt can leave a read as well: the
  stream may have gone on reading when the answer closes the interface. And a later
  prompt shares the terminal with the read that was left, which takes the next line
  from it: that prompt sees no answer. With `HookExits` in place of `MainReturns`,
  `session.cfg` gives the trace.
- After delete, capture again, verify, delete again, a memory stays verified
  without a source, against `docs/api.md:208`: `ON DELETE CASCADE` took its link
  and a new capture does not bring it back (`DeletionWithdraws` with
  `ReuseIds = TRUE`).
- Rollback carries over the description field of the version it leaves, which need
  not be that of the SKILL.md it restores (`skill-service.ts:283`);
  `validateSkillContent` refuses this everywhere else.
- An older synchronisation removes the row a newer one has just embedded, and
  reports it as stale, against `embedding-sync.ts:23` and `docs/retrieval.md:65`.
- A crash while the baseline is registered makes the next start run migrations
  that are already in effect, against `docs/operations.md:12`.

Met while reading, with no run because they are about records, wording or
configuration:

- `PUT /v1/skills/:id` takes a published skill out of service without
  `audit.state_changed`, though `docs/threat-model.md:125` speaks of every
  transition; the record of a rollback always says `from: "verified"`
  (`http-server.ts:500`), also for a draft.
- A request without a scope passes `authorize` (`http-server.ts:796`): it takes from
  the quota and fails in its handler, or is answered 200 with nothing
  (`/v1/evidence/get` without ids), where a scope beyond the boundary is refused.
- A login key that is valid only without its blanks passes the quota of failures
  (`http-server.ts:151`) and is refused afterwards (161): a 401 that counts as no
  failure.
- `draftVisible` answers 403 without `audit.denied` (`docs/threat-model.md:124`);
  `AnswersAudited` excludes exactly this case.
- A proposal run whose sink throws after `runOk` is recorded twice, as a success
  and as a failure; a committed change can be answered by an error.
- `docs/architecture.md:45` says deletion archives derived memory; the code
  deprecates it.
- `errors.ts:30` counts HTTP 408 as `server_error`, `provider.ts:92` maps it to
  `timeout` (both are retried).
- `auto-verify.ts:38` says that any invalid value switches the rules off; values
  that do not parse fall back to defaults.
- The restore script says that the target is not affected ("目标库未受影响") also
  when it fails after the log was removed.
- The session hook prints "已 Verify" also for a transition that was refused; a
  refused capture is only logged; the header of a part can make it longer
  than the limit the comment promises to include it in (`session-end-capture.mjs:278`); the prompt of
  `review:drafts` has no timer.
- When whole hits fill the character budget exactly, the next ones are left out
  without a warning, against `docs/api.md:186`; the warning about dropped hits
  counts no further than twice the limit.
- A diff is empty, "内容完全一致" (`skill-diff.ts:108`), also when sections with the
  same title were changed but for the last of them, or sections were reordered.
- A text is cut into words so that letters take CJK characters behind them along:
  "React框架" is one word, and the query "框架" does not find it, nor does a query of
  one CJK character find anything (`text-match.ts:2`). The katakana length mark is
  no `Script=Katakana` and begins such a word. A lexical score can exceed 1 (three
  words over two); a hit may have no matched term to show when pronouns made it.
- The MCP adapter writes no audit event when it rejects a host or an origin
  (`docs/integrations/remote-mcp.md:63`).
- The vector index opens a second connection that `shutdown()` does not close, so a
  log may be left also after a stop in order.
- `feedback-service.ts:14` says feedback changes no status; the route around it
  deprecates rule-published memories.
- `migration-runner.ts:14` says a dry run does not write; it registers the
  baseline. After a failure in a later migration the message names the version
  before the first.

## 7. Not modelled, and why

- Run records of skills, the recall log, the list of feedback records: written and
  listed, they govern nothing. The version a feedback record is stored with
  (`updatedAt`, `feedback-service.ts:68`) is read by no one but reports.
- The YAML front matter, the patterns for placeholders and secrets, redaction and
  field projection of events, wording of messages and summaries: text patterns no
  property relates to a state. A document is its sections, a candidate passes the
  patterns or not.
- The skill half of the proposal jobs: the same pipeline as the modelled half,
  with rows of another table.
- Start-up wiring, parsing of configuration and token files: no state after the
  start. That a failing migration ends the start is in `Migrations`.
- Web UI: a browser client that keeps nothing the server relies on. Evaluation
  harness: offline measurement.
- Vectors, cosines, cost, metrics and the query cache: numbers the properties do
  not distinguish beyond "above the threshold"; a cached query embedding only makes
  a wait shorter.
- The SQL of the migrations: a migration is its number.

## 8. Plan

Built, in this order: the lifecycle and its abstract specification; memories;
skills; the index; recall; migrations; model calls and proposal jobs; the gateway
with limiter and body reader; then the clients and scripts around the service
(MCP adapter, session hook, backup and restore) and the operators (diff, budgets,
digest, text match, conflict tasks), with the proofs of the modules that have
inductive invariants.

What is left to extend: skills in proposal jobs; the recall log.

What is left to prove: that jobs beside governance keep what governance promises
(`ImplementsGovernedAssets` and `DisputedNeedsHuman` of `JobSpec`, as
`LinksSoundBesideJobs` does for links).
