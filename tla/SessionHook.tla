---------------------------- MODULE SessionHook ----------------------------
(***************************************************************************)
(* What happens at the end of an agent's session: the hook captures the    *)
(* parts of its digest as evidence, asks for a proposal, and lets a person *)
(* review the new drafts at the terminal; npm run review:drafts is a       *)
(* second console for the drafts that are left.  Other reviewers, sweeps   *)
(* and deletions go on at the same time.                                   *)
(*                                                                         *)
(* Every request of the hook has a timeout.  When it fires, the service    *)
(* may have done what it was asked, or may still do it.  A prompt has one  *)
(* as well, but what reads the terminal for it is not stopped: main is     *)
(* over, and the process stays until the person types a line.              *)
(***************************************************************************)
EXTENDS ServedAssets, Naturals, FiniteSets

CONSTANTS
  HookScope,   \* the scope of the hook's environment
  Parts,       \* how many parts the digests of the session are cut into
  Readable,    \* how many of them, from the first on, fit into the prompt
               \* (MAX_TOTAL_EVIDENCE_CHARS)
  MaxRuns      \* bound: how often the session ends (it may be resumed)

ASSUME HookAssumption ==
  /\ Parts \in Nat \ {0}
  /\ Readable \in Nat \ {0}
  /\ MaxRuns \in Nat
  /\ "nothing" \notin Assets

VARIABLES
  evidence,    \* the parts the service has stored
  hook,        \* the hook: its number, its stage, the next part to capture, and
               \* whether its deadline of 60 seconds has passed
  job,         \* job[n]: the proposal the service makes for the n-th hook, and
               \* the evidence it selected
  console,     \* the two consoles
  held,        \* held[n]: has the n-th hook left a read of /dev/tty pending?
  origin       \* history: the evidence the model read for an asset

hookVars == <<status, evidence, hook, job, console, held, origin>>

Runs     == 1..MaxRuns
Consoles == {"hook", "cli"}
Nothing  == "nothing"
Targets  == {"verified", "rejected"}

Closed == [stage |-> "closed", left |-> {}, draft |-> Nothing, target |-> "verified",
           all |-> FALSE, yes |-> {}, no |-> {}]

\* yes and no are history: what the person has decided at this console.
Console == [stage : {"closed", "next", "asking", "sending"},
            left  : SUBSET Assets, draft : Assets \cup {Nothing}, target : Targets,
            all   : BOOLEAN, yes : SUBSET Assets, no : SUBSET Assets]

HookTypeOK ==
  /\ StatusesOK
  /\ evidence \subseteq 1..Parts
  /\ hook \in [stage : {"idle", "capturing", "proposing", "reviewing", "ended"},
               next : 1..(Parts + 1), late : BOOLEAN, run : 0..MaxRuns]
  /\ job \in [Runs -> [stage : {"none", "asking", "done"}, selected : SUBSET (1..Parts)]]
  /\ console \in [Consoles -> Console]
  /\ held \in [Runs -> BOOLEAN]
  /\ origin \in [Assets -> SUBSET (1..Parts)]

HookInit ==
  /\ status = [a \in Assets |-> Absent]
  /\ evidence = {}
  /\ hook = [stage |-> "idle", next |-> 1, late |-> FALSE, run |-> 0]
  /\ job = [n \in Runs |-> [stage |-> "none", selected |-> {}]]
  /\ console = [c \in Consoles |-> Closed]
  /\ held = [n \in Runs |-> FALSE]
  /\ origin = [a \in Assets |-> {}]

Stage(stage) == hook' = [hook EXCEPT !.stage = stage]

\* main returns or throws, and main().catch ends in silence.  Nothing calls
\* process.exit: the process is over when nothing is pending any more (Alive).
Return == hook' = [hook EXCEPT !.stage = "ended", !.next = 1, !.late = FALSE]

\* withinBudget
WithinBudget == ~hook.late

-----------------------------------------------------------------------------
\* Capture.

\* The host ends a session, for the first time or after it was resumed; the
\* same transcript gives the same ids again.
StartHook ==
  /\ hook.stage \in {"idle", "ended"}
  /\ hook.run < MaxRuns
  /\ hook' = [stage |-> "capturing", next |-> 1, late |-> FALSE, run |-> hook.run + 1]
  /\ UNCHANGED <<status, evidence, job, console, held, origin>>

Deadline ==
  /\ hook.stage \notin {"idle", "ended"}
  /\ WithinBudget
  /\ hook' = [hook EXCEPT !.late = TRUE]
  /\ UNCHANGED <<status, evidence, job, console, held, origin>>

\* captureEvidence for the next part.  A refusal is only logged, and the id
\* goes into capturedIds all the same; a timeout or a broken connection is
\* thrown and ends main.  Capturing again what is there changes nothing.
CapturePart ==
  /\ hook.stage = "capturing" /\ hook.next <= Parts
  /\ \/ evidence' = evidence \cup {hook.next}
     \/ UNCHANGED evidence
  /\ \/ hook' = [hook EXCEPT !.next = @ + 1]
     \/ Return
  /\ UNCHANGED <<status, job, console, held, origin>>

-----------------------------------------------------------------------------
\* Proposal.

\* Mutant of Complete: missing evidence is left out instead of refused.
CompleteEnough == evidence # {}

\* selectEvidence: explicit ids must all be there.
Complete == evidence = 1..Parts

\* runProposal: the request is sent unless the budget is used up (or the
\* proposals are not switched on); the service refuses it when evidence is
\* missing, and for reasons of its own.
AskForProposal ==
  /\ hook.stage = "capturing" /\ hook.next > Parts
  /\ \/ WithinBudget /\ Complete
        /\ Stage("proposing")
        /\ job' = [job EXCEPT ![hook.run] = [stage |-> "asking", selected |-> evidence]]
     \/ Return /\ UNCHANGED job
  /\ UNCHANGED <<status, evidence, console, held, origin>>

\* Does the hook still wait for the n-th proposal?
Awaited(n) == hook.stage = "proposing" /\ hook.run = n

\* The drafts to review: those rules have not published.  Without any, or
\* without a terminal, the hook is at its end.
Review(n, drafts) ==
  IF Awaited(n) /\ drafts # {}
    THEN \/ /\ Stage("reviewing")
            /\ console' = [console EXCEPT !["hook"] =
                 [Closed EXCEPT !.stage = "next", !.left = drafts]]
         \/ Return /\ UNCHANGED console
    ELSE /\ IF Awaited(n) THEN Return ELSE UNCHANGED hook
         /\ UNCHANGED console

\* renderEvidenceList: the parts are listed in their order, and the rest is left
\* out from the first part on that does not fit any more.
Rendered(selected) ==
  {p \in selected : Cardinality({q \in selected : q < p}) < Readable}

\* The service has its drafts, whether or not the hook still waits, and
\* publishes those that pass the rules; or the run fails.
FinishJob(n) ==
  /\ job[n].stage = "asking"
  /\ job' = [job EXCEPT ![n].stage = "done"]
  /\ \E new \in SUBSET {a \in Assets : ~Exists(a) /\ ScopeOf[a] = HookScope} :
       \E auto \in SUBSET new :
         /\ status' = [a \in Assets |-> IF a \in auto THEN "verified"
                                        ELSE IF a \in new THEN "draft" ELSE status[a]]
         /\ origin' = [a \in Assets |-> IF a \in new THEN Rendered(job[n].selected)
                                               ELSE origin[a]]
         /\ Review(n, new \ auto)
  /\ UNCHANGED <<evidence, held>>

\* The timeout of the proposal: the service goes on.
GiveUp ==
  /\ hook.stage = "proposing"
  /\ Return
  /\ UNCHANGED <<status, evidence, job, console, held, origin>>

-----------------------------------------------------------------------------
\* Review at a console.  The order of the drafts in its list is left open.

ConsoleAt(c, stage) == console[c].stage = stage

ConsoleBecomes(c, state) == console' = [console EXCEPT ![c] = state]

\* A console is done, and the hook with it.
Leave(c) ==
  /\ ConsoleBecomes(c, Closed)
  /\ IF c = "hook" THEN Return ELSE UNCHANGED hook

Reviewed == UNCHANGED <<evidence, job, origin>>

\* promptOnTty has a stream of its own for each prompt, and only the readline
\* interface on it is closed in the end: a read of the terminal may be left.
LeavesRead == held' = [held EXCEPT ![hook.run] = TRUE]

\* npm run review:drafts: all drafts of the scope at this moment.  With --skills
\* it lists skills as well, which may have another version by the time their
\* status is set: SkillVersions has versions, an asset here has none.
OpenCli ==
  LET drafts == {a \in Assets : ScopeOf[a] = HookScope /\ status[a] = "draft"} IN
  /\ ConsoleAt("cli", "closed") /\ drafts # {}
  /\ ConsoleBecomes("cli", [Closed EXCEPT !.stage = "next", !.left = drafts])
  /\ UNCHANGED <<status, hook, held>> /\ Reviewed

\* The list is at its end, or the hook is out of time.
EndReview(c) ==
  /\ ConsoleAt(c, "next")
  /\ console[c].left = {} \/ (c = "hook" /\ ~WithinBudget)
  /\ Leave(c)
  /\ UNCHANGED <<status, held>> /\ Reviewed

\* The next draft is shown; after "a" no question is asked any more.
NextDraft(c, a) ==
  LET shown == [console[c] EXCEPT !.draft = a, !.left = @ \ {a}] IN
  /\ ConsoleAt(c, "next") /\ a \in console[c].left
  /\ ~(c = "hook" /\ ~WithinBudget)
  /\ ConsoleBecomes(c, IF shown.all THEN [shown EXCEPT !.stage = "sending", !.target = "verified"]
                              ELSE [shown EXCEPT !.stage = "asking"])
  /\ UNCHANGED <<status, hook, held>> /\ Reviewed

\* Mutant of Passed: silence is taken for consent.
PassedOn(q) == [q EXCEPT !.stage = "sending", !.target = "verified"]

\* Any other answer, and none in time: the draft stays for later.
Passed(q) == [q EXCEPT !.stage = "next"]

\* The person answers y, a, n, q or anything else.  In the hook the stream may
\* already be reading the next line.  (A line that an earlier prompt's read takes
\* away is no answer: for this prompt nothing was typed.)
Answer(c) ==
  LET q == console[c]
      a == q.draft
  IN
  /\ ConsoleAt(c, "asking")
  /\ \/ /\ ConsoleBecomes(c, [q EXCEPT !.stage = "sending", !.target = "verified", !.yes = @ \cup {a}])
        /\ UNCHANGED hook
     \/ /\ ConsoleBecomes(c, [q EXCEPT !.stage = "sending", !.target = "verified", !.all = TRUE,
                              !.yes = @ \cup q.left \cup {a}])
        /\ UNCHANGED hook
     \/ /\ ConsoleBecomes(c, [q EXCEPT !.stage = "sending", !.target = "rejected", !.no = @ \cup {a}])
        /\ UNCHANGED hook
     \/ ConsoleBecomes(c, Passed(q)) /\ UNCHANGED hook
     \/ Leave(c)
  /\ \/ UNCHANGED held
     \/ c = "hook" /\ LeavesRead
  /\ UNCHANGED status /\ Reviewed

\* Mutant of Idle: the prompt has no timer, as at the other console.
IdleNever(c) == c = "none" /\ UNCHANGED hookVars

\* REVIEW_IDLE_TIMEOUT_MS, only in the hook: the answer is taken as empty, and
\* the read that waits for it stays.
Idle(c) ==
  /\ c = "hook" /\ ConsoleAt(c, "asking")
  /\ ConsoleBecomes(c, Passed(console[c]))
  /\ LeavesRead
  /\ UNCHANGED <<status, hook>> /\ Reviewed

\* Is the main of the n-th hook under way?
Running(n) == hook.run = n /\ hook.stage \notin {"idle", "ended"}

\* A line that is typed ends the last read that was left.  (While the terminal
\* is open, the stream reads on at once; after that it finds the descriptor
\* closed.)
TypeLine(n) ==
  /\ held[n] /\ ~Running(n)
  /\ held' = [held EXCEPT ![n] = FALSE]
  /\ UNCHANGED <<status, evidence, hook, job, console, origin>>

\* transitionMemory: the service accepts the transition from whatever status
\* the asset has by now, or refuses it, or is not reached; failures are only
\* printed.
Send(c) ==
  LET q == console[c] IN
  /\ ConsoleAt(c, "sending")
  /\ \/ Accepts(q.draft, q.target) /\ SetStatus(q.draft, q.target)
     \/ UNCHANGED status
  /\ ConsoleBecomes(c, [q EXCEPT !.stage = "next", !.draft = Nothing])
  /\ UNCHANGED <<hook, held>> /\ Reviewed

-----------------------------------------------------------------------------
\* Meanwhile.  Evidence is deleted at any time; what is deleted after the last
\* proposal plays no part any more and is left out.

DeletePart(p) ==
  /\ p \in evidence
  /\ hook.stage = "capturing" \/ hook.run < MaxRuns
  /\ evidence' = evidence \ {p}
  /\ UNCHANGED <<status, hook, job, console, held, origin>>

Others ==
  \/ \E a \in Assets : Elsewhere(a) /\ UNCHANGED <<evidence, hook, job, console, held, origin>>
  \/ \E p \in 1..Parts : DeletePart(p)

ConsoleStep(c) ==
  \/ EndReview(c)
  \/ \E a \in Assets : NextDraft(c, a)
  \/ Answer(c)
  \/ Idle(c)
  \/ Send(c)

HookNext ==
  \/ StartHook
  \/ Deadline
  \/ CapturePart
  \/ AskForProposal
  \/ GiveUp
  \/ \E n \in Runs : FinishJob(n) \/ TypeLine(n)
  \/ OpenCli
  \/ \E c \in Consoles : ConsoleStep(c)
  \/ Others

HookSpec == HookInit /\ [][HookNext]_hookVars

\* What the hook waits for comes, or its timer fires.  Nothing is assumed of
\* the person.
HookFairSpec ==
  /\ HookSpec
  /\ WF_hookVars(CapturePart)
  /\ WF_hookVars(AskForProposal)
  /\ WF_hookVars(GiveUp)
  /\ WF_hookVars(EndReview("hook"))
  /\ WF_hookVars(\E a \in Assets : NextDraft("hook", a))
  /\ WF_hookVars(Idle("hook"))
  /\ WF_hookVars(Send("hook"))

-----------------------------------------------------------------------------
\* Whatever happens to a draft at a console is what the person decided there
\* about it: nothing is published or rejected by silence, by an answer given
\* for another draft, by an earlier review, or by an "a" given before the
\* draft was on the list.
OnlyDecided ==
  \A c \in Consoles :
    LET q == console[c] IN
    /\ q.stage = "sending" =>
         q.draft \in (IF q.target = "verified" THEN q.yes ELSE q.no)
    /\ q.all => q.left \subseteq q.yes
    /\ \A a \in q.left \cup q.yes \cup q.no : Exists(a)

\* What is drawn from a session is drawn from its parts as they follow each
\* other, from the first one to the limit of the prompt: a part that could not
\* be captured, or was deleted again, prevents the proposal, and is never passed
\* over with later parts moving up in its place.
DrawnWithoutGap ==
  \A a \in Assets : origin[a] # {} => origin[a] = Rendered(1..Parts)

\* Every part of a session enters the model, as the hook's comment on its parts
\* has it: a draft is drawn from all of them.  It does not hold when a session
\* has more parts than the prompt takes (README, section 6).
DrawnFromWhole == \A a \in Assets : origin[a] # {} => origin[a] = 1..Parts

\* The hook has done what it does, and asks for nothing more, whether or not
\* the service answers and the person says anything.
MainReturns == hook.stage \notin {"idle", "ended"} ~> hook.stage \in {"idle", "ended"}

\* Is the process of the n-th hook there, and the host waiting for it?
Alive(n) == Running(n) \/ held[n]

\* The process of a hook comes to its end, as its comment on the total budget
\* has it, whatever the person does.  It does not hold when a prompt leaves a
\* read of the terminal and nobody types a line (README, section 6).
HookExits == \A n \in Runs : Alive(n) ~> ~Alive(n)

=============================================================================
