---------------------------- MODULE Clients_proof ----------------------------
(***************************************************************************)
(* Proofs about the clients of the service: the session hook, for any      *)
(* drafts, sessions and parts; the digest whose parts it captures, for     *)
(* texts of any length and any limits; and the remote MCP adapter, for any *)
(* callers, assets and requests.                                           *)
(***************************************************************************)
EXTENDS McpAdapter, MCSessionHook, SequenceTheorems, Induction

-----------------------------------------------------------------------------
\* The session hook (SessionHook).

Hook == [stage : {"idle", "capturing", "proposing", "reviewing", "ended"},
         next : 1..(Parts + 1), late : BOOLEAN, run : 0..MaxRuns]

\* The type of everything but the consoles.
RestOK ==
  /\ StatusesOK
  /\ evidence \subseteq 1..Parts
  /\ hook \in Hook
  /\ job \in [Runs -> [stage : {"none", "asking", "done"}, selected : SUBSET (1..Parts)]]
  /\ held \in [Runs -> BOOLEAN]
  /\ origin \in [Assets -> SUBSET (1..Parts)]

(***************************************************************************)
(* The inductive invariant.  A proposal under way has selected the whole   *)
(* session (JobsWhole).  What a console shows, will show or has decided is *)
(* there, what it sends was decided there, and after "a" nothing is on its *)
(* list that was not when the "a" was given (ConsoleSound).                *)
(***************************************************************************)
JobsWhole == \A n \in Runs : job[n].stage = "asking" => job[n].selected = 1..Parts

ConsoleSound(q) ==
  /\ q.stage = "asking" => q.draft \in Assets /\ Exists(q.draft)
  /\ q.stage = "sending" => q.draft \in (IF q.target = "verified" THEN q.yes ELSE q.no)
  /\ q.all => q.left \subseteq q.yes
  /\ \A a \in q.left \cup q.yes \cup q.no : Exists(a)

ConsolesSound == \A c \in Consoles : ConsoleSound(console[c])

HInv ==
  /\ RestOK /\ JobsWhole /\ DrawnWithoutGap
  /\ console \in [Consoles -> Console] /\ ConsolesSound

\* No asset that is there disappears.
AssetsStay == \A a \in Assets : Exists(a) => Exists(a)'

-----------------------------------------------------------------------------
LEMMA AbsentIsNoStatus == Absent \notin Statuses
  BY DEF Absent, Statuses

\* A transition of one asset, at a console or elsewhere.
LEMMA SetStatusKeeps ==
  ASSUME StatusesOK, NEW a, NEW target \in Statuses, SetStatus(a, target)
  PROVE  StatusesOK' /\ AssetsStay
  BY AbsentIsNoStatus DEF StatusesOK, SetStatus, AssetsStay, Exists

LEMMA SameStatusKeeps == StatusesOK /\ UNCHANGED status => StatusesOK' /\ AssetsStay
  BY DEF StatusesOK, AssetsStay, Exists

LEMMA ReturnTyped == hook \in Hook /\ Return => hook' \in Hook
<1>1. 1 \in 1..(Parts + 1)
  BY HookAssumption
<1> QED BY <1>1 DEF Hook, Return

LEMMA ClosedTyped == Closed \in Console /\ ConsoleSound(Closed)
  BY DEF Closed, Console, Targets, Nothing, ConsoleSound

\* A console that shows these drafts is sound if they are there.
LEMMA OpenedTyped ==
  ASSUME NEW drafts \in SUBSET Assets
  PROVE  /\ [Closed EXCEPT !.stage = "next", !.left = drafts] \in Console
         /\ [Closed EXCEPT !.stage = "next", !.left = drafts].stage = "next"
         /\ [Closed EXCEPT !.stage = "next", !.left = drafts].left = drafts
         /\ [Closed EXCEPT !.stage = "next", !.left = drafts].yes = {}
         /\ [Closed EXCEPT !.stage = "next", !.left = drafts].no = {}
         /\ ~[Closed EXCEPT !.stage = "next", !.left = drafts].all
  BY DEF Closed, Console, Targets, Nothing

\* Consoles that nobody touches stay sound.
LEMMA ConsolesStay ==
  ASSUME HInv, AssetsStay, UNCHANGED console
  PROVE  console' \in [Consoles -> Console] /\ ConsolesSound'
<1>1. ASSUME NEW c \in Consoles PROVE ConsoleSound(console[c])'
  <2>1. console[c] \in Console /\ ConsoleSound(console[c])
    BY DEF HInv, ConsolesSound
  <2> QED BY <2>1 DEF ConsoleSound, Console, AssetsStay
<1> QED BY <1>1 DEF HInv, ConsolesSound

\* One console gets a sound state, the other one stays.
LEMMA ConsoleReplaced ==
  ASSUME HInv, AssetsStay, NEW c \in Consoles, NEW q \in Console,
         ConsoleSound(q)', ConsoleBecomes(c, q)
  PROVE  console' \in [Consoles -> Console] /\ ConsolesSound'
<1>1. console' \in [Consoles -> Console]
  BY DEF HInv, ConsoleBecomes
<1>2. ASSUME NEW d \in Consoles PROVE ConsoleSound(console[d])'
  <2>1. console[d] \in Console /\ ConsoleSound(console[d])
    BY DEF HInv, ConsolesSound
  <2>2. CASE d = c
    BY <2>2, <1>1 DEF ConsoleBecomes, HInv, ConsoleSound
  <2>3. CASE d # c
    <3>1. console'[d] = console[d]
      BY <2>3 DEF ConsoleBecomes, HInv
    <3> QED BY <2>1, <3>1 DEF ConsoleSound, Console, AssetsStay
  <2> QED BY <2>2, <2>3
<1> QED BY <1>1, <1>2 DEF ConsolesSound

-----------------------------------------------------------------------------
LEMMA HookInitInv == HookInit => HInv
<1> SUFFICES ASSUME HookInit PROVE HInv
  OBVIOUS
<1>1. RestOK
  BY HookAssumption DEF HookInit, RestOK, StatusesOK, Hook
<1>2. JobsWhole /\ DrawnWithoutGap
  BY DEF HookInit, JobsWhole, DrawnWithoutGap
<1>3. console \in [Consoles -> Console] /\ ConsolesSound
  BY ClosedTyped DEF HookInit, ConsolesSound
<1> QED BY <1>1, <1>2, <1>3 DEF HInv

\* The hook starts, captures, runs out of time or gives up.
LEMMA CaptureInv ==
  ASSUME HInv, StartHook \/ Deadline \/ CapturePart \/ GiveUp
  PROVE  HInv'
<1> USE DEF HInv
<1>1. UNCHANGED <<status, job, console, held, origin>>
  BY DEF StartHook, Deadline, CapturePart, GiveUp
<1>2. evidence' \subseteq 1..Parts
  BY DEF RestOK, Hook, StartHook, Deadline, CapturePart, GiveUp
<1>3. hook' \in Hook
  <2>1. CASE StartHook
    BY <2>1, HookAssumption DEF StartHook, RestOK, Hook
  <2>2. CASE Deadline
    BY <2>2 DEF Deadline, RestOK, Hook
  <2>3. CASE CapturePart
    <3>1. CASE Return
      BY <3>1, ReturnTyped DEF RestOK
    <3>2. CASE hook' = [hook EXCEPT !.next = @ + 1]
      <4>1. hook.next + 1 \in 1..(Parts + 1)
        BY <2>3, HookAssumption DEF CapturePart, RestOK, Hook
      <4> QED BY <3>2, <4>1 DEF RestOK, Hook
    <3> QED BY <2>3, <3>1, <3>2 DEF CapturePart
  <2>4. CASE GiveUp
    BY <2>4, ReturnTyped DEF GiveUp, RestOK
  <2> QED BY <2>1, <2>2, <2>3, <2>4
<1>4. StatusesOK' /\ AssetsStay
  BY <1>1, SameStatusKeeps DEF RestOK
<1>5. console' \in [Consoles -> Console] /\ ConsolesSound'
  BY <1>1, <1>4, ConsolesStay
<1> QED BY <1>1, <1>2, <1>3, <1>4, <1>5 DEF RestOK, JobsWhole, DrawnWithoutGap, Rendered

\* The service takes a proposal only when every part is there.
LEMMA AskInv ==
  ASSUME HInv, AskForProposal
  PROVE  HInv'
<1> USE DEF HInv
<1>1. UNCHANGED <<status, evidence, console, held, origin>>
  BY DEF AskForProposal
<1>2. hook' \in Hook
  <2>1. CASE Return
    BY <2>1, ReturnTyped DEF RestOK
  <2>2. CASE Stage("proposing")
    BY <2>2 DEF Stage, RestOK, Hook
  <2> QED BY <2>1, <2>2 DEF AskForProposal
<1>3. /\ job' \in [Runs -> [stage : {"none", "asking", "done"}, selected : SUBSET (1..Parts)]]
      /\ JobsWhole'
  <2>1. CASE UNCHANGED job
    BY <2>1 DEF RestOK, JobsWhole
  <2>2. CASE Complete /\ job' = [job EXCEPT ![hook.run] = [stage |-> "asking", selected |-> evidence]]
    <3> DEFINE asked == [stage |-> "asking", selected |-> evidence]
    <3>1. asked \in [stage : {"none", "asking", "done"}, selected : SUBSET (1..Parts)]
      BY DEF RestOK
    <3>2. asked.selected = 1..Parts
      BY <2>2 DEF Complete
    <3>3. job' = [job EXCEPT ![hook.run] = asked]
      BY <2>2
    <3> HIDE DEF asked
    <3> QED BY <3>1, <3>2, <3>3 DEF RestOK, JobsWhole
  <2> QED BY <2>1, <2>2 DEF AskForProposal
<1>4. StatusesOK' /\ AssetsStay
  BY <1>1, SameStatusKeeps DEF RestOK
<1>5. console' \in [Consoles -> Console] /\ ConsolesSound'
  BY <1>1, <1>4, ConsolesStay
<1> QED BY <1>1, <1>2, <1>3, <1>4, <1>5 DEF RestOK, DrawnWithoutGap, Rendered

\* Its drafts are drawn from the whole session, and are there when they are
\* shown.
LEMMA FinishInv ==
  ASSUME HInv, NEW n \in Runs, FinishJob(n)
  PROVE  HInv'
<1> USE DEF HInv
<1>1. PICK new \in SUBSET {a \in Assets : ~Exists(a) /\ ScopeOf[a] = HookScope} :
        \E auto \in SUBSET new :
          /\ status' = [a \in Assets |-> IF a \in auto THEN "verified"
                                         ELSE IF a \in new THEN "draft" ELSE status[a]]
          /\ origin' = [a \in Assets |-> IF a \in new THEN Rendered(job[n].selected)
                                                ELSE origin[a]]
          /\ Review(n, new \ auto)
  BY DEF FinishJob
<1>2. PICK auto \in SUBSET new :
        /\ status' = [a \in Assets |-> IF a \in auto THEN "verified"
                                       ELSE IF a \in new THEN "draft" ELSE status[a]]
        /\ origin' = [a \in Assets |-> IF a \in new THEN Rendered(job[n].selected)
                                                ELSE origin[a]]
        /\ Review(n, new \ auto)
  BY <1>1
<1>3. /\ StatusesOK' /\ AssetsStay
      /\ \A a \in new : Exists(a)'
  BY <1>2, AbsentIsNoStatus DEF RestOK, StatusesOK, AssetsStay, Exists, Absent, Statuses
<1>4. /\ job' \in [Runs -> [stage : {"none", "asking", "done"}, selected : SUBSET (1..Parts)]]
      /\ JobsWhole'
  BY DEF FinishJob, RestOK, JobsWhole
<1>5. job[n].selected = 1..Parts
  BY DEF FinishJob, JobsWhole
<1>6. origin' \in [Assets -> SUBSET (1..Parts)] /\ DrawnWithoutGap'
  <2>1. origin' = [a \in Assets |-> IF a \in new THEN Rendered(1..Parts) ELSE origin[a]]
    BY <1>2, <1>5
  <2>2. Rendered(1..Parts) \in SUBSET (1..Parts)
    BY DEF Rendered
  <2>3. Rendered(1..Parts)' = Rendered(1..Parts)
    BY DEF Rendered
  <2> QED BY <2>1, <2>2, <2>3 DEF RestOK, DrawnWithoutGap
<1>7. hook' \in Hook
  <2>1. CASE Return
    BY <2>1, ReturnTyped DEF RestOK
  <2>2. CASE Stage("reviewing") \/ UNCHANGED hook
    BY <2>2 DEF Stage, RestOK, Hook
  <2> QED BY <1>2, <2>1, <2>2 DEF Review
<1>8. console' \in [Consoles -> Console] /\ ConsolesSound'
  <2>1. CASE UNCHANGED console
    BY <2>1, <1>3, ConsolesStay
  <2>2. CASE console' = [console EXCEPT !["hook"] =
               [Closed EXCEPT !.stage = "next", !.left = new \ auto]]
    <3> DEFINE q == [Closed EXCEPT !.stage = "next", !.left = new \ auto]
    <3>1. /\ q \in Console /\ q.stage = "next" /\ q.left = new \ auto
          /\ q.yes = {} /\ q.no = {} /\ ~q.all
      BY <1>1, <1>2, OpenedTyped
    <3>2. \E p \in Console : ConsoleBecomes("hook", p) /\ ConsoleSound(p)'
      <4> HIDE DEF q
      <4>1. PICK p : p = q
        OBVIOUS
      <4>2. ConsoleSound(p)'
        BY <3>1, <4>1, <1>3 DEF ConsoleSound
      <4> QED BY <2>2, <3>1, <4>1, <4>2 DEF ConsoleBecomes, q
    <3> QED BY <3>2, <1>3, ConsoleReplaced DEF Consoles
  <2> QED BY <1>2, <2>1, <2>2 DEF Review
<1>9. evidence' = evidence /\ held' = held
  BY DEF FinishJob
<1> QED BY <1>3, <1>4, <1>6, <1>7, <1>8, <1>9 DEF RestOK

-----------------------------------------------------------------------------
\* What a step at a console has to keep for the rest.
LEMMA ConsoleRest ==
  ASSUME HInv, StatusesOK', UNCHANGED <<evidence, job, origin>>, UNCHANGED hook \/ Return,
         UNCHANGED held \/ LeavesRead
  PROVE  RestOK' /\ JobsWhole' /\ DrawnWithoutGap'
  BY ReturnTyped DEF HInv, RestOK, JobsWhole, DrawnWithoutGap, LeavesRead, Rendered

\* A step that gives a console a sound state keeps the invariant.
LEMMA ConsoleStepInv ==
  ASSUME HInv, StatusesOK', AssetsStay, NEW c \in Consoles,
         \E q \in Console : ConsoleBecomes(c, q) /\ ConsoleSound(q)',
         UNCHANGED <<evidence, job, origin>>, UNCHANGED hook \/ Return,
         UNCHANGED held \/ LeavesRead
  PROVE  HInv'
  BY ConsoleRest, ConsoleReplaced DEF HInv

\* The list of the console is read.
LEMMA OpenInv ==
  ASSUME HInv, OpenCli
  PROVE  HInv'
<1> DEFINE drafts == {a \in Assets : ScopeOf[a] = HookScope /\ status[a] = "draft"}
           q == [Closed EXCEPT !.stage = "next", !.left = drafts]
<1>1. UNCHANGED <<status, hook, evidence, job, held, origin>> /\ ConsoleBecomes("cli", q)
  BY DEF OpenCli, Reviewed
<1>2. StatusesOK' /\ AssetsStay
  BY <1>1, SameStatusKeeps DEF HInv, RestOK
<1>3. /\ q \in Console /\ q.stage = "next" /\ q.left = drafts
      /\ q.yes = {} /\ q.no = {} /\ ~q.all
  BY OpenedTyped
<1>4. \A a \in drafts : Exists(a)'
  BY <1>1 DEF Exists, Absent
<1>5. \E p \in Console : ConsoleBecomes("cli", p) /\ ConsoleSound(p)'
  <2> HIDE DEF q, drafts
  <2>1. PICK p : p = q
    OBVIOUS
  <2>2. ConsoleSound(p)'
    BY <2>1, <1>3, <1>4 DEF ConsoleSound
  <2> QED BY <2>1, <2>2, <1>1, <1>3
<1> QED BY <1>1, <1>2, <1>5, ConsoleStepInv DEF Consoles

\* A console is left.
LEMMA LeaveInv ==
  ASSUME HInv, NEW c \in Consoles, Leave(c), UNCHANGED status, Reviewed,
         UNCHANGED held \/ LeavesRead
  PROVE  HInv'
<1>1. Closed \in Console /\ ConsoleSound(Closed)'
  BY ClosedTyped DEF ConsoleSound, Closed
<1>2. StatusesOK' /\ AssetsStay
  BY SameStatusKeeps DEF HInv, RestOK
<1> QED BY <1>1, <1>2, ConsoleStepInv DEF Leave, Reviewed

\* The next draft is on the list, so it is there, and decided after "a".
LEMMA NextInv ==
  ASSUME HInv, NEW c \in Consoles, NEW a \in Assets, NextDraft(c, a)
  PROVE  HInv'
<1>1. UNCHANGED <<status, hook, evidence, job, held, origin>> /\ a \in console[c].left
  BY DEF NextDraft, Reviewed
<1>2. StatusesOK' /\ AssetsStay
  BY <1>1, SameStatusKeeps DEF HInv, RestOK
<1>3. console[c] \in Console /\ ConsoleSound(console[c])
  BY DEF HInv, ConsolesSound
<1>4. PICK q : q = console[c]
  OBVIOUS
<1> DEFINE shown == [q EXCEPT !.draft = a, !.left = q.left \ {a}]
<1>5. /\ shown \in Console /\ shown.draft = a /\ shown.left = q.left \ {a} /\ shown.all = q.all
      /\ shown.yes = q.yes /\ shown.no = q.no
  BY <1>3, <1>4 DEF Console
<1>6. ConsoleBecomes(c, IF shown.all THEN [shown EXCEPT !.stage = "sending", !.target = "verified"]
                              ELSE [shown EXCEPT !.stage = "asking"])
  BY <1>4 DEF NextDraft
<1>7. \E p \in Console : ConsoleBecomes(c, p) /\ ConsoleSound(p)'
  <2> HIDE DEF shown
  <2>1. CASE shown.all
    <3> DEFINE p == [shown EXCEPT !.stage = "sending", !.target = "verified"]
    <3>1. /\ p \in Console /\ p.stage = "sending" /\ p.target = "verified" /\ p.draft = a
          /\ p.left = q.left \ {a} /\ p.all = q.all /\ p.yes = q.yes /\ p.no = q.no
      BY <1>5 DEF Console, Targets
    <3>2. ConsoleBecomes(c, p)
      BY <2>1, <1>6
    <3> HIDE DEF p
    <3>3. ConsoleSound(p)'
      BY <2>1, <3>1, <1>1, <1>2, <1>3, <1>4, <1>5 DEF ConsoleSound, Console, AssetsStay
    <3> QED BY <3>1, <3>2, <3>3
  <2>2. CASE ~shown.all
    <3> DEFINE p == [shown EXCEPT !.stage = "asking"]
    <3>1. /\ p \in Console /\ p.stage = "asking" /\ p.draft = a
          /\ p.left = q.left \ {a} /\ p.all = q.all /\ p.yes = q.yes /\ p.no = q.no
      BY <1>5 DEF Console
    <3>2. ConsoleBecomes(c, p)
      BY <2>2, <1>6
    <3> HIDE DEF p
    <3>3. ConsoleSound(p)'
      BY <3>1, <1>1, <1>2, <1>3, <1>4 DEF ConsoleSound, Console, AssetsStay
    <3> QED BY <3>1, <3>2, <3>3
  <2> QED BY <2>1, <2>2
<1> QED BY <1>1, <1>2, <1>7, ConsoleStepInv

\* The person decides about the draft that is shown, after "a" also about
\* those that are left; or about none.
LEMMA AnswerInv ==
  ASSUME HInv, NEW c \in Consoles, Answer(c)
  PROVE  HInv'
<1>1. /\ UNCHANGED <<status, evidence, job, origin>> /\ ConsoleAt(c, "asking")
      /\ UNCHANGED held \/ LeavesRead
  BY DEF Answer, Reviewed
<1>2. StatusesOK' /\ AssetsStay
  BY <1>1, SameStatusKeeps DEF HInv, RestOK
<1>3. PICK q : q = console[c]
  OBVIOUS
<1>4. q \in Console /\ ConsoleSound(q) /\ q.stage = "asking"
  BY <1>1, <1>3 DEF HInv, ConsolesSound, ConsoleAt
<1>5. /\ q.draft \in Assets /\ Exists(q.draft)' /\ q.left \subseteq Assets
      /\ q.yes \subseteq Assets /\ q.no \subseteq Assets
      /\ \A a \in q.left \cup q.yes \cup q.no : Exists(a)'
      /\ q.all => q.left \subseteq q.yes
  BY <1>2, <1>4 DEF ConsoleSound, Console, AssetsStay
<1>6. CASE Leave(c)
  BY <1>1, <1>6, LeaveInv DEF Answer
<1>7. CASE UNCHANGED hook /\ ConsoleBecomes(c, Passed(q))
  <2>1. /\ Passed(q) \in Console /\ Passed(q).stage = "next" /\ Passed(q).all = q.all
        /\ Passed(q).left = q.left /\ Passed(q).yes = q.yes /\ Passed(q).no = q.no
    BY <1>4 DEF Passed, Console
  <2>2. PICK p : p = Passed(q)
    OBVIOUS
  <2>3. ConsoleSound(p)'
    BY <2>1, <2>2, <1>5 DEF ConsoleSound
  <2> QED BY <1>1, <1>2, <1>7, <2>1, <2>2, <2>3, ConsoleStepInv
<1>8. CASE /\ UNCHANGED hook
           /\ ConsoleBecomes(c, [q EXCEPT !.stage = "sending", !.target = "verified",
                                  !.yes = q.yes \cup {q.draft}])
  <2>1. PICK p : p = [q EXCEPT !.stage = "sending", !.target = "verified",
                               !.yes = q.yes \cup {q.draft}]
    OBVIOUS
  <2>2. /\ p.stage = "sending" /\ p.target = "verified" /\ p.all = q.all
        /\ p.left = q.left /\ p.yes = q.yes \cup {q.draft} /\ p.no = q.no /\ p.draft = q.draft
    BY <1>4, <2>1 DEF Console
  <2>3. p \in Console
    BY <1>4, <1>5, <2>1 DEF Console, Targets
  <2>4. ConsoleSound(p)'
    BY <2>2, <1>5 DEF ConsoleSound
  <2> QED BY <1>1, <1>2, <1>8, <2>1, <2>3, <2>4, ConsoleStepInv
<1>9. CASE /\ UNCHANGED hook
           /\ ConsoleBecomes(c, [q EXCEPT !.stage = "sending", !.target = "verified", !.all = TRUE,
                                  !.yes = q.yes \cup q.left \cup {q.draft}])
  <2>1. PICK p : p = [q EXCEPT !.stage = "sending", !.target = "verified", !.all = TRUE,
                               !.yes = q.yes \cup q.left \cup {q.draft}]
    OBVIOUS
  <2>2. /\ p.stage = "sending" /\ p.target = "verified" /\ p.draft = q.draft
        /\ p.left = q.left /\ p.yes = q.yes \cup q.left \cup {q.draft} /\ p.no = q.no
    BY <1>4, <2>1 DEF Console
  <2>3. p \in Console
    BY <1>4, <1>5, <2>1 DEF Console, Targets
  <2>4. ConsoleSound(p)'
    BY <2>2, <1>5 DEF ConsoleSound
  <2> QED BY <1>1, <1>2, <1>9, <2>1, <2>3, <2>4, ConsoleStepInv
<1>10. CASE /\ UNCHANGED hook
            /\ ConsoleBecomes(c, [q EXCEPT !.stage = "sending", !.target = "rejected",
                                   !.no = q.no \cup {q.draft}])
  <2>1. PICK p : p = [q EXCEPT !.stage = "sending", !.target = "rejected",
                               !.no = q.no \cup {q.draft}]
    OBVIOUS
  <2>2. /\ p.stage = "sending" /\ p.target = "rejected" /\ p.all = q.all
        /\ p.left = q.left /\ p.yes = q.yes /\ p.no = q.no \cup {q.draft} /\ p.draft = q.draft
    BY <1>4, <2>1 DEF Console
  <2>3. p \in Console
    BY <1>4, <1>5, <2>1 DEF Console, Targets
  <2>4. ConsoleSound(p)'
    BY <2>2, <1>5 DEF ConsoleSound
  <2> QED BY <1>1, <1>2, <1>10, <2>1, <2>3, <2>4, ConsoleStepInv
<1> QED BY <1>3, <1>6, <1>7, <1>8, <1>9, <1>10 DEF Answer

\* Silence leaves the draft as it is.
LEMMA IdleInv ==
  ASSUME HInv, NEW c \in Consoles, Idle(c)
  PROVE  HInv'
<1>1. /\ UNCHANGED <<status, hook, evidence, job, origin>> /\ LeavesRead
      /\ ConsoleBecomes(c, Passed(console[c]))
  BY DEF Idle, Reviewed
<1>2. StatusesOK' /\ AssetsStay
  BY <1>1, SameStatusKeeps DEF HInv, RestOK
<1>3. PICK q : q = console[c]
  OBVIOUS
<1>4. q \in Console /\ ConsoleSound(q)
  BY <1>3 DEF HInv, ConsolesSound
<1>5. /\ Passed(q) \in Console /\ Passed(q).stage = "next" /\ Passed(q).all = q.all
      /\ Passed(q).left = q.left /\ Passed(q).yes = q.yes /\ Passed(q).no = q.no
  BY <1>4 DEF Passed, Console
<1>6. PICK p : p = Passed(q)
  OBVIOUS
<1>7. ConsoleSound(p)'
  BY <1>2, <1>4, <1>5, <1>6 DEF ConsoleSound, Console, AssetsStay
<1> QED BY <1>1, <1>2, <1>3, <1>5, <1>6, <1>7, ConsoleStepInv

\* What was decided is done, or refused, or lost.
LEMMA SendInv ==
  ASSUME HInv, NEW c \in Consoles, Send(c)
  PROVE  HInv'
<1>1. PICK q : q = console[c]
  OBVIOUS
<1>2. q \in Console /\ ConsoleSound(q)
  BY <1>1 DEF HInv, ConsolesSound
<1>3. /\ UNCHANGED <<hook, evidence, job, held, origin>>
      /\ SetStatus(q.draft, q.target) \/ UNCHANGED status
  BY <1>1 DEF Send, Reviewed
<1>4. q.target \in Statuses
  BY <1>2 DEF Console, Targets, Statuses
<1>5. StatusesOK' /\ AssetsStay
  BY <1>3, <1>4, SetStatusKeeps, SameStatusKeeps DEF HInv, RestOK
<1>6. PICK p : p = [q EXCEPT !.stage = "next", !.draft = Nothing]
  OBVIOUS
<1>7. /\ p \in Console /\ p.stage = "next" /\ p.all = q.all
      /\ p.left = q.left /\ p.yes = q.yes /\ p.no = q.no
  BY <1>2, <1>6 DEF Console
<1>8. ConsoleSound(p)'
  BY <1>2, <1>5, <1>7 DEF ConsoleSound, Console, AssetsStay
<1>9. ConsoleBecomes(c, p)
  BY <1>1, <1>6 DEF Send
<1> QED BY <1>3, <1>5, <1>7, <1>8, <1>9, ConsoleStepInv

\* Other reviewers and sweeps change statuses, other clients delete evidence.
LEMMA OthersInv ==
  ASSUME HInv, Others
  PROVE  HInv'
<1>1. UNCHANGED <<hook, job, console, held, origin>> /\ evidence' \subseteq 1..Parts
  BY DEF Others, DeletePart, HInv, RestOK
<1>2. StatusesOK' /\ AssetsStay
  <2>1. ASSUME NEW a \in Assets, Elsewhere(a) PROVE StatusesOK' /\ AssetsStay
    BY <2>1, SetStatusKeeps DEF Elsewhere, HInv, RestOK
  <2>2. CASE UNCHANGED status
    BY <2>2, SameStatusKeeps DEF HInv, RestOK
  <2> QED BY <2>1, <2>2 DEF Others, DeletePart
<1>3. console' \in [Consoles -> Console] /\ ConsolesSound'
  BY <1>1, <1>2, ConsolesStay
<1> QED BY <1>1, <1>2, <1>3 DEF HInv, RestOK, JobsWhole, DrawnWithoutGap, Rendered

\* A line at the terminal.
LEMMA TypeInv ==
  ASSUME HInv, NEW n \in Runs, TypeLine(n)
  PROVE  HInv'
<1>1. UNCHANGED <<status, evidence, hook, job, console, origin>>
  BY DEF TypeLine
<1>2. held' \in [Runs -> BOOLEAN]
  BY DEF TypeLine, HInv, RestOK
<1>3. StatusesOK' /\ AssetsStay
  BY <1>1, SameStatusKeeps DEF HInv, RestOK
<1>4. console' \in [Consoles -> Console] /\ ConsolesSound'
  BY <1>1, <1>3, ConsolesStay
<1> QED BY <1>1, <1>2, <1>3, <1>4 DEF HInv, RestOK, JobsWhole, DrawnWithoutGap, Rendered

\* A step in which nothing changes.
LEMMA StutterInv ==
  ASSUME HInv, UNCHANGED hookVars
  PROVE  HInv'
<1>1. UNCHANGED <<status, evidence, hook, job, console, held, origin>>
  BY DEF hookVars
<1>2. StatusesOK' /\ AssetsStay
  BY <1>1, SameStatusKeeps DEF HInv, RestOK
<1>3. console' \in [Consoles -> Console] /\ ConsolesSound'
  BY <1>1, <1>2, ConsolesStay
<1> QED BY <1>1, <1>2, <1>3 DEF HInv, RestOK, JobsWhole, DrawnWithoutGap, Rendered

LEMMA HookStepInv == HInv /\ [HookNext]_hookVars => HInv'
<1> SUFFICES ASSUME HInv, [HookNext]_hookVars PROVE HInv'
  OBVIOUS
<1>1. CASE StartHook \/ Deadline \/ CapturePart \/ GiveUp
  BY <1>1, CaptureInv
<1>2. CASE AskForProposal
  BY <1>2, AskInv
<1>3. ASSUME NEW n \in Runs, FinishJob(n) \/ TypeLine(n) PROVE HInv'
  BY <1>3, FinishInv, TypeInv
<1>4. CASE OpenCli
  BY <1>4, OpenInv
<1>5. ASSUME NEW c \in Consoles, ConsoleStep(c) PROVE HInv'
  <2>1. CASE EndReview(c)
    BY <2>1, LeaveInv DEF EndReview
  <2>2. ASSUME NEW a \in Assets, NextDraft(c, a) PROVE HInv'
    BY <2>2, NextInv
  <2>3. CASE Answer(c)
    BY <2>3, AnswerInv
  <2>4. CASE Idle(c)
    BY <2>4, IdleInv
  <2>5. CASE Send(c)
    BY <2>5, SendInv
  <2> QED BY <1>5, <2>1, <2>2, <2>3, <2>4, <2>5 DEF ConsoleStep
<1>6. CASE Others
  BY <1>6, OthersInv
<1>7. CASE UNCHANGED hookVars
  BY <1>7, StutterInv
<1> QED BY <1>1, <1>2, <1>3, <1>4, <1>5, <1>6, <1>7 DEF HookNext

\* The invariant holds in every run of the hook and the consoles.
THEOREM HookSound == HookSpec => []HInv
BY HookInitInv, HookStepInv, PTL DEF HookSpec

\* Nothing is published or rejected at a console but what the person decided
\* there about that draft (answers, "a" and timeouts of the prompt).
THEOREM DecidedOnly == HookSpec => []OnlyDecided
<1>1. HInv => OnlyDecided
  BY DEF HInv, ConsolesSound, ConsoleSound, OnlyDecided
<1> QED BY <1>1, HookSound, PTL

\* What a draft is drawn from are the parts of its session in their order, from
\* the first one to the limit of the prompt: the service takes all parts or none
\* (selectEvidence), so no gap brings a later part under the limit
\* (renderEvidenceList).
THEOREM NoGap == HookSpec => []DrawnWithoutGap
<1>1. HInv => DrawnWithoutGap
  BY DEF HInv
<1> QED BY <1>1, HookSound, PTL

-----------------------------------------------------------------------------
\* Its digest (SessionDigest).

-----------------------------------------------------------------------------
\* Sequences put end to end.

\* The recursion of FlattenSeq, whose values are sequences.
FlatAt(seqs, f, i) == IF i = 1 THEN seqs[i] ELSE f[i - 1] \o seqs[i]

Flat(seqs) == CHOOSE f : f = [i \in 1..Len(seqs) |-> FlatAt(seqs, f, i)]

LEMMA FlatUnfolds ==
  ASSUME NEW C, NEW seqs \in Seq(Seq(C))
  PROVE  \A i \in 1..Len(seqs) : Flat(seqs)[i] = FlatAt(seqs, Flat(seqs), i)
<1> DEFINE n == Len(seqs)
           D == Seq(C)
           step == [p \in (1..n) \X D |-> p[2] \o seqs[p[1]]]
<1>1. n \in Nat /\ \A i \in 1..n : seqs[i] \in D
  OBVIOUS
<1> SUFFICES ASSUME n # 0 PROVE \A i \in 1..n : Flat(seqs)[i] = FlatAt(seqs, Flat(seqs), i)
  BY <1>1
<1>2. step \in [(1..n) \X D -> D]
  <2>1. ASSUME NEW i \in 1..n, NEW d \in D PROVE d \o seqs[i] \in D
    BY <1>1, ConcatProperties
  <2>2. \A p \in (1..n) \X D : p[2] \o seqs[p[1]] \in D
    <3> HIDE DEF D, n
    <3> QED BY <2>1
  <2> HIDE DEF D, n
  <2> QED BY <2>2
<1>3. PICK f \in [1..n -> D] :
        \A i \in 1..n : f[i] = IF i = 1 THEN seqs[1] ELSE step[<<i, f[i - 1]>>]
  <2>1. 1 \in Int /\ n \in Int /\ seqs[1] \in D
    BY <1>1
  <2>2. PICK f : Solves(f, 1, n, D, seqs[1], step)
    <3> HIDE DEF step, D, n
    <3> QED BY <1>2, <2>1, Recursion
  <2> QED BY <2>2 DEF Solves
<1>4. ASSUME NEW i \in 1..n PROVE f[i] = FlatAt(seqs, f, i)
  <2>1. CASE i = 1
    BY <1>3, <2>1 DEF FlatAt
  <2>2. CASE i # 1
    <3>1. i - 1 \in 1..n
      BY <1>1, <2>2
    <3>2. <<i, f[i - 1]>> \in (1..n) \X D
      <4> HIDE DEF D, n, step
      <4> QED BY <1>3, <3>1
    <3>3. step[<<i, f[i - 1]>>] = f[i - 1] \o seqs[i]
      <4> DEFINE p == <<i, f[i - 1]>>
      <4>1. p[1] = i /\ p[2] = f[i - 1]
        OBVIOUS
      <4>2. step[p] = p[2] \o seqs[p[1]]
        <5> HIDE DEF D, n, p
        <5> QED BY <3>2 DEF p
      <4> HIDE DEF p, step
      <4> QED BY <4>1, <4>2 DEF p
    <3> HIDE DEF step
    <3> QED BY <1>3, <2>2, <3>3 DEF FlatAt
  <2> QED BY <2>1, <2>2
<1>5. f = [i \in 1..Len(seqs) |-> FlatAt(seqs, f, i)]
  <2> HIDE DEF D
  <2> QED BY <1>3, <1>4
<1>6. Flat(seqs) = [i \in 1..Len(seqs) |-> FlatAt(seqs, Flat(seqs), i)]
  BY <1>5 DEF Flat
<1> QED BY <1>6

LEMMA FlatType ==
  ASSUME NEW C, NEW seqs \in Seq(Seq(C))
  PROVE  \A i \in 1..Len(seqs) : Flat(seqs)[i] \in Seq(C)
<1> DEFINE Wrong == {i \in 1..Len(seqs) : Flat(seqs)[i] \notin Seq(C)}
<1> SUFFICES ASSUME Wrong # {} PROVE FALSE
  OBVIOUS
<1>1. PICK i \in Wrong : \A j \in Wrong : i <= j
  <2>1. Wrong \in SUBSET Nat
    OBVIOUS
  <2> HIDE DEF Wrong
  <2> QED BY <2>1, LeastNat
<1>2. i \in 1..Len(seqs) /\ Flat(seqs)[i] \notin Seq(C)
  OBVIOUS
<1>3. Flat(seqs)[i] = FlatAt(seqs, Flat(seqs), i)
  BY <1>2, FlatUnfolds
<1>4. i # 1
  BY <1>2, <1>3 DEF FlatAt
<1>5. i - 1 \in 1..Len(seqs) /\ i - 1 \notin Wrong
  <2>1. i - 1 \in 1..Len(seqs) /\ ~(i <= i - 1)
    BY <1>2, <1>4
  <2> HIDE DEF Wrong
  <2> QED BY <1>1, <2>1
<1>6. Flat(seqs)[i - 1] \in Seq(C) /\ seqs[i] \in Seq(C)
  BY <1>2, <1>5
<1>7. Flat(seqs)[i - 1] \o seqs[i] \in Seq(C)
  BY <1>6, ConcatProperties
<1> QED BY <1>2, <1>3, <1>4, <1>7 DEF FlatAt

LEMMA FlattenEmpty == FlattenSeq(<< >>) = << >>
  BY DEF FlattenSeq

LEMMA FlattenIs ==
  ASSUME NEW C, NEW seqs \in Seq(Seq(C))
  PROVE  /\ FlattenSeq(seqs) = IF Len(seqs) = 0 THEN << >> ELSE Flat(seqs)[Len(seqs)]
         /\ FlattenSeq(seqs) \in Seq(C)
<1>1. CASE Len(seqs) = 0
  <2>1. seqs = << >>
    BY <1>1
  <2> QED BY <1>1, <2>1 DEF FlattenSeq
<1>2. CASE Len(seqs) # 0
  <2>1. FlattenSeq(seqs) = Flat(seqs)[Len(seqs)]
    BY <1>2 DEF FlattenSeq, Flat, FlatAt
  <2>2. Len(seqs) \in 1..Len(seqs)
    BY <1>2
  <2> QED BY <1>2, <2>1, <2>2, FlatType
<1> QED BY <1>1, <1>2

LEMMA FlattenAppend ==
  ASSUME NEW C, NEW seqs \in Seq(Seq(C)), NEW x \in Seq(C)
  PROVE  FlattenSeq(Append(seqs, x)) = FlattenSeq(seqs) \o x
<1> DEFINE more == Append(seqs, x)
           n == Len(seqs)
<1>1. /\ more \in Seq(Seq(C)) /\ Len(more) = n + 1 /\ n \in Nat
      /\ more[n + 1] = x /\ \A i \in 1..n : more[i] = seqs[i]
  OBVIOUS
<1> HIDE DEF more
<1>2. \A i \in 1..n : Flat(more)[i] = Flat(seqs)[i]
  <2> DEFINE Wrong == {i \in 1..n : Flat(more)[i] # Flat(seqs)[i]}
  <2> SUFFICES ASSUME Wrong # {} PROVE FALSE
    OBVIOUS
  <2>1. PICK i \in Wrong : \A j \in Wrong : i <= j
    <3>1. Wrong \in SUBSET Nat
      BY <1>1
    <3> HIDE DEF Wrong
    <3> QED BY <3>1, LeastNat
  <2>2. i \in 1..n /\ Flat(more)[i] # Flat(seqs)[i]
    OBVIOUS
  <2>3. i \in 1..Len(more)
    BY <1>1, <2>2
  <2>4. Flat(seqs)[i] = FlatAt(seqs, Flat(seqs), i)
    BY <2>2, FlatUnfolds
  <2>5. Flat(more)[i] = FlatAt(more, Flat(more), i)
    BY <1>1, <2>3, FlatUnfolds
  <2>6. CASE i = 1
    BY <1>1, <2>2, <2>4, <2>5, <2>6 DEF FlatAt
  <2>7. CASE i # 1
    <3>1. i - 1 \in 1..n /\ i - 1 \notin Wrong
      <4>1. i - 1 \in 1..n /\ ~(i <= i - 1)
        BY <1>1, <2>2, <2>7
      <4> HIDE DEF Wrong
      <4> QED BY <2>1, <4>1
    <3>2. Flat(more)[i - 1] = Flat(seqs)[i - 1]
      BY <3>1
    <3> QED BY <1>1, <2>2, <2>4, <2>5, <2>7, <3>2 DEF FlatAt
  <2> QED BY <2>6, <2>7
<1>3. FlattenSeq(more) = Flat(more)[n + 1]
  BY <1>1, FlattenIs
<1>4. Flat(more)[n + 1] = FlatAt(more, Flat(more), n + 1)
  <2>1. n + 1 \in 1..Len(more)
    BY <1>1
  <2> QED BY <1>1, <2>1, FlatUnfolds
<1>5. CASE n = 0
  <2>1. FlattenSeq(seqs) = << >>
    BY <1>5, FlattenIs
  <2>2. << >> \o x = x
    BY ConcatEmptySeq
  <2>3. FlatAt(more, Flat(more), n + 1) = x
    BY <1>1, <1>5 DEF FlatAt
  <2> QED BY <1>3, <1>4, <2>1, <2>2, <2>3 DEF more
<1>6. CASE n # 0
  <2>1. n \in 1..n /\ n + 1 # 1 /\ (n + 1) - 1 = n
    BY <1>1, <1>6
  <2>2. FlatAt(more, Flat(more), n + 1) = Flat(more)[n] \o x
    BY <1>1, <2>1 DEF FlatAt
  <2>3. FlattenSeq(seqs) = Flat(seqs)[n]
    BY <1>6, FlattenIs
  <2> QED BY <1>2, <1>3, <1>4, <2>1, <2>2, <2>3 DEF more
<1> QED BY <1>5, <1>6

-----------------------------------------------------------------------------
\* The characters of pieces, parts and digests.
Piece == {p \in [text : Nat, from : Nat, to : Nat] : 1 <= p.from /\ p.from <= p.to + 1}

Spots == Nat \X Nat

Chars(piece) ==
  [c \in 1..(piece.to - piece.from + 1) |-> <<piece.text, piece.from + c - 1>>]

AllOf(parts) == FlattenSeq([p \in DOMAIN parts |-> Characters(parts[p])])

LEMMA CharsType ==
  ASSUME NEW piece \in Piece
  PROVE  /\ Chars(piece) \in Seq(Spots)
         /\ Len(Chars(piece)) = piece.to - piece.from + 1
<1> DEFINE n == piece.to - piece.from + 1
<1>1. /\ piece.text \in Nat /\ piece.from \in Nat /\ piece.to \in Nat
      /\ 1 <= piece.from /\ piece.from <= piece.to + 1
  BY DEF Piece
<1>2. n \in Nat
  BY <1>1
<1>3. \A c \in 1..n : <<piece.text, piece.from + c - 1>> \in Spots
  BY <1>1 DEF Spots
<1>4. Chars(piece) = [c \in 1..n |-> <<piece.text, piece.from + c - 1>>]
  BY DEF Chars
<1>5. Chars(piece) \in [1..n -> Spots]
  BY <1>3, <1>4
<1> HIDE DEF n
<1>6. Chars(piece) \in Seq(Spots) /\ Len(Chars(piece)) = n
  BY <1>2, <1>5
<1> QED BY <1>6 DEF n

\* The characters of a part, one piece after another.
LEMMA CharactersType ==
  ASSUME NEW part \in Seq(Piece)
  PROVE  /\ [k \in DOMAIN part |-> Chars(part[k])] \in Seq(Seq(Spots))
         /\ Characters(part) = FlattenSeq([k \in DOMAIN part |-> Chars(part[k])])
         /\ Characters(part) \in Seq(Spots)
<1>1. DOMAIN part = 1..Len(part) /\ Len(part) \in Nat /\ \A k \in DOMAIN part : part[k] \in Piece
  OBVIOUS
<1>2. \A k \in DOMAIN part : Chars(part[k]) \in Seq(Spots)
  BY <1>1, CharsType
<1>3. [k \in DOMAIN part |-> Chars(part[k])] \in Seq(Seq(Spots))
  BY <1>1, <1>2
<1>4. Characters(part) = FlattenSeq([k \in DOMAIN part |-> Chars(part[k])])
  BY DEF Characters, Chars
<1> QED BY <1>3, <1>4, FlattenIs

LEMMA CharactersAppend ==
  ASSUME NEW part \in Seq(Piece), NEW piece \in Piece
  PROVE  Characters(Append(part, piece)) = Characters(part) \o Chars(piece)
<1> DEFINE more == Append(part, piece)
           s == [k \in DOMAIN part |-> Chars(part[k])]
           t == [k \in DOMAIN more |-> Chars(more[k])]
<1>1. /\ more \in Seq(Piece) /\ DOMAIN more = 1..(Len(part) + 1) /\ Len(part) \in Nat
      /\ DOMAIN part = 1..Len(part)
      /\ more[Len(part) + 1] = piece /\ \A k \in 1..Len(part) : more[k] = part[k]
  OBVIOUS
<1> HIDE DEF more
<1>2. s \in Seq(Seq(Spots)) /\ t \in Seq(Seq(Spots)) /\ Chars(piece) \in Seq(Spots)
  BY <1>1, CharactersType, CharsType
<1>3. t = Append(s, Chars(piece))
  <2>1. Len(s) = Len(part) /\ Len(t) = Len(part) + 1
    BY <1>1
  <2>2. \A k \in 1..Len(part) : t[k] = s[k]
    BY <1>1
  <2>3. t[Len(part) + 1] = Chars(piece)
    BY <1>1
  <2> HIDE DEF s, t
  <2>4. /\ Append(s, Chars(piece)) \in Seq(Seq(Spots))
        /\ Len(Append(s, Chars(piece))) = Len(part) + 1
        /\ \A k \in 1..(Len(part) + 1) : Append(s, Chars(piece))[k] = t[k]
    BY <1>1, <1>2, <2>1, <2>2, <2>3
  <2> QED BY <1>2, <2>1, <2>4, SeqEqual
<1>4. Characters(part) = FlattenSeq(s) /\ Characters(more) = FlattenSeq(t)
  BY <1>1, CharactersType
<1> HIDE DEF s, t
<1> QED BY <1>2, <1>3, <1>4, FlattenAppend DEF more

LEMMA CharactersEmpty == Characters(<< >>) = << >>
<1>1. [k \in DOMAIN << >> |-> Chars(<< >>[k])] = << >>
  OBVIOUS
<1>2. << >> \in Seq(Piece)
  OBVIOUS
<1> QED BY <1>1, <1>2, CharactersType, FlattenEmpty

LEMMA CharactersOne ==
  ASSUME NEW piece \in Piece
  PROVE  Characters(<<piece>>) = Chars(piece)
<1>1. << >> \in Seq(Piece) /\ Append(<< >>, piece) = <<piece>>
  OBVIOUS
<1>2. Characters(<<piece>>) = << >> \o Chars(piece)
  BY <1>1, CharactersAppend, CharactersEmpty
<1> QED BY <1>2, CharsType, ConcatEmptySeq

\* The characters of a list of parts, one part after another.
LEMMA AllOfType ==
  ASSUME NEW parts \in Seq(Seq(Piece))
  PROVE  /\ [p \in DOMAIN parts |-> Characters(parts[p])] \in Seq(Seq(Spots))
         /\ AllOf(parts) \in Seq(Spots)
<1>1. /\ DOMAIN parts = 1..Len(parts) /\ Len(parts) \in Nat
      /\ \A k \in DOMAIN parts : parts[k] \in Seq(Piece)
  OBVIOUS
<1>2. \A k \in DOMAIN parts : Characters(parts[k]) \in Seq(Spots)
  BY <1>1, CharactersType
<1>3. [p \in DOMAIN parts |-> Characters(parts[p])] \in Seq(Seq(Spots))
  BY <1>1, <1>2
<1> QED BY <1>3, FlattenIs DEF AllOf

LEMMA AllOfAppend ==
  ASSUME NEW parts \in Seq(Seq(Piece)), NEW part \in Seq(Piece)
  PROVE  AllOf(Append(parts, part)) = AllOf(parts) \o Characters(part)
<1> DEFINE more == Append(parts, part)
           s == [k \in DOMAIN parts |-> Characters(parts[k])]
           t == [k \in DOMAIN more |-> Characters(more[k])]
<1>1. /\ more \in Seq(Seq(Piece)) /\ DOMAIN more = 1..(Len(parts) + 1) /\ Len(parts) \in Nat
      /\ DOMAIN parts = 1..Len(parts)
      /\ more[Len(parts) + 1] = part /\ \A k \in 1..Len(parts) : more[k] = parts[k]
  OBVIOUS
<1> HIDE DEF more
<1>2. s \in Seq(Seq(Spots)) /\ t \in Seq(Seq(Spots)) /\ Characters(part) \in Seq(Spots)
  BY <1>1, CharactersType, AllOfType
<1>3. t = Append(s, Characters(part))
  <2>1. Len(s) = Len(parts) /\ Len(t) = Len(parts) + 1
    BY <1>1
  <2>2. \A k \in 1..Len(parts) : t[k] = s[k]
    BY <1>1
  <2>3. t[Len(parts) + 1] = Characters(part)
    BY <1>1
  <2> DEFINE c == Characters(part)
             R == Seq(Spots)
  <2>4. s \in Seq(R) /\ t \in Seq(R) /\ c \in R
    BY <1>2
  <2> HIDE DEF s, t, c, R
  <2>5. /\ Append(s, c) \in Seq(R) /\ Len(Append(s, c)) = Len(s) + 1
        /\ \A k \in 1..Len(s) : Append(s, c)[k] = s[k]
        /\ Append(s, c)[Len(s) + 1] = c
    BY <2>4
  <2>6. \A k \in 1..(Len(parts) + 1) : Append(s, c)[k] = t[k]
    <3>1. \A k \in 1..(Len(parts) + 1) : k \in 1..Len(parts) \/ k = Len(parts) + 1
      BY <1>1
    <3> QED BY <2>1, <2>2, <2>3, <2>5, <3>1 DEF c
  <2>7. Append(s, c) = t
    BY <2>1, <2>4, <2>5, <2>6, SeqEqual
  <2> QED BY <2>7 DEF c
<1>4. AllOf(parts) = FlattenSeq(s) /\ AllOf(more) = FlattenSeq(t)
  BY DEF AllOf
<1> HIDE DEF s, t
<1> QED BY <1>2, <1>3, <1>4, FlattenAppend DEF more

LEMMA AllOfEmpty == AllOf(<< >>) = << >>
<1>1. [k \in DOMAIN << >> |-> Characters(<< >>[k])] = << >>
  OBVIOUS
<1> QED BY <1>1, FlattenEmpty DEF AllOf

-----------------------------------------------------------------------------
\* Which texts are kept.
IsTexts(texts) == texts \in Seq(Nat) /\ Len(texts) # 0

SizeAt(texts, f, i) == IF i > Len(texts) THEN 0 ELSE Bullet(texts[i]) + f[i + 1]

LEMMA SizeUnfolds ==
  ASSUME NEW texts, IsTexts(texts)
  PROVE  \A i \in 1..(Len(texts) + 1) :
           SizeFrom(texts)[i] = SizeAt(texts, SizeFrom(texts), i)
<1> DEFINE n == Len(texts)
           step == [p \in (0..n) \X Nat |->
                      IF p[1] = 0 THEN 0 ELSE Bullet(texts[n + 1 - p[1]]) + p[2]]
<1>1. n \in Nat /\ \A i \in 1..n : texts[i] \in Nat
  BY DEF IsTexts
<1>2. step \in [(0..n) \X Nat -> Nat]
  <2>1. ASSUME NEW i \in 0..n, NEW d \in Nat, i # 0
        PROVE  Bullet(texts[n + 1 - i]) + d \in Nat
    <3>1. n + 1 - i \in 1..n
      BY <1>1, <2>1
    <3>2. texts[n + 1 - i] \in Nat
      BY <1>1, <3>1
    <3> QED BY <3>2 DEF Bullet
  <2>2. \A p \in (0..n) \X Nat :
          (IF p[1] = 0 THEN 0 ELSE Bullet(texts[n + 1 - p[1]]) + p[2]) \in Nat
    <3> HIDE DEF n
    <3> QED BY <2>1
  <2> HIDE DEF n
  <2> QED BY <2>2
<1>3. PICK h : Solves(h, 0, n, Nat, 0, step)
  <2>1. 0 \in Int /\ n \in Int /\ 0 \in Nat
    BY <1>1
  <2> HIDE DEF step, n
  <2> QED BY <1>2, <2>1, Recursion
<1>4. h[0] = 0
  <2>1. 0 \in 0..n
    BY <1>1
  <2> HIDE DEF step, n
  <2> QED BY <1>3, <2>1 DEF Solves
<1>5. ASSUME NEW j \in 1..n PROVE h[j] = Bullet(texts[n + 1 - j]) + h[j - 1]
  <2> DEFINE p == <<j, h[j - 1]>>
  <2>1. j \in 0..n /\ j # 0 /\ j - 1 \in 0..n
    BY <1>1
  <2>2. h[j] = step[p]
    <3> HIDE DEF step, n
    <3> QED BY <1>3, <2>1 DEF Solves
  <2>3. h[j - 1] \in Nat
    <3> HIDE DEF step, n
    <3> QED BY <1>3, <2>1 DEF Solves
  <2>4. p \in (0..n) \X Nat /\ p[1] = j /\ p[2] = h[j - 1]
    BY <2>1, <2>3
  <2>5. step[p] = IF p[1] = 0 THEN 0 ELSE Bullet(texts[n + 1 - p[1]]) + p[2]
    <3> HIDE DEF p, n
    <3> QED BY <2>4
  <2> HIDE DEF p, step, n
  <2> QED BY <2>1, <2>2, <2>4, <2>5
<1> HIDE DEF step
<1> DEFINE f == [i \in 1..(n + 1) |-> h[n + 1 - i]]
<1>6. ASSUME NEW i \in 1..(n + 1) PROVE f[i] = SizeAt(texts, f, i)
  <2>1. CASE i = n + 1
    BY <1>1, <1>4, <2>1 DEF SizeAt
  <2>2. CASE i # n + 1
    <3>1. /\ n + 1 - i \in 1..n /\ i + 1 \in 1..(n + 1) /\ ~(i > n)
          /\ n + 1 - (n + 1 - i) = i /\ (n + 1 - i) - 1 = n + 1 - (i + 1)
      BY <1>1, <2>2
    <3>2. h[n + 1 - i] = Bullet(texts[i]) + h[n + 1 - (i + 1)]
      BY <1>5, <3>1
    <3>3. f[i] = h[n + 1 - i] /\ f[i + 1] = h[n + 1 - (i + 1)]
      BY <3>1
    <3> HIDE DEF f
    <3> QED BY <3>1, <3>2, <3>3 DEF SizeAt
  <2> QED BY <2>1, <2>2
<1>7. \E g : g = [i \in 1..(Len(texts) + 1) |-> SizeAt(texts, g, i)]
  <2>1. f = [i \in 1..(Len(texts) + 1) |-> SizeAt(texts, f, i)]
    BY <1>6
  <2> HIDE DEF f
  <2> QED BY <2>1
<1>8. SizeFrom(texts) = CHOOSE g : g = [i \in 1..(Len(texts) + 1) |-> SizeAt(texts, g, i)]
  BY DEF SizeFrom, SizeAt
<1>9. SizeFrom(texts) = [i \in 1..(Len(texts) + 1) |-> SizeAt(texts, SizeFrom(texts), i)]
  BY <1>7, <1>8
<1> QED BY <1>9

LEMMA SizeType ==
  ASSUME NEW texts, IsTexts(texts)
  PROVE  \A i \in 1..(Len(texts) + 1) : SizeFrom(texts)[i] \in Nat
<1> DEFINE n == Len(texts)
           Wrong == {r \in Nat : \E i \in 1..(n + 1) : r = n + 1 - i /\ SizeFrom(texts)[i] \notin Nat}
<1>1. n \in Nat /\ \A i \in 1..n : texts[i] \in Nat
  BY DEF IsTexts
<1>2. Wrong = {}
  <2> SUFFICES ASSUME Wrong # {} PROVE FALSE
    OBVIOUS
  <2>1. PICK r \in Wrong : \A s \in Wrong : r <= s
    <3>1. Wrong \in SUBSET Nat
      OBVIOUS
    <3> HIDE DEF Wrong
    <3> QED BY <3>1, LeastNat
  <2>2. PICK i \in 1..(n + 1) : r = n + 1 - i /\ SizeFrom(texts)[i] \notin Nat
    OBVIOUS
  <2>3. SizeFrom(texts)[i] = SizeAt(texts, SizeFrom(texts), i)
    BY SizeUnfolds
  <2>4. i # n + 1
    BY <1>1, <2>2, <2>3 DEF SizeAt
  <2>5. i \in 1..n /\ i + 1 \in 1..(n + 1) /\ n + 1 - (i + 1) \in Nat /\ ~(r <= n + 1 - (i + 1))
    BY <1>1, <2>2, <2>4
  <2>6. SizeFrom(texts)[i + 1] \in Nat
    <3>1. n + 1 - (i + 1) \notin Wrong
      <4> HIDE DEF Wrong, n
      <4> QED BY <2>1, <2>5
    <3> QED BY <2>5, <3>1
  <2>7. SizeFrom(texts)[i] = Bullet(texts[i]) + SizeFrom(texts)[i + 1]
    BY <1>1, <2>3, <2>5 DEF SizeAt
  <2>8. Bullet(texts[i]) \in Nat
    BY <1>1, <2>5 DEF Bullet
  <2> QED BY <2>2, <2>6, <2>7, <2>8
<1>3. \A i \in 1..(n + 1) : n + 1 - i \in Nat
  BY <1>1
<1> QED BY <1>2, <1>3

\* What is omitted is at the beginning, and no more than it must be.
LEMMA FirstIs ==
  ASSUME NEW texts, IsTexts(texts)
  PROVE  /\ First(texts) \in 1..Len(texts)
         /\ Omitted(texts) = First(texts) - 1
         /\ First(texts) > 1 =>
              /\ SizeFrom(texts)[1] > RoleBudget
              /\ SizeFrom(texts)[First(texts) - 1] > RoleBudget - HeadReserve
         /\ First(texts) < Len(texts) => SizeFrom(texts)[First(texts)] <= RoleBudget
<1> DEFINE n == Len(texts)
           fits == {i \in 1..n : SizeFrom(texts)[i] <= RoleBudget - HeadReserve}
           T == fits \cup {n}
<1>1. n \in Nat \ {0} /\ T \in SUBSET Nat /\ T # {} /\ T \subseteq 1..n
  BY DEF IsTexts
<1>2. RoleBudget \in Nat /\ HeadReserve \in Nat
  BY DigestAssumption
<1>3. \A i \in 1..n : SizeFrom(texts)[i] \in Nat
  BY <1>1, SizeType
<1>4. Omitted(texts) = First(texts) - 1
  BY DEF Omitted
<1>5. CASE SizeFrom(texts)[1] <= RoleBudget
  <2>1. First(texts) = 1
    BY <1>5 DEF First
  <2> QED BY <1>1, <1>4, <1>5, <2>1
<1>6. CASE ~(SizeFrom(texts)[1] <= RoleBudget)
  <2>1. First(texts) = CHOOSE i \in T : \A j \in T : i <= j
    BY <1>6 DEF First
  <2>2. \E i \in T : \A j \in T : i <= j
    <3> HIDE DEF T
    <3> QED BY <1>1, LeastNat
  <2>3. First(texts) \in T /\ \A j \in T : First(texts) <= j
    <3> HIDE DEF T
    <3> QED BY <2>1, <2>2
  <2>4. First(texts) \in 1..n
    BY <1>1, <2>3
  <2>5. ASSUME First(texts) > 1
        PROVE  SizeFrom(texts)[First(texts) - 1] > RoleBudget - HeadReserve
    <3>1. First(texts) - 1 \in 1..n /\ ~(First(texts) <= First(texts) - 1)
      BY <1>1, <2>4, <2>5
    <3>2. First(texts) - 1 \notin T
      BY <2>3, <3>1
    <3>3. ~(SizeFrom(texts)[First(texts) - 1] <= RoleBudget - HeadReserve)
      BY <3>1, <3>2
    <3> QED BY <1>2, <1>3, <3>1, <3>3
  <2>6. ASSUME First(texts) < n PROVE SizeFrom(texts)[First(texts)] <= RoleBudget
    <3>1. First(texts) \in fits
      BY <1>1, <2>3, <2>4, <2>6
    <3> QED BY <1>2, <1>3, <2>4, <3>1
  <2>7. SizeFrom(texts)[1] > RoleBudget
    BY <1>1, <1>2, <1>3, <1>6
  <2> QED BY <1>4, <2>4, <2>5, <2>6, <2>7
<1> QED BY <1>5, <1>6

-----------------------------------------------------------------------------
\* What the loop over the bullets does.

\* The characters of a bullet up to a position.
Begun(i, e) == [c \in 1..e |-> <<i, c>>]

LEMMA BegunType ==
  ASSUME NEW i \in Nat, NEW e \in Nat
  PROVE  Begun(i, e) \in Seq(Spots) /\ Len(Begun(i, e)) = e
<1>1. Begun(i, e) \in [1..e -> Spots]
  BY DEF Begun, Spots
<1> QED BY <1>1

LEMMA BegunGoesOn ==
  ASSUME NEW i \in Nat, NEW d \in Nat, NEW e \in Nat, d <= e,
         NEW piece \in Piece, piece = [text |-> i, from |-> d + 1, to |-> e]
  PROVE  Begun(i, d) \o Chars(piece) = Begun(i, e)
<1>1. piece.text = i /\ piece.from = d + 1 /\ piece.to = e
  OBVIOUS
<1>2. /\ Begun(i, d) \in Seq(Spots) /\ Len(Begun(i, d)) = d
      /\ Begun(i, e) \in Seq(Spots) /\ Len(Begun(i, e)) = e
  BY BegunType
<1>3. Chars(piece) \in Seq(Spots) /\ Len(Chars(piece)) = e - d
  BY <1>1, CharsType
<1>4. /\ Begun(i, d) \o Chars(piece) \in Seq(Spots)
      /\ Len(Begun(i, d) \o Chars(piece)) = e
      /\ \A k \in 1..e : (Begun(i, d) \o Chars(piece))[k] =
           IF k <= d THEN Begun(i, d)[k] ELSE Chars(piece)[k - d]
  BY <1>2, <1>3, ConcatProperties
<1>5. \A k \in 1..d : Begun(i, d)[k] = <<i, k>>
  BY DEF Begun
<1>6. \A k \in 1..e : Begun(i, e)[k] = <<i, k>>
  BY DEF Begun
<1>7. \A c \in 1..(e - d) : Chars(piece)[c] = <<i, d + c>>
  <2>1. Chars(piece) = [c \in 1..(e - d) |-> <<i, d + 1 + c - 1>>]
    <3>1. e - (d + 1) + 1 = e - d
      OBVIOUS
    <3> QED BY <1>1, <3>1 DEF Chars
  <2>2. \A c \in 1..(e - d) : d + 1 + c - 1 = d + c
    OBVIOUS
  <2> QED BY <2>1, <2>2
<1>8. ASSUME NEW k \in 1..e
      PROVE  (Begun(i, d) \o Chars(piece))[k] = Begun(i, e)[k]
  <2>1. CASE k <= d
    <3>1. k \in 1..d
      BY <2>1
    <3>2. (Begun(i, d) \o Chars(piece))[k] = Begun(i, d)[k]
      BY <1>4, <2>1
    <3> QED BY <1>5, <1>6, <3>1, <3>2
  <2>2. CASE ~(k <= d)
    <3>1. k - d \in 1..(e - d) /\ d + (k - d) = k
      BY <2>2
    <3> QED BY <1>4, <1>6, <1>7, <2>2, <3>1
  <2> QED BY <2>1, <2>2
<1> QED BY <1>2, <1>4, <1>8, SeqEqual

\* A bullet is the piece that is all of it.
LEMMA WholeBegun ==
  ASSUME NEW texts, NEW i \in Nat, texts[i] \in Nat
  PROVE  /\ Whole(texts, i) \in Piece
         /\ Chars(Whole(texts, i)) = Begun(i, Bullet(texts[i]))
         /\ Bullet(texts[i]) \in Nat \ {0}
<1>1. Bullet(texts[i]) \in Nat \ {0}
  BY DEF Bullet
<1>2. Whole(texts, i) \in Piece
  BY <1>1 DEF Whole, Piece
<1>3. Begun(i, 0) \o Chars(Whole(texts, i)) = Begun(i, Bullet(texts[i]))
  <2>1. Whole(texts, i) = [text |-> i, from |-> 0 + 1, to |-> Bullet(texts[i])]
    BY DEF Whole
  <2>2. 0 \in Nat /\ Bullet(texts[i]) \in Nat /\ 0 <= Bullet(texts[i])
    BY <1>1
  <2> QED BY <1>2, <2>1, <2>2, BegunGoesOn
<1>4. Begun(i, 0) = << >>
  BY DEF Begun
<1> QED BY <1>1, <1>2, <1>3, <1>4, CharsType, ConcatEmptySeq

\* The number of slices: full ones but for the last.
LEMMA SliceCount ==
  ASSUME NEW length \in Nat \ {0}, NEW limit \in Nat \ {0}
  PROVE  LET count == (length + limit - 1) \div limit IN
         /\ count \in Nat \ {0}
         /\ (count - 1) * limit < length
         /\ length <= count * limit
<1> DEFINE count == (length + limit - 1) \div limit
<1>1. length + limit - 1 \in Nat
  OBVIOUS
<1>2. /\ count \in Nat
      /\ count * limit <= length + limit - 1
      /\ length + limit - 1 < (count + 1) * limit
  BY <1>1
<1> HIDE DEF count
<1>3. (count + 1) * limit = count * limit + limit /\ (count - 1) * limit = count * limit - limit
  BY <1>2
<1>4. count * limit \in Nat
  BY <1>2
<1>5. length <= count * limit /\ count * limit - limit < length
  BY <1>2, <1>3, <1>4
<1>6. count # 0
  BY <1>2, <1>5
<1> QED BY <1>2, <1>3, <1>5, <1>6 DEF count

\* Where a slice ends.
SliceEnd(texts, i, k) ==
  LET length == Bullet(texts[i])
      count  == (length + ChunkLimit - 1) \div ChunkLimit
  IN IF k = count THEN length ELSE k * ChunkLimit

LEMMA SlicesAre ==
  ASSUME NEW texts, NEW i \in Nat, texts[i] \in Nat
  PROVE  LET n == Len(Slices(texts, i)) IN
         /\ n \in Nat \ {0}
         /\ Slices(texts, i) = [k \in 1..n |-> Slices(texts, i)[k]]
         /\ SliceEnd(texts, i, 0) = 0
         /\ SliceEnd(texts, i, n) = Bullet(texts[i])
         /\ \A k \in 1..n :
              /\ SliceEnd(texts, i, k - 1) \in Nat /\ SliceEnd(texts, i, k) \in Nat
              /\ SliceEnd(texts, i, k - 1) < SliceEnd(texts, i, k)
              /\ SliceEnd(texts, i, k) <= SliceEnd(texts, i, k - 1) + ChunkLimit
              /\ Slices(texts, i)[k] = <<[text |-> i, from |-> SliceEnd(texts, i, k - 1) + 1,
                                         to |-> SliceEnd(texts, i, k)]>>
<1> DEFINE length == Bullet(texts[i])
           count  == (length + ChunkLimit - 1) \div ChunkLimit
           s == Slices(texts, i)
           E(k) == SliceEnd(texts, i, k)
<1>1. length \in Nat \ {0} /\ ChunkLimit \in Nat \ {0}
  BY DigestAssumption DEF Bullet
<1>2. count \in Nat \ {0} /\ (count - 1) * ChunkLimit < length /\ length <= count * ChunkLimit
  <2> HIDE DEF length
  <2> QED BY <1>1, SliceCount
<1>3. s = [k \in 1..count |->
             <<[text |-> i, from |-> (k - 1) * ChunkLimit + 1,
                to |-> IF k = count THEN length ELSE k * ChunkLimit]>>]
  BY DEF Slices
<1>4. \A k : E(k) = IF k = count THEN length ELSE k * ChunkLimit
  BY DEF SliceEnd
<1> HIDE DEF length, count, s, E
<1>5. Len(s) = count /\ s = [k \in 1..count |-> s[k]]
  BY <1>2, <1>3
<1>6. E(0) = 0 /\ E(count) = length
  BY <1>1, <1>2, <1>4
<1>7. ASSUME NEW k \in 1..count
      PROVE  /\ E(k - 1) = (k - 1) * ChunkLimit
             /\ E(k - 1) \in Nat /\ E(k) \in Nat
             /\ E(k - 1) < E(k) /\ E(k) <= E(k - 1) + ChunkLimit
             /\ s[k] = <<[text |-> i, from |-> E(k - 1) + 1, to |-> E(k)]>>
  <2>1. k - 1 # count /\ k - 1 \in Nat
    BY <1>2
  <2>2. E(k - 1) = (k - 1) * ChunkLimit
    BY <1>4, <2>1
  <2>3. (k - 1) * ChunkLimit \in Nat /\ k * ChunkLimit \in Nat
    BY <1>1, <2>1
  <2>4. k * ChunkLimit = (k - 1) * ChunkLimit + ChunkLimit
    BY <1>1
  <2>5. CASE k = count
    <3>1. E(k) = length
      BY <1>4, <2>5
    <3> QED BY <1>1, <1>2, <1>3, <2>2, <2>3, <2>4, <2>5, <3>1
  <2>6. CASE k # count
    <3>1. E(k) = k * ChunkLimit
      BY <1>4, <2>6
    <3> QED BY <1>1, <1>3, <2>2, <2>3, <2>4, <2>6, <3>1
  <2> QED BY <2>5, <2>6
<1> QED BY <1>2, <1>5, <1>6, <1>7 DEF s, E, length

\* Slices added one by one to a list of parts.
LEMMA SlicesAdded ==
  ASSUME NEW texts, NEW i \in Nat, texts[i] \in Nat, NEW parts \in Seq(Seq(Piece))
  PROVE  /\ parts \o Slices(texts, i) \in Seq(Seq(Piece))
         /\ AllOf(parts \o Slices(texts, i)) = AllOf(parts) \o Begun(i, Bullet(texts[i]))
<1> DEFINE s == Slices(texts, i)
           n == Len(s)
           E(k) == SliceEnd(texts, i, k)
           piece(k) == [text |-> i, from |-> E(k - 1) + 1, to |-> E(k)]
           T(k) == parts \o [m \in 1..k |-> s[m]]
           Good(k) == /\ T(k) \in Seq(Seq(Piece))
                      /\ AllOf(T(k)) = AllOf(parts) \o Begun(i, E(k))
           Wrong == {k \in 0..n : ~Good(k)}
<1>1. /\ n \in Nat \ {0} /\ s = [k \in 1..n |-> s[k]] /\ E(0) = 0 /\ E(n) = Bullet(texts[i])
      /\ \A k \in 1..n : /\ E(k - 1) \in Nat /\ E(k) \in Nat /\ E(k - 1) < E(k)
                         /\ s[k] = <<piece(k)>>
  BY SlicesAre
<1> HIDE DEF s, E, n
<1>2. ASSUME NEW k \in 1..n PROVE piece(k) \in Piece
  <2>1. E(k - 1) \in Nat /\ E(k) \in Nat /\ E(k - 1) < E(k)
    BY <1>1
  <2> QED BY <2>1 DEF Piece
<1>3. AllOf(parts) \in Seq(Spots)
  BY AllOfType
<1>4. Good(0)
  <2>1. [m \in 1..0 |-> s[m]] = << >> /\ Begun(i, E(0)) = << >>
    BY <1>1 DEF Begun
  <2>2. T(0) = parts
    <3>1. parts \o << >> = parts
      BY ConcatEmptySeq
    <3> QED BY <2>1, <3>1
  <2>3. AllOf(parts) \o << >> = AllOf(parts)
    BY <1>3, ConcatEmptySeq
  <2> HIDE DEF T
  <2> QED BY <2>1, <2>2, <2>3
<1>5. ASSUME NEW k \in 1..n, Good(k - 1) PROVE Good(k)
  <2> DEFINE u == [m \in 1..(k - 1) |-> s[m]]
             v == [m \in 1..k |-> s[m]]
  <2>1. \A m \in 1..n : s[m] \in Seq(Piece)
    <3>1. ASSUME NEW m \in 1..n PROVE s[m] \in Seq(Piece)
      <4>1. piece(m) \in Piece /\ s[m] = <<piece(m)>>
        BY <1>1, <1>2
      <4> HIDE DEF piece
      <4> QED BY <4>1
    <3> QED BY <3>1
  <2>2. k \in Nat /\ k - 1 \in Nat /\ \A m \in 1..k : m \in 1..n
    BY <1>1
  <2>3. u \in Seq(Seq(Piece)) /\ Len(u) = k - 1
    BY <2>1, <2>2
  <2>4. v \in Seq(Seq(Piece)) /\ Len(v) = k
    BY <2>1, <2>2
  <2>5. v = Append(u, s[k])
    <3>1. /\ Append(u, s[k]) \in Seq(Seq(Piece)) /\ Len(Append(u, s[k])) = k
          /\ \A m \in 1..(k - 1) : Append(u, s[k])[m] = u[m]
          /\ Append(u, s[k])[k] = s[k]
      <4>1. s[k] \in Seq(Piece)
        BY <2>1
      <4> HIDE DEF u
      <4> QED BY <2>2, <2>3, <4>1
    <3>2. ASSUME NEW m \in 1..k PROVE v[m] = Append(u, s[k])[m]
      <4>1. CASE m = k
        BY <3>1, <4>1
      <4>2. CASE m # k
        <5>1. m \in 1..(k - 1)
          BY <2>2, <4>2
        <5> QED BY <3>1, <5>1
      <4> QED BY <4>1, <4>2
    <3> HIDE DEF u, v
    <3> QED BY <2>4, <3>1, <3>2, SeqEqual
  <2>6. T(k - 1) = parts \o u /\ T(k) = parts \o v
    OBVIOUS
  <2>7. T(k) = Append(T(k - 1), s[k])
    <3>1. s[k] \in Seq(Piece)
      BY <2>1
    <3> HIDE DEF u, v, T
    <3>2. parts \o Append(u, s[k]) = Append(parts \o u, s[k])
      BY <2>3, <3>1
    <3> QED BY <2>5, <2>6, <3>2
  <2>8. piece(k) \in Piece /\ s[k] = <<piece(k)>> /\ E(k - 1) \in Nat /\ E(k) \in Nat
        /\ E(k - 1) <= E(k)
    BY <1>1, <1>2
  <2>9. T(k - 1) \in Seq(Seq(Piece)) /\ AllOf(T(k - 1)) = AllOf(parts) \o Begun(i, E(k - 1))
    BY <1>5
  <2> HIDE DEF T, u, v
  <2>10. T(k) \in Seq(Seq(Piece))
    <3>1. s[k] \in Seq(Piece)
      BY <2>1
    <3> QED BY <2>7, <2>9, <3>1
  <2>11. AllOf(T(k)) = AllOf(T(k - 1)) \o Chars(piece(k))
    <3>1. s[k] \in Seq(Piece)
      BY <2>1
    <3>2. AllOf(Append(T(k - 1), s[k])) = AllOf(T(k - 1)) \o Characters(s[k])
      BY <2>9, <3>1, AllOfAppend
    <3>3. Characters(s[k]) = Chars(piece(k))
      <4> HIDE DEF piece
      <4> QED BY <2>8, CharactersOne
    <3> QED BY <2>7, <3>2, <3>3
  <2>12. Begun(i, E(k - 1)) \o Chars(piece(k)) = Begun(i, E(k))
    <3>1. piece(k) = [text |-> i, from |-> E(k - 1) + 1, to |-> E(k)]
      OBVIOUS
    <3> HIDE DEF piece
    <3> QED BY <2>8, <3>1, BegunGoesOn
  <2>13. (AllOf(parts) \o Begun(i, E(k - 1))) \o Chars(piece(k))
           = AllOf(parts) \o (Begun(i, E(k - 1)) \o Chars(piece(k)))
    <3>1. Begun(i, E(k - 1)) \in Seq(Spots) /\ Chars(piece(k)) \in Seq(Spots)
      <4> HIDE DEF piece
      <4> QED BY <2>8, BegunType, CharsType
    <3> DEFINE x == AllOf(parts)
               y == Begun(i, E(k - 1))
               z == Chars(piece(k))
    <3>2. x \in Seq(Spots) /\ y \in Seq(Spots) /\ z \in Seq(Spots)
      BY <1>3, <3>1
    <3> HIDE DEF x, y, z
    <3>3. (x \o y) \o z = x \o (y \o z)
      BY <3>2, ConcatAssociative
    <3> QED BY <3>3 DEF x, y, z
  <2> HIDE DEF piece
  <2> QED BY <2>9, <2>10, <2>11, <2>12, <2>13
<1>6. Wrong = {}
  <2> SUFFICES ASSUME Wrong # {} PROVE FALSE
    OBVIOUS
  <2>1. PICK k \in Wrong : \A m \in Wrong : k <= m
    <3>1. Wrong \in SUBSET Nat
      BY <1>1
    <3> HIDE DEF Wrong
    <3> QED BY <3>1, LeastNat
  <2>2. k \in 0..n /\ ~Good(k)
    <3> HIDE DEF Good
    <3> QED OBVIOUS
  <2> HIDE DEF Good
  <2>3. k # 0
    BY <1>4, <2>2
  <2>4. k \in 1..n /\ k - 1 \in 0..n /\ ~(k <= k - 1)
    BY <1>1, <2>2, <2>3
  <2>5. k - 1 \notin Wrong
    <3> HIDE DEF Wrong
    <3> QED BY <2>1, <2>4
  <2>6. Good(k - 1)
    BY <2>4, <2>5
  <2> QED BY <1>5, <2>2, <2>4, <2>6
<1>7. Good(n)
  <2> HIDE DEF Good
  <2> QED BY <1>1, <1>6
<1>8. T(n) = parts \o s
  <2> HIDE DEF Good
  <2> QED BY <1>1
<1> HIDE DEF T
<1>9. T(n) \in Seq(Seq(Piece)) /\ AllOf(T(n)) = AllOf(parts) \o Begun(i, E(n))
  BY <1>7
<1> QED BY <1>1, <1>8, <1>9 DEF s

\* What the kept texts up to one of them have.
KeptTo(texts, i) ==
  FlattenSeq([k \in 1..(i - Omitted(texts)) |->
    [c \in 1..Bullet(texts[Omitted(texts) + k]) |-> <<Omitted(texts) + k, c>>]])

LEMMA KeptStep ==
  ASSUME NEW texts, IsTexts(texts), NEW i \in First(texts)..Len(texts)
  PROVE  KeptTo(texts, i) = KeptTo(texts, i - 1) \o Begun(i, Bullet(texts[i]))
<1> DEFINE o == Omitted(texts)
           n == Len(texts)
           row(k) == Begun(o + k, Bullet(texts[o + k]))
           m == i - o
           s == [k \in 1..(m - 1) |-> row(k)]
           t == [k \in 1..m |-> row(k)]
<1>1. /\ n \in Nat /\ o \in Nat /\ o + 1 = First(texts) /\ i \in Nat /\ i <= n
      /\ m \in Nat \ {0} /\ o + m = i /\ (i - 1) - o = m - 1
      /\ \A k \in 1..m : o + k \in 1..n
  <2>1. First(texts) \in 1..n /\ o = First(texts) - 1 /\ n \in Nat
    BY FirstIs DEF IsTexts
  <2> HIDE DEF o
  <2> QED BY <2>1
<1>2. \A j \in 1..n : texts[j] \in Nat /\ Bullet(texts[j]) \in Nat
  BY DEF IsTexts, Bullet
<1>3. \A k \in 1..m : row(k) \in Seq(Spots)
  <2>1. ASSUME NEW k \in 1..m PROVE row(k) \in Seq(Spots)
    <3>1. o + k \in 1..n
      BY <1>1
    <3> HIDE DEF m
    <3>2. o + k \in Nat /\ Bullet(texts[o + k]) \in Nat
      <4> DEFINE x == o + k
      <4>1. x \in 1..n /\ n \in Nat
        BY <1>1, <3>1
      <4> HIDE DEF x, n
      <4>2. x \in Nat /\ Bullet(texts[x]) \in Nat
        BY <1>2, <4>1
      <4> QED BY <4>2 DEF x
    <3> HIDE DEF o
    <3> QED BY <3>2, BegunType
  <2> QED BY <2>1
<1>4. KeptTo(texts, i) = FlattenSeq(t) /\ KeptTo(texts, i - 1) = FlattenSeq(s)
  <2>1. KeptTo(texts, i) = FlattenSeq(t)
    BY DEF KeptTo, Begun
  <2>2. KeptTo(texts, i - 1) = FlattenSeq([k \in 1..((i - 1) - o) |-> row(k)])
    BY DEF KeptTo, Begun
  <2> HIDE DEF o, row
  <2> QED BY <1>1, <2>1, <2>2
<1> HIDE DEF o, row
<1>5. /\ s \in Seq(Seq(Spots)) /\ Len(s) = m - 1
      /\ t \in Seq(Seq(Spots)) /\ Len(t) = m /\ row(m) \in Seq(Spots)
  <2>1. m - 1 \in Nat /\ \A k \in 1..(m - 1) : k \in 1..m
    BY <1>1
  <2> HIDE DEF m
  <2> QED BY <1>1, <1>3, <2>1
<1>6. t = Append(s, row(m))
  <2>1. \A k \in 1..(m - 1) : t[k] = s[k]
    BY <1>1
  <2>2. t[m] = row(m)
    BY <1>1
  <2> HIDE DEF s, t, m
  <2>3. /\ Append(s, row(m)) \in Seq(Seq(Spots)) /\ Len(Append(s, row(m))) = m
        /\ \A k \in 1..m : Append(s, row(m))[k] = t[k]
    BY <1>1, <1>5, <2>1, <2>2
  <2> QED BY <1>5, <2>3, SeqEqual
<1>7. FlattenSeq(t) = FlattenSeq(s) \o row(m)
  <2> HIDE DEF s, t, m
  <2> QED BY <1>5, <1>6, FlattenAppend
<1>8. row(m) = Begun(i, Bullet(texts[i]))
  BY <1>1 DEF row
<1> QED BY <1>4, <1>7, <1>8

LEMMA KeptNone ==
  ASSUME NEW texts, IsTexts(texts)
  PROVE  KeptTo(texts, First(texts) - 1) = << >>
<1>1. First(texts) - 1 - Omitted(texts) = 0
  BY FirstIs DEF IsTexts
<1>2. [k \in 1..(First(texts) - 1 - Omitted(texts)) |->
        [c \in 1..Bullet(texts[Omitted(texts) + k]) |-> <<Omitted(texts) + k, c>>]] = << >>
  BY <1>1
<1> QED BY <1>2, FlattenEmpty DEF KeptTo

\* States of the loop: what it keeps true of its variables.
Loop == [parts : Seq(Seq(Piece)), current : Seq(Piece), used : Nat]

Short(part) == Len(Characters(part)) + Len(part) - 1 <= ChunkLimit

Sofar(texts, i, st) ==
  /\ st \in Loop
  /\ AllOf(st.parts) \o Characters(st.current) = KeptTo(texts, i)
  /\ \A p \in DOMAIN st.parts : Short(st.parts[p])
  /\ Len(Characters(st.current)) + Len(st.current) = st.used
  /\ st.used <= ChunkLimit + 1

LEMMA FlushedKeeps ==
  ASSUME NEW parts \in Seq(Seq(Piece)), \A p \in DOMAIN parts : Short(parts[p]),
         NEW current \in Seq(Piece), Short(current)
  PROVE  /\ Flushed(parts, current) \in Seq(Seq(Piece))
         /\ AllOf(Flushed(parts, current)) = AllOf(parts) \o Characters(current)
         /\ \A p \in DOMAIN Flushed(parts, current) : Short(Flushed(parts, current)[p])
<1>1. CASE current = << >>
  <2>1. Flushed(parts, current) = parts
    BY <1>1 DEF Flushed
  <2>2. AllOf(parts) \o << >> = AllOf(parts)
    BY AllOfType, ConcatEmptySeq
  <2> QED BY <1>1, <2>1, <2>2, CharactersEmpty
<1>2. CASE current # << >>
  <2>1. Flushed(parts, current) = Append(parts, current)
    BY <1>2 DEF Flushed
  <2>2. AllOf(Append(parts, current)) = AllOf(parts) \o Characters(current)
    BY AllOfAppend
  <2>3. /\ Append(parts, current) \in Seq(Seq(Piece))
        /\ DOMAIN Append(parts, current) = 1..(Len(parts) + 1)
        /\ Append(parts, current)[Len(parts) + 1] = current
        /\ DOMAIN parts = 1..Len(parts) /\ Len(parts) \in Nat
        /\ \A p \in 1..Len(parts) : Append(parts, current)[p] = parts[p]
    OBVIOUS
  <2>4. ASSUME NEW p \in DOMAIN Append(parts, current) PROVE Short(Append(parts, current)[p])
    <3>1. p = Len(parts) + 1 \/ p \in 1..Len(parts)
      BY <2>3
    <3> QED BY <2>3, <3>1
  <2> QED BY <2>1, <2>2, <2>3, <2>4
<1> QED BY <1>1, <1>2

\* What is in hand is no longer than a part.
LEMMA InHandShort ==
  ASSUME NEW texts, NEW i, NEW st, Sofar(texts, i, st)
  PROVE  Short(st.current)
<1>1. st.current \in Seq(Piece) /\ st.used \in Nat /\ ChunkLimit \in Nat
  BY DigestAssumption DEF Sofar, Loop
<1>2. Len(Characters(st.current)) \in Nat /\ Len(st.current) \in Nat
  <2>1. Characters(st.current) \in Seq(Spots)
    BY <1>1, CharactersType
  <2> QED BY <1>1, <2>1
<1>3. /\ Len(Characters(st.current)) + Len(st.current) = st.used
      /\ st.used <= ChunkLimit + 1
  BY DEF Sofar
<1>4. Len(Characters(st.current)) + Len(st.current) - 1 <= ChunkLimit
  <2> DEFINE c == Len(Characters(st.current))
             l == Len(st.current)
             u == st.used
  <2>1. c \in Nat /\ l \in Nat /\ u \in Nat /\ ChunkLimit \in Nat
        /\ c + l = u /\ u <= ChunkLimit + 1
    BY <1>1, <1>2, <1>3
  <2> HIDE DEF c, l, u
  <2>2. c + l - 1 <= ChunkLimit
    BY <2>1
  <2> QED BY <2>2 DEF c, l
<1> QED BY <1>4 DEF Short

\* One round of the loop keeps it.
LEMMA PackedKeeps ==
  ASSUME NEW texts, IsTexts(texts), NEW i \in First(texts)..Len(texts), NEW st,
         Sofar(texts, i - 1, st)
  PROVE  Sofar(texts, i, Packed(texts, i, st))
<1> DEFINE b == Bullet(texts[i])
           W == Whole(texts, i)
           F == Flushed(st.parts, st.current)
           kept == KeptTo(texts, i - 1)
<1>1. i \in Nat /\ i \in 1..Len(texts) /\ texts[i] \in Nat
  BY FirstIs DEF IsTexts
<1>2. /\ st \in Loop /\ st.parts \in Seq(Seq(Piece)) /\ st.current \in Seq(Piece) /\ st.used \in Nat
      /\ \A p \in DOMAIN st.parts : Short(st.parts[p])
      /\ AllOf(st.parts) \o Characters(st.current) = kept
      /\ Len(Characters(st.current)) + Len(st.current) = st.used
  BY DEF Sofar, Loop
<1>3. /\ F \in Seq(Seq(Piece)) /\ AllOf(F) = kept
      /\ \A p \in DOMAIN F : Short(F[p])
  BY <1>2, InHandShort, FlushedKeeps
<1>4. W \in Piece /\ Chars(W) = Begun(i, b) /\ b \in Nat \ {0}
  BY <1>1, WholeBegun
<1>5. KeptTo(texts, i) = kept \o Begun(i, b)
  BY KeptStep
<1>6. Begun(i, b) \in Seq(Spots) /\ Len(Begun(i, b)) = b
  BY <1>1, <1>4, BegunType
<1>7. AllOf(F) \in Seq(Spots) /\ AllOf(st.parts) \in Seq(Spots) /\ Characters(st.current) \in Seq(Spots)
  BY <1>2, <1>3, AllOfType, CharactersType
<1>8. ChunkLimit \in Nat /\ TitleReserve \in Nat
  BY DigestAssumption
<1> HIDE DEF b, W, F, kept
<1>9. CASE b > ChunkLimit
  <2> DEFINE S == Slices(texts, i)
             r == Packed(texts, i, st)
  <2>1. r = [parts |-> F \o S, current |-> << >>, used |-> 0]
    BY <1>9 DEF Packed, b, F
  <2>2. F \o S \in Seq(Seq(Piece)) /\ AllOf(F \o S) = AllOf(F) \o Begun(i, b)
    BY <1>1, <1>3, SlicesAdded DEF b
  <2>3. \A p \in DOMAIN (F \o S) : Short((F \o S)[p])
    <3> DEFINE n == Len(S)
    <3>1. n \in Nat /\ S = [k \in 1..n |-> S[k]]
      BY <1>1, SlicesAre
    <3>2. ASSUME NEW k \in 1..n PROVE Short(S[k])
      <4> DEFINE d == SliceEnd(texts, i, k - 1)
                 e == SliceEnd(texts, i, k)
                 piece == [text |-> i, from |-> d + 1, to |-> e]
      <4>1. d \in Nat /\ e \in Nat /\ d < e /\ e <= d + ChunkLimit /\ S[k] = <<piece>>
        BY <1>1, SlicesAre
      <4> HIDE DEF d, e, S
      <4>2. piece \in Piece
        BY <1>1, <4>1 DEF Piece
      <4>3. Len(Chars(piece)) = e - d
        <5>1. Len(Chars(piece)) = piece.to - piece.from + 1
          <6> HIDE DEF piece
          <6> QED BY <4>2, CharsType
        <5>2. piece.to = e /\ piece.from = d + 1
          OBVIOUS
        <5> QED BY <4>1, <5>1, <5>2
      <4> HIDE DEF piece
      <4>4. Characters(S[k]) = Chars(piece) /\ Len(S[k]) = 1
        BY <4>1, <4>2, CharactersOne
      <4> QED BY <1>8, <4>1, <4>3, <4>4 DEF Short
    <3>3. DOMAIN F = 1..Len(F) /\ Len(F) \in Nat
      BY <1>3
    <3> HIDE DEF S, n
    <3>4. S \in Seq({S[k] : k \in 1..n}) /\ Len(S) = n
      BY <3>1
    <3>5. ASSUME NEW p \in DOMAIN (F \o S) PROVE Short((F \o S)[p])
      <4> DEFINE U == Seq(Piece) \cup {S[k] : k \in 1..n}
      <4>1. F \in Seq(U) /\ S \in Seq(U)
        <5>1. Seq(Piece) \subseteq U /\ {S[k] : k \in 1..n} \subseteq U
          OBVIOUS
        <5> HIDE DEF U
        <5> QED BY <1>3, <3>4, <5>1, SeqMonotonic
      <4> HIDE DEF U
      <4>2. DOMAIN (F \o S) = 1..(Len(F) + n) /\
            \A m \in 1..(Len(F) + n) : (F \o S)[m] = IF m <= Len(F) THEN F[m] ELSE S[m - Len(F)]
        <5>1. DOMAIN (F \o S) = 1..(Len(F) + Len(S)) /\
              \A m \in 1..(Len(F) + Len(S)) :
                 (F \o S)[m] = IF m <= Len(F) THEN F[m] ELSE S[m - Len(F)]
          BY <4>1
        <5>2. Len(S) = n
          BY <3>4
        <5> QED BY <5>1, <5>2
      <4>3. CASE p <= Len(F)
        BY <1>3, <3>3, <4>2, <4>3
      <4>4. CASE ~(p <= Len(F))
        <5>1. p - Len(F) \in 1..n
          BY <3>1, <3>3, <4>2, <4>4
        <5> QED BY <3>2, <4>2, <4>4, <5>1
      <4> QED BY <4>3, <4>4
    <3> QED BY <3>5 DEF S
  <2> HIDE DEF S, r
  <2>4. AllOf(F \o S) \o Characters(<< >>) = KeptTo(texts, i)
    <3>1. AllOf(F) \o Begun(i, b) \in Seq(Spots)
      BY <1>6, <1>7, ConcatProperties
    <3> QED BY <1>3, <1>5, <2>2, <3>1, CharactersEmpty, ConcatEmptySeq
  <2>5. /\ r.parts = F \o S /\ r.current = << >> /\ r.used = 0
        /\ r \in Loop
    BY <2>1, <2>2 DEF Loop
  <2>6. Len(Characters(<< >>)) + Len(<< >>) = 0 /\ 0 <= ChunkLimit + 1
    BY <1>8, CharactersEmpty
  <2> QED BY <2>3, <2>4, <2>5, <2>6 DEF Sofar, r
<1>10. CASE ~(b > ChunkLimit) /\ st.used + b + 1 > ChunkLimit - TitleReserve
  <2> DEFINE r == Packed(texts, i, st)
  <2>1. r = [parts |-> F, current |-> <<W>>, used |-> b + 1]
    BY <1>10 DEF Packed, b, F, W
  <2>2. Characters(<<W>>) = Begun(i, b)
    BY <1>4, CharactersOne
  <2>3. b + 1 \in Nat /\ b + 1 <= ChunkLimit + 1
    BY <1>4, <1>8, <1>10
  <2>4. r \in Loop /\ r.parts = F /\ r.current = <<W>> /\ r.used = b + 1
    BY <1>3, <1>4, <2>1, <2>3 DEF Loop
  <2>5. Len(Characters(<<W>>)) + Len(<<W>>) = b + 1
    BY <1>4, <1>6, <2>2
  <2> HIDE DEF r
  <2> QED BY <1>3, <1>5, <2>2, <2>3, <2>4, <2>5 DEF Sofar, r
<1>11. CASE ~(b > ChunkLimit) /\ ~(st.used + b + 1 > ChunkLimit - TitleReserve)
  <2> DEFINE r == Packed(texts, i, st)
             more == Append(st.current, W)
  <2>1. r = [st EXCEPT !.current = more, !.used = st.used + b + 1]
    BY <1>11 DEF Packed, b, W
  <2>2. more \in Seq(Piece) /\ Len(more) = Len(st.current) + 1 /\ Len(st.current) \in Nat
    BY <1>2, <1>4
  <2>3. Characters(more) = Characters(st.current) \o Begun(i, b)
    BY <1>2, <1>4, CharactersAppend
  <2>4. r \in Loop /\ r.parts = st.parts /\ r.current = more /\ r.used = st.used + b + 1
    <3> HIDE DEF r, more
    <3>1. st.used + b + 1 \in Nat
      BY <1>2, <1>4
    <3> QED BY <1>2, <2>1, <2>2, <3>1 DEF Loop
  <2> HIDE DEF r, more
  <2>5. Len(Characters(more)) = Len(Characters(st.current)) + b /\ Len(Characters(st.current)) \in Nat
    <3>1. Len(Characters(st.current) \o Begun(i, b)) = Len(Characters(st.current)) + Len(Begun(i, b))
      BY <1>6, <1>7, ConcatProperties
    <3>2. Len(Characters(st.current)) \in Nat
      BY <1>7
    <3> QED BY <1>6, <2>3, <3>1, <3>2
  <2>6. Len(Characters(more)) + Len(more) = st.used + b + 1
    <3> DEFINE c  == Len(Characters(st.current))
               cm == Len(Characters(more))
               l  == Len(st.current)
               lm == Len(more)
               u  == st.used
    <3>1. /\ c \in Nat /\ l \in Nat /\ u \in Nat /\ b \in Nat
          /\ c + l = u /\ cm = c + b /\ lm = l + 1
      BY <1>2, <1>4, <2>2, <2>5
    <3> HIDE DEF c, cm, l, lm, u
    <3>2. cm + lm = u + b + 1
      BY <3>1
    <3> QED BY <3>2 DEF cm, lm, u
  <2>7. st.used + b + 1 <= ChunkLimit + 1
    BY <1>2, <1>4, <1>8, <1>11
  <2>8. AllOf(st.parts) \o Characters(more) = KeptTo(texts, i)
    <3> DEFINE x == AllOf(st.parts)
               y == Characters(st.current)
               z == Begun(i, b)
    <3>1. x \in Seq(Spots) /\ y \in Seq(Spots) /\ z \in Seq(Spots)
      BY <1>6, <1>7
    <3> HIDE DEF x, y, z
    <3>2. (x \o y) \o z = x \o (y \o z)
      BY <3>1, ConcatAssociative
    <3> QED BY <1>2, <1>5, <2>3, <3>2 DEF x, y, z
  <2> QED BY <1>2, <2>4, <2>6, <2>7, <2>8 DEF Sofar, r
<1> QED BY <1>9, <1>10, <1>11

-----------------------------------------------------------------------------
\* The loop as a recursion, and what it comes to.
AfterAt(texts, f, i) ==
  IF i < First(texts) THEN [parts |-> << >>, current |-> << >>, used |-> 0]
  ELSE Packed(texts, i, f[i - 1])

After(texts) ==
  CHOOSE f : f = [i \in (First(texts) - 1)..Len(texts) |-> AfterAt(texts, f, i)]

LEMMA PackedType ==
  ASSUME NEW texts, IsTexts(texts), NEW i \in First(texts)..Len(texts), NEW st \in Loop
  PROVE  Packed(texts, i, st) \in Loop
<1>1. i \in Nat /\ i \in 1..Len(texts) /\ texts[i] \in Nat
  BY FirstIs DEF IsTexts
<1>2. st.parts \in Seq(Seq(Piece)) /\ st.current \in Seq(Piece) /\ st.used \in Nat
  BY DEF Loop
<1>3. Whole(texts, i) \in Piece /\ Bullet(texts[i]) \in Nat
  BY <1>1, WholeBegun
<1>4. Flushed(st.parts, st.current) \in Seq(Seq(Piece))
  BY <1>2 DEF Flushed
<1>5. Flushed(st.parts, st.current) \o Slices(texts, i) \in Seq(Seq(Piece))
  BY <1>1, <1>4, SlicesAdded
<1>6. /\ << >> \in Seq(Piece) /\ <<Whole(texts, i)>> \in Seq(Piece)
      /\ Append(st.current, Whole(texts, i)) \in Seq(Piece)
      /\ Bullet(texts[i]) + 1 \in Nat /\ st.used + Bullet(texts[i]) + 1 \in Nat
  BY <1>2, <1>3
<1>7. CASE Bullet(texts[i]) > ChunkLimit
  <2>1. Packed(texts, i, st) =
          [parts |-> Flushed(st.parts, st.current) \o Slices(texts, i),
           current |-> << >>, used |-> 0]
    BY <1>7 DEF Packed
  <2> QED BY <1>5, <1>6, <2>1 DEF Loop
<1>8. CASE /\ ~(Bullet(texts[i]) > ChunkLimit)
           /\ st.used + Bullet(texts[i]) + 1 > ChunkLimit - TitleReserve
  <2>1. Packed(texts, i, st) =
          [parts |-> Flushed(st.parts, st.current),
           current |-> <<Whole(texts, i)>>, used |-> Bullet(texts[i]) + 1]
    BY <1>8 DEF Packed
  <2> QED BY <1>4, <1>6, <2>1 DEF Loop
<1>9. CASE /\ ~(Bullet(texts[i]) > ChunkLimit)
           /\ ~(st.used + Bullet(texts[i]) + 1 > ChunkLimit - TitleReserve)
  <2>1. Packed(texts, i, st) =
          [st EXCEPT !.current = Append(st.current, Whole(texts, i)),
                     !.used = st.used + Bullet(texts[i]) + 1]
    BY <1>9 DEF Packed
  <2> QED BY <1>6, <2>1 DEF Loop
<1> QED BY <1>7, <1>8, <1>9

LEMMA AfterUnfolds ==
  ASSUME NEW texts, IsTexts(texts)
  PROVE  \A i \in (First(texts) - 1)..Len(texts) :
           After(texts)[i] = AfterAt(texts, After(texts), i)
<1> DEFINE a == First(texts) - 1
           n == Len(texts)
           init == [parts |-> << >>, current |-> << >>, used |-> 0]
           step == [p \in (a..n) \X Loop |->
                      IF p[1] = a THEN init ELSE Packed(texts, p[1], p[2])]
<1>1. /\ n \in Nat /\ a \in Nat /\ a < n /\ First(texts) = a + 1
  BY FirstIs DEF IsTexts
<1>2. init \in Loop
  BY DEF Loop
<1> HIDE DEF init
<1>3. step \in [(a..n) \X Loop -> Loop]
  <2>1. ASSUME NEW i \in a..n, NEW st \in Loop, i # a PROVE Packed(texts, i, st) \in Loop
    <3>1. i \in First(texts)..Len(texts)
      BY <1>1, <2>1
    <3> QED BY <3>1, PackedType
  <2>2. \A p \in (a..n) \X Loop :
          (IF p[1] = a THEN init ELSE Packed(texts, p[1], p[2])) \in Loop
    <3> HIDE DEF a, n
    <3> QED BY <1>2, <2>1
  <2> HIDE DEF a, n
  <2> QED BY <2>2
<1>4. PICK f : Solves(f, a, n, Loop, init, step)
  <2>1. a \in Int /\ n \in Int
    BY <1>1
  <2> HIDE DEF step, a, n
  <2> QED BY <1>2, <1>3, <2>1, Recursion
<1>5. /\ f \in [a..n -> Loop]
      /\ \A i \in a..n : f[i] = IF i = a THEN init ELSE step[<<i, f[i - 1]>>]
  <2> HIDE DEF step
  <2> QED BY <1>4 DEF Solves
<1>6. ASSUME NEW i \in a..n PROVE f[i] = AfterAt(texts, f, i)
  <2>1. CASE i = a
    <3>1. i < First(texts)
      BY <1>1, <2>1
    <3> QED BY <1>5, <2>1, <3>1 DEF AfterAt, init
  <2>2. CASE i # a
    <3> DEFINE p == <<i, f[i - 1]>>
    <3>1. i - 1 \in a..n /\ ~(i < First(texts))
      BY <1>1, <2>2
    <3>2. f[i - 1] \in Loop /\ f[i] = step[p]
      <4> HIDE DEF step, a, n
      <4> QED BY <1>5, <2>2, <3>1
    <3>3. p \in (a..n) \X Loop /\ p[1] = i /\ p[2] = f[i - 1]
      <4> HIDE DEF a, n
      <4> QED BY <3>2
    <3>4. step[p] = IF p[1] = a THEN init ELSE Packed(texts, p[1], p[2])
      <4> HIDE DEF p, a, n
      <4> QED BY <3>3
    <3> HIDE DEF p, step, a, n
    <3> QED BY <2>2, <3>1, <3>2, <3>3, <3>4 DEF AfterAt
  <2> QED BY <2>1, <2>2
<1>7. f = [i \in (First(texts) - 1)..Len(texts) |-> AfterAt(texts, f, i)]
  <2> HIDE DEF step, init
  <2> QED BY <1>5, <1>6
<1>8. After(texts) = [i \in (First(texts) - 1)..Len(texts) |-> AfterAt(texts, After(texts), i)]
  BY <1>7 DEF After
<1> QED BY <1>8

LEMMA AfterSofar ==
  ASSUME NEW texts, IsTexts(texts)
  PROVE  \A i \in (First(texts) - 1)..Len(texts) : Sofar(texts, i, After(texts)[i])
<1> DEFINE a == First(texts) - 1
           n == Len(texts)
           Wrong == {i \in a..n : ~Sofar(texts, i, After(texts)[i])}
<1>1. /\ n \in Nat /\ a \in Nat /\ a < n /\ First(texts) = a + 1
  BY FirstIs DEF IsTexts
<1>2. Wrong = {}
  <2> SUFFICES ASSUME Wrong # {} PROVE FALSE
    OBVIOUS
  <2>1. PICK i \in Wrong : \A j \in Wrong : i <= j
    <3>1. Wrong \in SUBSET Nat
      BY <1>1
    <3> HIDE DEF Wrong
    <3> QED BY <3>1, LeastNat
  <2>2. i \in a..n /\ ~Sofar(texts, i, After(texts)[i])
    OBVIOUS
  <2>3. After(texts)[i] = AfterAt(texts, After(texts), i)
    BY <2>2, AfterUnfolds
  <2>4. CASE i = a
    <3> DEFINE st == [parts |-> << >>, current |-> << >>, used |-> 0]
    <3>1. After(texts)[i] = st
      BY <1>1, <2>3, <2>4 DEF AfterAt
    <3>2. st \in Loop /\ st.parts = << >> /\ st.current = << >> /\ st.used = 0
      BY DEF Loop
    <3> HIDE DEF st
    <3>3. KeptTo(texts, i) = << >>
      BY <2>4, KeptNone
    <3>4. << >> \o << >> = << >> /\ Len(<< >>) = 0 /\ DOMAIN << >> = {}
      OBVIOUS
    <3>5. ChunkLimit \in Nat
      BY DigestAssumption
    <3>6. Sofar(texts, i, st)
      BY <3>2, <3>3, <3>4, <3>5, AllOfEmpty, CharactersEmpty DEF Sofar
    <3> QED BY <2>2, <3>1, <3>6
  <2>5. CASE i # a
    <3>1. i - 1 \in a..n /\ i \in First(texts)..Len(texts) /\ ~(i < First(texts)) /\ ~(i <= i - 1)
      BY <1>1, <2>2, <2>5
    <3>2. i - 1 \notin Wrong
      <4> HIDE DEF Wrong
      <4> QED BY <2>1, <3>1
    <3>3. Sofar(texts, i - 1, After(texts)[i - 1])
      BY <3>1, <3>2
    <3>4. Sofar(texts, i, Packed(texts, i, After(texts)[i - 1]))
      BY <3>1, <3>3, PackedKeeps
    <3> QED BY <2>2, <2>3, <3>1, <3>4 DEF AfterAt
  <2> QED BY <2>4, <2>5
<1> QED BY <1>2

\* Nothing of a session is lost or repeated on the way into its parts, however
\* long its texts are and whatever the limits of the digest (chunkDigest).
THEOREM DigestComplete == DigestIsComplete
<1> SUFFICES ASSUME NEW n \in 1..MaxTexts, NEW texts \in [1..n -> 1..MaxLength]
             PROVE  LET parts == ChunkDigest(texts)
                        k     == Omitted(texts)
                    IN
                    /\ FlattenSeq([p \in DOMAIN parts |-> Characters(parts[p])]) = Kept(texts)
                    /\ \A p \in DOMAIN parts :
                         Len(Characters(parts[p])) + Len(parts[p]) - 1 <= ChunkLimit
                    /\ k > 0 => /\ SizeFrom(texts)[1] > RoleBudget
                                /\ SizeFrom(texts)[k] > RoleBudget - HeadReserve
                    /\ k < n - 1 => SizeFrom(texts)[k + 1] <= RoleBudget
  BY DEF DigestIsComplete
<1> DEFINE st == After(texts)[Len(texts)]
           parts == Flushed(st.parts, st.current)
<1>1. n \in Nat \ {0} /\ Len(texts) = n /\ IsTexts(texts)
  BY DEF IsTexts
<1>2. ChunkDigest(texts) = parts
  BY DEF ChunkDigest, After, AfterAt
<1>3. Sofar(texts, Len(texts), st)
  <2>1. Len(texts) \in (First(texts) - 1)..Len(texts)
    BY <1>1, FirstIs
  <2> QED BY <1>1, <2>1, AfterSofar
<1> HIDE DEF st
<1>4. /\ st.parts \in Seq(Seq(Piece)) /\ st.current \in Seq(Piece) /\ Short(st.current)
      /\ \A p \in DOMAIN st.parts : Short(st.parts[p])
      /\ AllOf(st.parts) \o Characters(st.current) = KeptTo(texts, Len(texts))
  BY <1>3, InHandShort DEF Sofar, Loop
<1>5. /\ AllOf(parts) = KeptTo(texts, Len(texts))
      /\ \A p \in DOMAIN parts : Short(parts[p])
  BY <1>4, FlushedKeeps
<1>6. Kept(texts) = KeptTo(texts, Len(texts))
  BY DEF Kept, KeptTo
<1> HIDE DEF parts
<1>7. /\ FlattenSeq([p \in DOMAIN parts |-> Characters(parts[p])]) = Kept(texts)
      /\ \A p \in DOMAIN parts : Len(Characters(parts[p])) + Len(parts[p]) - 1 <= ChunkLimit
  BY <1>5, <1>6 DEF AllOf, Short
<1>8. /\ First(texts) \in 1..n /\ Omitted(texts) = First(texts) - 1
      /\ First(texts) > 1 => /\ SizeFrom(texts)[1] > RoleBudget
                             /\ SizeFrom(texts)[First(texts) - 1] > RoleBudget - HeadReserve
      /\ First(texts) < n => SizeFrom(texts)[First(texts)] <= RoleBudget
  BY <1>1, FirstIs
<1>9. /\ Omitted(texts) > 0 => /\ SizeFrom(texts)[1] > RoleBudget
                               /\ SizeFrom(texts)[Omitted(texts)] > RoleBudget - HeadReserve
      /\ Omitted(texts) < n - 1 => SizeFrom(texts)[Omitted(texts) + 1] <= RoleBudget
  <2>1. /\ Omitted(texts) > 0 => First(texts) > 1
        /\ Omitted(texts) < n - 1 => First(texts) < n
        /\ Omitted(texts) + 1 = First(texts)
    BY <1>1, <1>8
  <2> QED BY <1>8, <2>1
<1> QED BY <1>2, <1>7, <1>9

\* Whenever a hook captures the parts of a session, they are all of its digest.
THEOREM CapturesWhole == HookSpec => []CapturesTheWholeDigest
<1>1. CapturesTheWholeDigest
  BY DigestComplete DEF CapturesTheWholeDigest
<1> QED BY <1>1, PTL

-----------------------------------------------------------------------------
\* The remote MCP adapter (McpAdapter).

Request ==
  [stage     : {"none", "reading", "calling", "answering", "answered"},
   token     : Tokens \cup {"none"},
   scope     : SUBSET Scopes,
   found     : SUBSET Assets,
   verified  : SUBSET Assets,
   delivered : SUBSET Assets,
   code      : Codes]

InProgress == {"reading", "calling", "answering"}

OwnScope(token) == ScopeFromPrincipal(PrincipalOf[token])

(***************************************************************************)
(* The inductive invariant.  A handler has the scope of every caller with  *)
(* its key, since the key is made of the two fields the scope is made of   *)
(* (HandlersSound).  A request under way belongs to a known caller, its    *)
(* history holds what that caller is entitled to now, and what a tool has  *)
(* found was once in that history (Sound).                                 *)
(***************************************************************************)
HandlersSound ==
  \A k \in DOMAIN handlers :
    \A t \in DOMAIN PrincipalOf : Key(PrincipalOf[t]) = k => handlers[k] = OwnScope(t)

Sound(q) ==
  /\ q.stage \in InProgress =>
       /\ q.token \in Tokens /\ Authentic(q.token)
       /\ Entitled(q.token) \subseteq q.verified
  /\ q.stage = "calling" => q.scope = {OwnScope(q.token)}
  /\ q.found \cup q.delivered \subseteq q.verified

HandlersOK == HandlersSound /\ \A k \in DOMAIN handlers : handlers[k] \in Scopes

MInv == McpTypeOK /\ HandlersSound /\ \A r \in Requests : Sound(request[r])

-----------------------------------------------------------------------------
\* What a caller is entitled to are assets.
LEMMA EntitledAreAssets == \A t : Entitled(t) \subseteq Assets
  BY DEF Entitled, Recallable

\* An answered request keeps its history and what was delivered.
LEMMA AnsweredSound ==
  ASSUME NEW q \in Request, NEW code \in Codes, q.delivered \subseteq q.verified
  PROVE  Answered(q, code) \in Request /\ Sound(Answered(q, code))
<1>1. Answered(q, code) \in Request
  BY DEF Answered, Request
<1>2. /\ Answered(q, code).stage = "answered" /\ Answered(q, code).found = {}
      /\ Answered(q, code).verified = q.verified
      /\ Answered(q, code).delivered = q.delivered
  BY DEF Answered, Request
<1> QED BY <1>1, <1>2 DEF Sound, InProgress

\* A step that replaces one request by a sound one keeps the invariant.
LEMMA ReplaceInv ==
  ASSUME MInv, NEW r \in Requests,
         \E q \in Request : Sound(q) /\ Becomes(r, q),
         HandlersOK', UNCHANGED <<status, server>>
  PROVE  MInv'
<1>1. PICK q \in Request : Sound(q) /\ Becomes(r, q)
  OBVIOUS
<1>2. request \in [Requests -> Request]
  BY DEF MInv, McpTypeOK, Request
<1>3. request' \in [Requests -> Request]
  BY <1>1, <1>2 DEF Becomes
<1>4. McpTypeOK'
  BY <1>3 DEF MInv, McpTypeOK, Request, HandlersOK, StatusesOK
<1>5. ASSUME NEW s \in Requests PROVE Sound(request[s])'
  <2>1. Sound(request'[s])
    BY <1>1, <1>2 DEF Becomes, MInv
  <2> QED BY <2>1 DEF Sound, Entitled, Recallable, Authentic, OwnScope, ScopeFromPrincipal
<1> QED BY <1>4, <1>5 DEF MInv, HandlersOK

\* Handlers that stay as they are stay sound.
LEMMA HandlersStay == MInv /\ UNCHANGED handlers => HandlersOK'
  BY DEF MInv, McpTypeOK, HandlersOK, HandlersSound, Key, OwnScope, ScopeFromPrincipal, Scopes

\* The handler of a caller has its scope, found or made.
LEMMA HandlerHasScope ==
  ASSUME MInv, NEW t \in DOMAIN PrincipalOf
  PROVE  /\ ScopeOfHandler(PrincipalOf[t]) = OwnScope(t)
         /\ UseHandler(PrincipalOf[t]) => HandlersOK'
<1>1. ScopeOfHandler(PrincipalOf[t]) = OwnScope(t)
  BY DEF ScopeOfHandler, OwnScope, MInv, HandlersSound
<1>2. ASSUME UseHandler(PrincipalOf[t]) PROVE HandlersOK'
  <2>1. /\ DOMAIN handlers' = {Key(PrincipalOf[t])} \cup DOMAIN handlers
        /\ handlers'[Key(PrincipalOf[t])] = OwnScope(t)
        /\ \A k \in DOMAIN handlers : k # Key(PrincipalOf[t]) => handlers'[k] = handlers[k]
    BY <1>1, <1>2 DEF UseHandler
  <2>2. OwnScope(t) \in Scopes
    BY DEF OwnScope, Scopes
  <2>3. \A u \in DOMAIN PrincipalOf :
          Key(PrincipalOf[u]) = Key(PrincipalOf[t]) => OwnScope(u) = OwnScope(t)
    BY DEF Key, OwnScope, ScopeFromPrincipal
  <2>4. \A k \in DOMAIN handlers' : handlers'[k] \in Scopes
    BY <2>1, <2>2 DEF MInv, McpTypeOK
  <2>5. \A k \in DOMAIN handlers' : \A u \in DOMAIN PrincipalOf :
          Key(PrincipalOf[u]) = k => handlers'[k] = OwnScope(u)
    BY <2>1, <2>3 DEF MInv, HandlersSound
  <2> QED BY <2>4, <2>5 DEF HandlersOK, HandlersSound, Scopes, Key, OwnScope, ScopeFromPrincipal
<1> QED BY <1>1, <1>2

-----------------------------------------------------------------------------
LEMMA McpInitInv == McpInit => MInv
<1> SUFFICES ASSUME McpInit PROVE MInv
  OBVIOUS
<1>1. NoRequest \in Request
  BY DEF NoRequest, Request, Codes
<1>2. McpTypeOK
  BY <1>1 DEF McpInit, McpTypeOK, Request, StatusesOK
<1>3. HandlersSound
  BY DEF McpInit, HandlersSound
<1>4. Sound(NoRequest)
  BY DEF Sound, NoRequest, InProgress
<1> QED BY <1>2, <1>3, <1>4 DEF McpInit, MInv

\* A request that is refused or admitted is known from its head.
LEMMA ReceiveInv ==
  ASSUME MInv, NEW r \in Requests, NEW token \in Tokens, Receive(r, token)
  PROVE  MInv'
<1> DEFINE q == [NoRequest EXCEPT !.token = token, !.verified = Entitled(token)]
<1>1. NoRequest \in Request /\ Entitled(token) \in SUBSET Assets
  BY EntitledAreAssets DEF NoRequest, Request, Codes
<1>2. /\ q \in Request /\ q.token = token /\ q.verified = Entitled(token)
      /\ q.delivered = {} /\ q.found = {}
  BY <1>1 DEF Request, NoRequest
<1>3. \A code \in Codes : Answered(q, code) \in Request /\ Sound(Answered(q, code))
  BY <1>2, AnsweredSound
<1>4. {"unauthorized", "forbidden", "limited", "internal", "notAllowed"} \subseteq Codes
  BY DEF Codes
<1>5. \E p \in Request : Sound(p) /\ Becomes(r, p)
  <2>1. CASE \E code \in Codes : Becomes(r, Answered(q, code))
    BY <2>1, <1>3
  <2>2. CASE Authentic(token) /\ Becomes(r, [q EXCEPT !.stage = "reading"])
    <3> DEFINE p == [q EXCEPT !.stage = "reading"]
    <3> HIDE DEF q
    <3>1. /\ p \in Request /\ p.stage = "reading" /\ p.token = token
          /\ p.verified = Entitled(token) /\ p.delivered = {} /\ p.found = {}
      BY <1>2 DEF Request
    <3>2. Sound(p)
      BY <2>2, <3>1 DEF Sound, InProgress
    <3> QED BY <2>2, <3>1, <3>2
  <2> HIDE DEF q
  <2> QED BY <2>1, <2>2, <1>4 DEF Receive, Denied, q
<1>6. UNCHANGED <<status, server>> /\ UNCHANGED handlers
  BY DEF Receive, Quiet
<1> QED BY <1>5, <1>6, ReplaceInv, HandlersStay

\* A body is read; a tool gets the scope of its caller.
LEMMA DispatchInv ==
  ASSUME MInv, NEW r \in Requests, Dispatch(r)
  PROVE  MInv'
<1> DEFINE q == request[r]
<1>1. q \in Request /\ Sound(q) /\ q.stage = "reading"
  BY DEF MInv, McpTypeOK, Request, Dispatch, At
<1>2. q.token \in DOMAIN PrincipalOf /\ q.delivered \subseteq q.verified
  BY <1>1 DEF Sound, InProgress, Authentic
<1>3. \A code \in Codes : Answered(q, code) \in Request /\ Sound(Answered(q, code))
  BY <1>1, <1>2, AnsweredSound
<1>4. UNCHANGED <<status, server>>
  BY DEF Dispatch, Quiet
<1>5. {"unreadable", "rejected", "ok", "notAllowed"} \subseteq Codes
  BY DEF Codes
<1>6. HandlersOK'
  BY <1>2, HandlersStay, HandlerHasScope DEF Dispatch
<1>7. \E p \in Request : Sound(p) /\ Becomes(r, p)
  <2>1. CASE \E code \in Codes : Becomes(r, Answered(q, code))
    BY <2>1, <1>3
  <2>2. CASE Becomes(r, [q EXCEPT !.stage = "calling",
                                  !.scope = {ScopeOfHandler(PrincipalOf[q.token])}])
    <3>1. ScopeOfHandler(PrincipalOf[q.token]) = OwnScope(q.token)
      BY <1>2, HandlerHasScope
    <3>2. OwnScope(q.token) \in Scopes
      BY <1>2 DEF OwnScope, Scopes
    <3> DEFINE p == [q EXCEPT !.stage = "calling", !.scope = {OwnScope(q.token)}]
    <3> HIDE DEF q
    <3>3. Becomes(r, p)
      BY <2>2, <3>1
    <3>4. /\ p \in Request /\ p.stage = "calling" /\ p.token = q.token
          /\ p.scope = {OwnScope(q.token)} /\ p.verified = q.verified
          /\ p.found = q.found /\ p.delivered = q.delivered
      BY <1>1, <3>2 DEF Request
    <3>5. Sound(p)
      BY <1>1, <3>4 DEF Sound, InProgress
    <3> HIDE DEF p
    <3> QED BY <3>3, <3>4, <3>5
  <2> QED BY <2>1, <2>2, <1>5 DEF Dispatch
<1> QED BY <1>4, <1>6, <1>7, ReplaceInv

\* The tools see what is verified in the scope they are given.
LEMMA MainReadsInv ==
  ASSUME MInv, NEW r \in Requests, MainReads(r)
  PROVE  MInv'
<1> DEFINE q == request[r]
<1>1. q \in Request /\ Sound(q) /\ q.stage = "calling"
  BY DEF MInv, McpTypeOK, Request, MainReads, At
<1>2. PICK tool \in Tools, s \in q.scope : \E found \in SUBSET Visible(tool, s) :
        Becomes(r, [q EXCEPT !.stage = "answering", !.found = found])
  BY DEF MainReads
<1>3. PICK found \in SUBSET Visible(tool, s) :
        Becomes(r, [q EXCEPT !.stage = "answering", !.found = found])
  BY <1>2
<1>4. s = OwnScope(q.token) /\ Authentic(q.token)
  BY <1>1, <1>2 DEF Sound, InProgress
<1>5. found \subseteq Entitled(q.token)
  BY <1>4, <1>3 DEF Visible, Entitled, Recallable, OwnScope
<1>6. found \subseteq q.verified /\ found \in SUBSET Assets
  BY <1>1, <1>5, EntitledAreAssets DEF Sound, InProgress
<1> DEFINE p == [q EXCEPT !.stage = "answering", !.found = found]
<1>7. UNCHANGED <<status, server>> /\ UNCHANGED handlers
  BY DEF MainReads, Quiet
<1> HIDE DEF q
<1>8. /\ p \in Request /\ p.stage = "answering" /\ p.token = q.token /\ p.found = found
      /\ p.verified = q.verified /\ p.delivered = q.delivered
  BY <1>1, <1>6 DEF Request
<1>9. Sound(p)
  BY <1>1, <1>6, <1>8 DEF Sound, InProgress
<1> HIDE DEF p
<1> QED BY <1>3, <1>7, <1>8, <1>9, ReplaceInv, HandlersStay DEF p

\* An answer is handed on, or there is none.
LEMMA EndInv ==
  ASSUME MInv, NEW r \in Requests, Deliver(r) \/ ToolFails(r) \/ HangUp(r)
  PROVE  MInv'
<1> DEFINE q == request[r]
           d == [q EXCEPT !.delivered = q.found]
<1>1. q \in Request /\ Sound(q)
  BY DEF MInv, McpTypeOK, Request
<1>2. q.found \subseteq q.verified /\ q.delivered \subseteq q.verified
  BY <1>1 DEF Sound
<1>3. d \in Request /\ d.delivered \subseteq d.verified
  BY <1>1, <1>2 DEF Request
<1>4. \A code \in Codes : /\ Answered(q, code) \in Request /\ Sound(Answered(q, code))
                          /\ Answered(d, code) \in Request /\ Sound(Answered(d, code))
  BY <1>1, <1>2, <1>3, AnsweredSound
<1>5. {"ok", "toolError", "gone"} \subseteq Codes
  BY DEF Codes
<1>6. \E p \in Request : Sound(p) /\ Becomes(r, p)
  <2>1. CASE Deliver(r)
    <3>1. Becomes(r, Answered(d, "ok"))
      BY <2>1 DEF Deliver
    <3> HIDE DEF d
    <3> QED BY <3>1, <1>4, <1>5
  <2>2. CASE ToolFails(r)
    BY <2>2, <1>4, <1>5 DEF ToolFails
  <2>3. CASE HangUp(r)
    BY <2>3, <1>4, <1>5 DEF HangUp
  <2> QED BY <2>1, <2>2, <2>3
<1>7. UNCHANGED <<status, server>> /\ UNCHANGED handlers
  BY DEF Deliver, ToolFails, HangUp, Quiet
<1> QED BY <1>6, <1>7, ReplaceInv, HandlersStay

\* Assets change, and the history of the requests under way takes note.
LEMMA ChangeInv ==
  ASSUME MInv, NEW a \in Assets, Change(a)
  PROVE  MInv'
<1>1. StatusesOK'
  BY DEF Change, Elsewhere, SetStatus, MInv, McpTypeOK, StatusesOK
<1>2. \A t \in Tokens : Entitlement'[t] = Entitled(t)' /\ Entitled(t)' \subseteq Assets
  BY EntitledAreAssets DEF Entitlement, Entitled, Recallable, Authentic, ScopeFromPrincipal
<1>3. ASSUME NEW r \in Requests PROVE request'[r] \in Request /\ Sound(request[r])'
  <2> DEFINE q == request[r]
  <2>1. q \in Request /\ Sound(q)
    BY DEF MInv, McpTypeOK, Request
  <2>2. CASE q.stage \in InProgress
    <3>1. q.token \in Tokens
      BY <2>1, <2>2 DEF Sound
    <3>2. request'[r] =
            [stage |-> q.stage, token |-> q.token, scope |-> q.scope, found |-> q.found,
             verified |-> q.verified \cup Entitled(q.token)', delivered |-> q.delivered,
             code |-> q.code]
      BY <1>2, <2>1, <2>2, <3>1 DEF Change, InProgress, Request
    <3>3. request'[r] \in Request
      BY <1>2, <2>1, <3>1, <3>2 DEF Request
    <3> QED BY <1>2, <2>1, <3>1, <3>2, <3>3 DEF Sound, InProgress, Authentic, OwnScope
  <2>3. CASE q.stage \notin InProgress
    <3>1. request'[r] = q
      BY <2>3 DEF Change, InProgress
    <3> QED BY <2>1, <2>3, <3>1 DEF Sound, InProgress
  <2> QED BY <2>2, <2>3
<1>4. request' \in [Requests -> Request]
  BY <1>3 DEF Change
<1>5. HandlersOK' /\ server' = server
  BY HandlersStay DEF Change
<1> QED BY <1>1, <1>3, <1>4, <1>5 DEF MInv, McpTypeOK, HandlersOK, Request

\* The server closes: no request is touched.
LEMMA CloseInv ==
  ASSUME MInv, Shutdown \/ Close
  PROVE  MInv'
<1>1. UNCHANGED <<status, request>> /\ server' \in {"up", "closing", "down"}
  BY DEF Shutdown, Close
<1>2. HandlersOK'
  <2>1. CASE Shutdown
    BY <2>1, HandlersStay DEF Shutdown
  <2>2. CASE Close
    BY <2>2 DEF Close, HandlersOK, HandlersSound
  <2> QED BY <2>1, <2>2
<1>3. \A r \in Requests : Sound(request[r])'
  BY <1>1 DEF MInv, Sound, Entitled, Recallable, Authentic, OwnScope, ScopeFromPrincipal
<1> QED BY <1>1, <1>2, <1>3 DEF MInv, McpTypeOK, StatusesOK, HandlersOK

LEMMA McpStepInv == MInv /\ [McpNext]_mcpVars => MInv'
<1> SUFFICES ASSUME MInv, [McpNext]_mcpVars PROVE MInv'
  OBVIOUS
<1>1. CASE UNCHANGED mcpVars
  <2>1. UNCHANGED <<status, request, server>> /\ HandlersOK'
    BY <1>1, HandlersStay DEF mcpVars
  <2>2. \A r \in Requests : Sound(request[r])'
    BY <2>1 DEF MInv, Sound, Entitled, Recallable, Authentic, OwnScope, ScopeFromPrincipal
  <2> QED BY <2>1, <2>2 DEF MInv, McpTypeOK, StatusesOK, HandlersOK
<1>2. CASE McpNext
  BY <1>2, ReceiveInv, DispatchInv, MainReadsInv, EndInv, ChangeInv, CloseInv
     DEF McpNext, Serve
<1> QED BY <1>1, <1>2

-----------------------------------------------------------------------------
\* Requests, handlers and their histories are sound at every moment.
THEOREM AdapterSound == McpSpec => []MInv
  BY McpInitInv, McpStepInv, PTL DEF McpSpec

\* An agent is given nothing but what was verified in its own scope while its
\* request was open, whatever changed meanwhile and whoever the handlers were
\* made for.
THEOREM AnswersVerified == McpSpec => []DeliveredWasVerified
<1>1. MInv => DeliveredWasVerified
  BY DEF MInv, Sound, DeliveredWasVerified
<1> QED BY <1>1, AdapterSound, PTL

=============================================================================
