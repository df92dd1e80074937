--------------------------- MODULE GovernedAssets ---------------------------
(***************************************************************************)
(* What governance promises about assets, whatever service moves them:     *)
(*                                                                         *)
(*   - an asset is born a draft, and publication by the rules (auto) is    *)
(*     open to drafts only;                                                *)
(*   - an asset that was taken out of service comes back only by a human   *)
(*     decision;                                                           *)
(*   - machines, alone, only take assets away: sweeps and propagation      *)
(*     move verified to deprecated and draft to archived;                  *)
(*   - rejected and archived assets are never published again.             *)
(*                                                                         *)
(* MemoryGovernance and SkillVersions are shown to implement this          *)
(* specification.                                                          *)
(***************************************************************************)
EXTENDS Lifecycle

CONSTANT Assets

VARIABLES
  status,     \* status[a] \in Statuses, or "absent" before creation
  publisher   \* who published a last: "none", "auto" or "manual"

vars == <<status, publisher>>

Init ==
  /\ status    = [a \in Assets |-> "absent"]
  /\ publisher = [a \in Assets |-> "none"]

\* A proposal, by a model or by a person, is only ever a draft.
Create(a) ==
  /\ status[a] = "absent"
  /\ status' = [status EXCEPT ![a] = "draft"]
  /\ UNCHANGED publisher

\* A reviewer moves one asset along the lifecycle; publishing it (again)
\* makes the publication a human one.
Review(a, target) ==
  /\ status[a] # "absent"
  /\ CanTransition(status[a], target)
  /\ status' = [status EXCEPT ![a] = target]
  /\ publisher' = IF target = "verified"
                    THEN [publisher EXCEPT ![a] = "manual"] ELSE publisher

\* The deterministic rules publish some drafts.
AutoPublish(S) ==
  /\ \A a \in S : status[a] = "draft"
  /\ status'    = [a \in Assets |-> IF a \in S THEN "verified" ELSE status[a]]
  /\ publisher' = [a \in Assets |-> IF a \in S THEN "auto" ELSE publisher[a]]

\* Sweeps and propagation only take assets out of service.
Withdraw(S, from, to) ==
  /\ <<from, to>> \in {<<"verified", "deprecated">>, <<"draft", "archived">>}
  /\ \A a \in S : status[a] = from
  /\ status' = [a \in Assets |-> IF a \in S THEN to ELSE status[a]]
  /\ UNCHANGED publisher

Next ==
  \/ \E a \in Assets : Create(a)
  \/ \E a \in Assets, target \in Statuses : Review(a, target)
  \/ \E S \in SUBSET Assets :
       \/ AutoPublish(S)
       \/ Withdraw(S, "verified", "deprecated")
       \/ Withdraw(S, "draft", "archived")

Spec == Init /\ [][Next]_vars

=============================================================================
