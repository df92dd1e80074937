---------------------------- MODULE ServedAssets ----------------------------
(***************************************************************************)
(* The main service as the programs beside it see it: memories of some     *)
(* scope, each with a status that any reviewer, sweep or rule may change   *)
(* at any time.  How the service itself comes to change a status is the    *)
(* subject of MemoryGovernance and SkillVersions.                          *)
(***************************************************************************)
EXTENDS Lifecycle

CONSTANTS
  Assets,
  ScopeOf     \* ScopeOf[a]: the scope of an asset

VARIABLES
  status

Absent == "absent"

StatusesOK == status \in [Assets -> Statuses \cup {Absent}]

Exists(a) == status[a] # Absent

\* POST /v1/memories/:id/status: MemoryService.transition refuses an unknown
\* asset and a transition the lifecycle does not have.
Accepts(a, target) == Exists(a) /\ CanTransition(status[a], target)

SetStatus(a, target) == status' = [status EXCEPT ![a] = target]

\* What a recall may return; drafts only on request.
Recallable(s) == {a \in Assets : ScopeOf[a] = s /\ status[a] = "verified"}

\* Someone else changes a status.
Elsewhere(a) ==
  \E target \in Statuses \ {status[a]} : Accepts(a, target) /\ SetStatus(a, target)

=============================================================================
