----------------------------- MODULE Lifecycle -----------------------------
(***************************************************************************)
(* The status lifecycle every governed asset (memory or skill) goes        *)
(* through, as src/governance/lifecycle.ts defines it.  The module has no  *)
(* state: it holds the transition table and the decision of                *)
(* transitionStatus, which the state machines of the project share.        *)
(***************************************************************************)

\* GOVERNED_STATUSES
Statuses == {"draft", "verified", "deprecated", "rejected", "archived"}

\* ALLOWED_TRANSITIONS
AllowedTransitions ==
  [draft      |-> {"verified", "rejected", "archived"},
   verified   |-> {"deprecated", "archived"},
   deprecated |-> {"verified", "archived"},
   rejected   |-> {"archived"},
   archived   |-> {}]

\* transitionStatus(current, target) returns target; otherwise it throws
\* INVALID_TRANSITION and the caller changes nothing.  A transition to the
\* status the asset already has is accepted.
CanTransition(current, target) ==
  \/ current = target
  \/ target \in AllowedTransitions[current]

=============================================================================
