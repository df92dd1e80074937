------------------------------ MODULE MCSkills ------------------------------
(***************************************************************************)
(* An instance of SkillVersions for TLC, with the diff reviewers are shown *)
(* of two versions.  The titles "A" and "a" are one when normalized, and   *)
(* "B" is another name of the same capability.                             *)
(***************************************************************************)
EXTENDS SkillVersions, SkillDiff

MCTitleOf == ("A" :> "a") @@ ("a" :> "a") @@ ("B" :> "b")

MCCapability ==
  [trigger |-> {"a"}, workflow |-> {"a", "b"}, verification |-> {"b"}, failure |-> {"c"}]

\* As soon as a skill has two versions and a reviewer can ask for what has
\* changed between them (SkillService.diff), the diff shows exactly that,
\* whatever the two texts are.
ReviewShowsTheChange ==
  (\E k \in Skills : \E v, w \in Versions : v # w /\ NoRow \notin {rows[k][v], rows[k][w]})
    => DiffIsExact

=============================================================================
