----------------------------- MODULE MCGateway -----------------------------
(***************************************************************************)
(* An instance of Gateway for TLC: the local key, the token of a reader    *)
(* for one agent, and one that is revoked; one request fewer than two      *)
(* limits could hold.                                                      *)
(***************************************************************************)
EXTENDS Gateway, TLC

MCLimits == [login |-> 1, loginFailure |-> 1, read |-> 1, write |-> 1]

MCScopes ==
  {[team |-> "a", user |-> "u", agent |-> "x"],
   [team |-> "a", user |-> "u", agent |-> "y"],
   [team |-> "b", user |-> "u", agent |-> "x"]}

MCTokens ==
  [reader  |-> [user |-> "ro", team |-> "a", users |-> All, agents |-> {"x"},
                roles |-> {"reader"}, revoked |-> FALSE],
   revoked |-> [user |-> "ex", team |-> "a", users |-> All, agents |-> All,
                roles |-> {"admin"}, revoked |-> TRUE]]

MCSymmetry == Permutations(Requests)

=============================================================================
