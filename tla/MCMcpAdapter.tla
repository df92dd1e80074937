---------------------------- MODULE MCMcpAdapter ----------------------------
(***************************************************************************)
(* An instance of McpAdapter for TLC: one user in two teams, a token       *)
(* without the right to read and one that is not known; one asset in each  *)
(* scope.                                                                  *)
(***************************************************************************)
EXTENDS McpAdapter, TLC

CONSTANTS inA, inB

MCPrincipalOf ==
  [tokenA |-> [user |-> "u", team |-> "a", reads |-> TRUE],
   tokenB |-> [user |-> "u", team |-> "b", reads |-> TRUE],
   mute   |-> [user |-> "v", team |-> "a", reads |-> FALSE]]

MCScopeOf ==
  (inA :> [user |-> "u", team |-> "a"]) @@ (inB :> [user |-> "u", team |-> "b"])

=============================================================================
