--------------------------- MODULE MCSessionHook ---------------------------
(***************************************************************************)
(* An instance of SessionHook for TLC, with the digests whose parts it     *)
(* captures.                                                               *)
(***************************************************************************)
EXTENDS SessionHook, SessionDigest

\* The parts a hook captures (chunkDigest) are all of the digest,
\* whatever the texts of the session were.
CapturesTheWholeDigest == hook.stage = "capturing" => DigestIsComplete

MCScopeOf == [a \in Assets |-> HookScope]

=============================================================================
