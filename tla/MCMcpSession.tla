---------------------------- MODULE MCMcpSession ----------------------------
(* Values of McpSession for TLC. *)
EXTENDS McpSession, TLC

CONSTANTS k1, k2, c1, c2, c3

\* All calls are of k1; two of them carry one id.
MCIdOf == c1 :> 1 @@ c2 :> 1 @@ c3 :> 2
MCClientOf == c1 :> k1 @@ c2 :> k1 @@ c3 :> k1
=============================================================================
