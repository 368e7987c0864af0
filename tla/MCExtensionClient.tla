------------------------- MODULE MCExtensionClient -------------------------
(* Values of ExtensionClient for TLC. *)
EXTENDS ExtensionClient, TLC

CONSTANTS r1, r2, r3, r4, r5

\* The requests are interchangeable.
Requests == Permutations(Request)
=============================================================================
