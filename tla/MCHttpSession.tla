---------------------------- MODULE MCHttpSession ----------------------------
(* Values of HttpSession for TLC. *)
EXTENDS HttpSession, TLC

CONSTANTS s1, s2, s3, c1, c2

\* Two calls of one session with one id.
MCIdOf == c1 :> 1 @@ c2 :> 1
MCSessionOf == c1 :> s1 @@ c2 :> s1
=============================================================================
