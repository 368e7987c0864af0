----------------------------- MODULE MCFileLock -----------------------------
(* Tool calls on one file: two of one session, one of another and two
   without a session, one of which can be aborted. *)
EXTENDS FileLock

CONSTANTS e1, e2, e3, e4, e5, s1, s2

MCSessionOf ==
    [e \in Edit |-> CASE e \in {e1, e2} -> s1
                      [] e = e3 -> s2
                      [] e \in {e4, e5} -> NoSession]
=============================================================================
