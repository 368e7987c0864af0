-------------------------- MODULE ApprovalVerdict --------------------------
(***************************************************************************)
(* What the approval queues of all bridges together promise, with no        *)
(* queues, no processes and no log: a call gets at most one verdict, and a  *)
(* caller that asked about it hears that verdict, once, or "cancelled"      *)
(* because it gave up itself, or nothing because its process is gone.  Once *)
(* a call's verdict could not be recorded, nothing is promised about it     *)
(* but that its callers are answered at most once.                          *)
(***************************************************************************)
EXTENDS Naturals

CONSTANTS Calls, Callers, Decisions, None

VARIABLES verdict,     \* call -> its verdict, or None
          about,       \* caller -> the call it asked about, or None
          answer,      \* caller -> what it heard, None, or "lost"
          unrecorded   \* calls one of whose verdicts was not recorded

vars == <<verdict, about, answer, unrecorded>>

Init ==
  /\ verdict = [c \in Calls |-> None]
  /\ about = [k \in Callers |-> None]
  /\ answer = [k \in Callers |-> None]
  /\ unrecorded = {}

Open(k) == about[k] # None /\ answer[k] = None

Ask(k, c) ==
  /\ about[k] = None
  /\ about' = [about EXCEPT ![k] = c]
  /\ UNCHANGED <<verdict, answer, unrecorded>>

\* Some of the callers that wait for c hear d, and nobody else hears anything.
Tell(c, d) ==
  \A k \in Callers :
     answer'[k] # answer[k] => Open(k) /\ about[k] = c /\ answer'[k] = d

AnswerShape == answer' \in [Callers -> Decisions \cup {None, "lost"}]

\* The verdict is fixed, or was before, and callers hear it.
Decide(c) ==
  /\ AnswerShape
  /\ verdict[c] # None => verdict' = verdict
  /\ verdict[c] = None => \E d \in Decisions : verdict' = [verdict EXCEPT ![c] = d]
  /\ Tell(c, verdict'[c])
  /\ UNCHANGED <<about, unrecorded>>

\* The verdict takes effect without a record.
DecideUnrecorded(c, d) ==
  /\ AnswerShape
  /\ Tell(c, d)
  /\ unrecorded' = unrecorded \cup {c}
  /\ UNCHANGED <<verdict, about>>

\* A caller gives up on its own.
GiveUp(k) ==
  /\ Open(k)
  /\ answer' = [answer EXCEPT ![k] = "cancelled"]
  /\ UNCHANGED <<verdict, about, unrecorded>>

\* A process exits with the callers it was serving.
Exit ==
  /\ AnswerShape
  /\ \A k \in Callers : answer'[k] # answer[k] => Open(k) /\ answer'[k] = "lost"
  /\ UNCHANGED <<verdict, about, unrecorded>>

Next ==
  \/ \E k \in Callers, c \in Calls : Ask(k, c)
  \/ \E c \in Calls : Decide(c) \/ \E d \in Decisions : DecideUnrecorded(c, d)
  \/ \E k \in Callers : GiveUp(k)
  \/ Exit

Spec == Init /\ [][Next]_vars
=============================================================================
