---------------------------- MODULE ExamSession ----------------------------
(***************************************************************************)
(* What the mock orchestrator promises of the exam sessions of one user on *)
(* one mock test: the units of a session are submitted in exam order, none *)
(* is taken back, and a session is completed only by a user who submitted  *)
(* what completing it requires.  One session is in progress at a time; it  *)
(* may be dropped, and a dropped one may still be completed by the         *)
(* submissions under way.                                                  *)
(***************************************************************************)
CONSTANTS
  Sessions,   \* exam sessions
  Units,      \* what is to be submitted: module parts
  Earlier,    \* Earlier[u]: the units to be submitted before u is opened
  Required    \* the units to be submitted before a session is completed

VARIABLES
  state,      \* state[s]: "absent", "in_progress", "completed", "abandoned"
  submitted   \* submitted[s]: the units of s submitted so far

vars == <<state, submitted>>

Init ==
  /\ state = [s \in Sessions |-> "absent"]
  /\ submitted = [s \in Sessions |-> {}]

Open(s) ==
  /\ state[s] = "absent" /\ \A t \in Sessions : state[t] # "in_progress"
  /\ state' = [state EXCEPT ![s] = "in_progress"]
  /\ UNCHANGED submitted

Submit(s, u) ==
  /\ state[s] # "absent" /\ Earlier[u] \subseteq submitted[s]
  /\ submitted' = [submitted EXCEPT ![s] = @ \cup {u}]
  /\ UNCHANGED state

Complete(s) ==
  /\ state[s] # "absent" /\ Required \subseteq submitted[s]
  /\ state' = [state EXCEPT ![s] = "completed"]
  /\ UNCHANGED submitted

(* The sequential fallback of the abandon RPC drops a completed one, too.  *)
Drop(s) ==
  /\ state[s] # "absent"
  /\ state' = [state EXCEPT ![s] = "abandoned"]
  /\ UNCHANGED submitted

Next == \E s \in Sessions :
          Open(s) \/ (\E u \in Units : Submit(s, u)) \/ Complete(s) \/ Drop(s)

Spec == Init /\ [][Next]_vars
=============================================================================
