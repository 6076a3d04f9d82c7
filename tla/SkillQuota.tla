----------------------------- MODULE SkillQuota -----------------------------
(***************************************************************************)
(* The mock that comes with a Writing or a Speaking Skill pack             *)
(* (practice/writing_skill_mock.py, practice/speaking_skill_mock.py, and   *)
(* the routers that start an exam).  A start is let through on a read of   *)
(* the quota and of earlier attempts, then finds or inserts its attempt,   *)
(* and then charges the quota; several starts run at once, and each may    *)
(* die between its round trips.  The course is complete and the mock is    *)
(* the allotted one.                                                       *)
(***************************************************************************)
EXTENDS Naturals, FiniteSets

CONSTANTS
  Attempts,   \* ids of mock_attempts and test_attempts rows
  Reqs,       \* starts that overlap
  Granted,    \* user_program_usage.mocks_granted
  MaxFaults,  \* bound: calls without an answer, requests that die
  None

ASSUME QuotaAssumption ==
  /\ Granted \in Nat \ {0} /\ MaxFaults \in Nat
  /\ None \notin Attempts /\ IsFiniteSet(Attempts)

VARIABLES
  pack,    \* the pack the user has bought: it never changes
  used,    \* user_program_usage.mocks_used
  row,     \* row[a]: the attempt, where it was started and in what state it is
  due,     \* attempts to be withdrawn if their start cannot be charged
  req,     \* req[r]: the start r is in the middle of
  faults   \* faults so far

vars == <<pack, used, row, due, req, faults>>

-----------------------------------------------------------------------------
(* Types *)

Packs == {"writing", "speaking"}

(* A whole mock exam, a writing task, the speaking exam, or a reading or   *)
(* listening part.                                                         *)
Doors == {"session", "writing", "speaking", "part"}

Row   == [status : {"in_progress", "completed", "abandoned"}, door : Doors]
NoRow == [status |-> "absent"]

Steps == {"find", "abandon", "insert", "charge", "undo"}
Start == [pc : Steps, door : Doors, force : BOOLEAN, due : BOOLEAN,
          att : Attempts \cup {None}]
Idle  == [pc |-> "idle"]

TypeOK ==
  /\ pack \in Packs
  /\ used \in 0..Granted
  /\ row \in [Attempts -> Row \cup {NoRow}]
  /\ due \subseteq Attempts
  /\ req \in [Reqs -> Start \cup {Idle}]
  /\ faults \in 0..MaxFaults

Init ==
  /\ pack \in Packs
  /\ used = 0
  /\ row = [a \in Attempts |-> NoRow]
  /\ due = {}
  /\ req = [r \in Reqs |-> Idle]
  /\ faults = 0

-----------------------------------------------------------------------------
(* Gates *)

Exists(a) == row[a] # NoRow

(* user_has_attempt_for_mock: in either table, in any state.               *)
Prior == \E a \in Attempts : Exists(a)

Allowed == used < Granted \/ Prior

(* should_consume where the pack has its own gate; a part of the mock of a *)
(* writing pack is charged whenever it is new, and the other doors are not *)
(* charged to a speaking pack.                                             *)
Due(door) ==
  CASE door = "part"     -> pack = "writing"
    [] door = "speaking" -> IF pack = "speaking"
                            THEN used < Granted /\ ~Prior ELSE TRUE
    [] OTHER             -> pack = "writing" /\ used < Granted /\ ~Prior

-----------------------------------------------------------------------------
(* A start *)

At(r, pc)   == req[r].pc = pc
Goto(r, pc) == req' = [req EXCEPT ![r].pc = pc]
GotoAttempt(r, pc, a) == req' = [req EXCEPT ![r].pc = pc, ![r].att = a]
Done(r)     == req' = [req EXCEPT ![r] = Idle]
SetStatus(a, status) == row' = [row EXCEPT ![a].status = status]

Ask_ChargesFirst(r) ==
  /\ At(r, "idle") /\ Allowed
  /\ \E door \in Doors, force \in BOOLEAN :
       /\ used' = IF Due(door) /\ used < Granted THEN used + 1 ELSE used
       /\ req' = [req EXCEPT ![r] = [pc |-> "find", door |-> door,
                    force |-> force, due |-> FALSE, att |-> None]]
  /\ UNCHANGED <<pack, row, due, faults>>

(* assert_*_skill_mock_for_test, and the same test for premium mocks.      *)
Ask(r) ==
  /\ At(r, "idle") /\ Allowed
  /\ \E door \in Doors, force \in BOOLEAN :
       req' = [req EXCEPT ![r] = [pc |-> "find", door |-> door,
                 force |-> force, due |-> Due(door), att |-> None]]
  /\ UNCHANGED <<pack, used, row, due, faults>>

Open(door) == {a \in Attempts : /\ Exists(a) /\ row[a].door = door
                                /\ row[a].status = "in_progress"}

Find_ChargesResumed(r) ==
  /\ At(r, "find")
  /\ \/ Open(req[r].door) = {} /\ Goto(r, "insert")
     \/ \E a \in Open(req[r].door) : GotoAttempt(r, "charge", a)
  /\ UNCHANGED <<pack, used, row, due, faults>>

(* An attempt in progress is resumed, or abandoned if a new one is wanted; *)
(* one of a part or task does not count for another.                       *)
Find(r) ==
  LET door == req[r].door
  IN  /\ At(r, "find")
      /\ \/ /\ Open(door) = {} \/ door \in {"part", "writing"}
            /\ Goto(r, "insert")
         \/ \E a \in Open(door) :
              IF req[r].force THEN GotoAttempt(r, "abandon", a) ELSE Done(r)
      /\ UNCHANGED <<pack, used, row, due, faults>>

Abandon(r) ==
  /\ At(r, "abandon")
  /\ SetStatus(req[r].att, "abandoned")
  /\ GotoAttempt(r, "insert", None)
  /\ UNCHANGED <<pack, used, due, faults>>

(* A start that cannot be charged withdraws its attempt; a speaking exam   *)
(* and a part leave it.                                                    *)
Withdraws(door) == door \in {"session", "writing"}

(* One session and one speaking attempt are in progress at a time; a second*)
(* insert fails.  The ids may be used up: a bound of the model.            *)
Unique(door) == door \in {"session", "speaking"}

Insert(r) ==
  LET door == req[r].door
      fresh == {a \in Attempts : ~Exists(a)}
  IN  /\ At(r, "insert")
      /\ IF fresh = {} \/ (Unique(door) /\ Open(door) # {})
         THEN Done(r) /\ UNCHANGED <<row, due>>
         ELSE \E a \in fresh :
                /\ row' = [row EXCEPT ![a] = [status |-> "in_progress",
                                            door |-> door]]
                /\ IF req[r].due
                   THEN /\ GotoAttempt(r, "charge", a)
                        /\ due' = IF Withdraws(door) THEN due \cup {a} ELSE due
                   ELSE Done(r) /\ UNCHANGED due
      /\ UNCHANGED <<pack, used, faults>>

Refused_Stays(r) == Done(r)

Refused(r) == IF Withdraws(req[r].door) THEN Goto(r, "undo") ELSE Done(r)

(* consume_user_program_mock_quota: one guarded update.                    *)
Consumed == used < Granted /\ used' = used + 1

(* A speaking start of a writing pack is charged as a part is: there is no *)
(* quota of a writing pack for a speaking pack.                            *)
Charge(r) ==
  /\ At(r, "charge")
  /\ \/ Consumed /\ Done(r) /\ due' = due \ {req[r].att}
     \/ used = Granted /\ Refused(r) /\ UNCHANGED <<used, due>>
  /\ UNCHANGED <<pack, row, faults>>

(* A call without an answer may have been performed; it is made again, and *)
(* in the end it raises.                                                   *)
ChargeUnanswered(r) ==
  /\ At(r, "charge")
  /\ faults < MaxFaults /\ faults' = faults + 1
  /\ Consumed \/ UNCHANGED used
  /\ Goto(r, "charge") \/ Refused(r)
  /\ UNCHANGED <<pack, row, due>>

(* abandon_mock_attempt_session looks at the status, abandon_writing_      *)
(* attempt does not.                                                       *)
Undo(r) ==
  LET a == req[r].att
  IN  /\ At(r, "undo")
      /\ IF row[a].status = "in_progress" \/ req[r].door = "writing"
         THEN SetStatus(a, "abandoned") ELSE UNCHANGED row
      /\ Done(r)
      /\ UNCHANGED <<pack, used, due, faults>>

(* The exam is handed in.                                                  *)
Submit(a) ==
  /\ Exists(a) /\ row[a].status = "in_progress"
  /\ SetStatus(a, "completed")
  /\ UNCHANGED <<pack, used, due, req, faults>>

(* The process dies, or another call of the start raises.                  *)
Dies(r) ==
  /\ ~At(r, "idle")
  /\ faults < MaxFaults /\ faults' = faults + 1
  /\ Done(r)
  /\ UNCHANGED <<pack, used, row, due>>

Next ==
  \/ \E r \in Reqs : \/ Ask(r) \/ Find(r) \/ Abandon(r) \/ Insert(r)
                     \/ Charge(r) \/ ChargeUnanswered(r) \/ Undo(r) \/ Dies(r)
  \/ \E a \in Attempts : Submit(a)

Spec == Init /\ [][Next]_vars

-----------------------------------------------------------------------------
(* Properties *)

(* Whoever was charged may start the mock: the quota is never spent before *)
(* there is an attempt, so a start that was cut off, lost its answer or was*)
(* refused can be repeated (assert_*_skill_mock_for_test, `prior').        *)
ChargedCanStart == used > 0 => Prior

(* Every charge is for an attempt that was then new, unless a call was     *)
(* repeated whose answer was lost (maybe_consume_after_new_mock_start).    *)
ChargedForNew ==
  used <= Cardinality({a \in Attempts : Exists(a)}) + faults

(* Of several first starts at once only as many go on as the quota pays    *)
(* for: the others have withdrawn their attempt, or are about to, unless   *)
(* they died (writing/router.py and routers/mock_attempts.py).             *)
UnpaidIsWithdrawn ==
  faults = 0 =>
    \A a \in Attempts :
      /\ a \in due /\ row[a].status = "in_progress"
      => \E r \in Reqs : req[r].pc \in {"charge", "undo"} /\ req[r].att = a
=============================================================================
