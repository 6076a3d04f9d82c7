-------------------------- MODULE SkillQuotaProofs --------------------------
(***************************************************************************)
(* The mock quota of a skill pack, for every number of attempts, of starts *)
(* that overlap, of granted mocks and of faults.                           *)
(***************************************************************************)
EXTENDS SkillQuota, FiniteSetTheorems, TLAPS

(* A start that is about to abandon, charge or withdraw an attempt has one,*)
(* and it was started at the door the start came through.                  *)
Holding(r) == req[r].pc \in {"abandon", "charge", "undo"}
HeldExist ==
  \A r \in Reqs : Holding(r) =>
    /\ req[r].att \in Attempts /\ Exists(req[r].att)
    /\ row[req[r].att].door = req[r].door

(* Only attempts at a door that withdraws them are due.                    *)
DueAtDoor == \A a \in due : Exists(a) /\ Withdraws(row[a].door)

SInv == TypeOK /\ HeldExist /\ DueAtDoor

-----------------------------------------------------------------------------
(* Rows and requests *)

(* What a row that exists looks like.                                      *)
LEMMA RowShape ==
  ASSUME TypeOK, NEW a \in Attempts
  PROVE  Exists(a) <=> row[a] \in Row
<1>1. row[a] \in Row \cup {NoRow} BY DEF TypeOK
<1>2. row[a] \in Row => row[a].status # "absent" BY DEF Row
<1>3. NoRow.status = "absent" BY DEF NoRow
<1>. QED BY <1>1, <1>2, <1>3 DEF Exists

(* A request that is not idle is a start.                                  *)
LEMMA ReqShape ==
  ASSUME TypeOK, NEW r \in Reqs, req[r].pc # "idle"
  PROVE  req[r] \in Start
BY DEF TypeOK, Idle

(* Setting the status of a row that exists keeps its type and its door.    *)
LEMMA StatusTyped ==
  ASSUME TypeOK, NEW a \in Attempts, Exists(a),
         NEW status \in {"completed", "abandoned"}, SetStatus(a, status)
  PROVE  /\ row' \in [Attempts -> Row \cup {NoRow}]
         /\ \A b \in Attempts : /\ Exists(b)' <=> Exists(b)
                                /\ row'[b].door = row[b].door
                                /\ b # a => row'[b] = row[b]
         /\ row'[a].status = status
<1>1. row[a] \in Row BY RowShape
<1>2. /\ row'[a] = [row[a] EXCEPT !.status = status]
      /\ \A b \in Attempts : b # a => row'[b] = row[b]
  BY DEF SetStatus, TypeOK
<1>3. row'[a] \in Row /\ row'[a].status = status /\ row'[a].door = row[a].door
  BY <1>1, <1>2 DEF Row
<1>4. row' \in [Attempts -> Row \cup {NoRow}]
  BY <1>2, <1>3 DEF SetStatus, TypeOK
<1>5. Exists(a)'
  BY <1>3 DEF Exists, Row, NoRow
<1>6. \A b \in Attempts : b # a => (Exists(b)' <=> Exists(b))
  BY <1>2 DEF Exists
<1>. QED BY <1>2, <1>3, <1>4, <1>5, <1>6

(* A new row, as a start inserts it.                                       *)
LEMMA NewRow ==
  ASSUME TypeOK, NEW a \in Attempts, ~Exists(a), NEW x \in Row,
         row' = [row EXCEPT ![a] = x]
  PROVE  /\ row' \in [Attempts -> Row \cup {NoRow}]
         /\ row'[a] = x /\ Exists(a)'
         /\ \A b \in Attempts : b # a => row'[b] = row[b]
<1>1. row'[a] = x /\ \A b \in Attempts : b # a => row'[b] = row[b]
  BY DEF TypeOK
<1>2. row' \in [Attempts -> Row \cup {NoRow}]
  BY DEF TypeOK
<1>3. NoRow.status = "absent" BY DEF NoRow
<1>4. x.status # "absent" BY DEF Row
<1>. QED BY <1>1, <1>2, <1>3, <1>4 DEF Exists

(* How the ways to move a start on change the requests.                    *)
LEMMA DoneMoves ==
  ASSUME TypeOK, NEW r \in Reqs, Done(r)
  PROVE  /\ req' \in [Reqs -> Start \cup {Idle}]
         /\ req'[r].pc = "idle"
         /\ \A s \in Reqs : s # r => req'[s] = req[s]
BY DEF TypeOK, Done, Idle

LEMMA GotoMoves ==
  ASSUME TypeOK, NEW r \in Reqs, req[r].pc # "idle",
         NEW pc \in Steps, Goto(r, pc)
  PROVE  /\ req' \in [Reqs -> Start \cup {Idle}]
         /\ req'[r].pc = pc /\ req'[r].att = req[r].att
         /\ req'[r].door = req[r].door
         /\ \A s \in Reqs : s # r => req'[s] = req[s]
<1>1. req[r] \in Start BY ReqShape
<1>. QED BY <1>1 DEF TypeOK, Goto, Start

LEMMA AttemptMoves ==
  ASSUME TypeOK, NEW r \in Reqs, req[r].pc # "idle",
         NEW pc \in Steps, NEW a \in Attempts \cup {None},
         GotoAttempt(r, pc, a)
  PROVE  /\ req' \in [Reqs -> Start \cup {Idle}]
         /\ req'[r].pc = pc /\ req'[r].att = a
         /\ req'[r].door = req[r].door
         /\ \A s \in Reqs : s # r => req'[s] = req[s]
<1>1. req[r] \in Start BY ReqShape
<1>. QED BY <1>1 DEF TypeOK, GotoAttempt, Start

(* What a refused start does next.                                         *)
LEMMA RefusedMoves ==
  ASSUME TypeOK, NEW r \in Reqs, req[r].pc = "charge", Refused(r)
  PROVE  /\ req' \in [Reqs -> Start \cup {Idle}]
         /\ req'[r].pc \in {"idle", "undo"}
         /\ req'[r].pc = "undo" => req'[r].att = req[r].att
                                   /\ req'[r].door = req[r].door
         /\ Withdraws(req[r].door) => req'[r].pc = "undo"
         /\ \A s \in Reqs : s # r => req'[s] = req[s]
<1>1. CASE Withdraws(req[r].door)
  <2>1. Goto(r, "undo") BY <1>1 DEF Refused
  <2>. QED BY <1>1, <2>1, GotoMoves DEF Steps
<1>2. CASE ~Withdraws(req[r].door)
  <2>1. Done(r) BY <1>2 DEF Refused
  <2>. QED BY <1>2, <2>1, DoneMoves
<1>. QED BY <1>1, <1>2

-----------------------------------------------------------------------------
(* Type correctness and the held rows *)

LEMMA InitSInv == ASSUME QuotaAssumption, Init PROVE SInv
<1>1. TypeOK BY DEF QuotaAssumption, Init, TypeOK, Idle, NoRow
<1>2. \A r \in Reqs : ~Holding(r) BY DEF Init, Holding, Idle
<1>. QED BY <1>1, <1>2 DEF Init, SInv, HeldExist, DueAtDoor

(* Rows are never deleted and keep their door.                             *)
Grows == \A b \in Attempts : Exists(b) => Exists(b)' /\ row'[b].door = row[b].door

(* If one request moves and rows only grow, the others still hold theirs.  *)
LEMMA HeldKept ==
  ASSUME SInv, Grows, NEW r \in Reqs,
         \A s \in Reqs : s # r => req'[s] = req[s],
         Holding(r)' => /\ req'[r].att \in Attempts /\ Exists(req[r].att)'
                        /\ row'[req'[r].att].door = req'[r].door
  PROVE  HeldExist'
<1>1. ASSUME NEW s \in Reqs, s # r, Holding(s)'
      PROVE  /\ req'[s].att \in Attempts /\ Exists(req[s].att)'
             /\ row'[req'[s].att].door = req'[s].door
  <2>1. req'[s] = req[s] /\ Holding(s) BY <1>1 DEF Holding
  <2>. QED BY <2>1 DEF SInv, HeldExist, Grows, Exists
<1>. QED BY <1>1 DEF HeldExist

LEMMA DueKept ==
  ASSUME SInv, Grows, due' \subseteq due
  PROVE  DueAtDoor'
<1>1. ASSUME NEW a \in due' PROVE Exists(a)' /\ Withdraws(row'[a].door)
  <2>1. a \in due /\ a \in Attempts BY <1>1 DEF SInv, TypeOK
  <2>2. Exists(a) /\ Withdraws(row[a].door) BY <2>1 DEF SInv, DueAtDoor
  <2>. QED BY <2>1, <2>2 DEF Grows
<1>. QED BY <1>1 DEF DueAtDoor

(* The requests that touch no row.                                         *)
LEMMA AskKeeps ==
  ASSUME SInv, NEW r \in Reqs, Ask(r) PROVE SInv' /\ Grows
<1>1. PICK door \in Doors, force \in BOOLEAN :
        req' = [req EXCEPT ![r] = [pc |-> "find", door |-> door,
                  force |-> force, due |-> Due(door), att |-> None]]
  BY DEF Ask
<1>2. Due(door) \in BOOLEAN
  BY DEF Due, Doors
<1>3. [pc |-> "find", door |-> door, force |-> force, due |-> Due(door),
       att |-> None] \in Start
  BY <1>2 DEF Start, Steps
<1>4. TypeOK'
  BY <1>1, <1>3 DEF Ask, SInv, TypeOK
<1>5. req'[r].pc = "find" /\ \A s \in Reqs : s # r => req'[s] = req[s]
  BY <1>1 DEF SInv, TypeOK
<1>6. Grows BY DEF Ask, Grows, Exists
<1>7. ~Holding(r)' BY <1>5 DEF Holding
<1>8. HeldExist' BY <1>5, <1>6, <1>7, HeldKept
<1>9. DueAtDoor' BY <1>6, DueKept DEF Ask
<1>. QED BY <1>4, <1>6, <1>8, <1>9 DEF SInv

LEMMA FindKeeps ==
  ASSUME SInv, NEW r \in Reqs, Find(r) PROVE SInv' /\ Grows
<1>1. req[r].pc = "find" BY DEF Find, At
<1>2. TypeOK BY DEF SInv
<1>3. /\ req' \in [Reqs -> Start \cup {Idle}]
      /\ \A s \in Reqs : s # r => req'[s] = req[s]
      /\ \/ req'[r].pc \in {"insert", "idle"}
         \/ /\ req'[r].pc = "abandon" /\ req'[r].att \in Open(req[r].door)
            /\ req'[r].door = req[r].door
  <2>1. CASE Goto(r, "insert")
    BY <1>1, <1>2, <2>1, GotoMoves DEF Steps
  <2>2. CASE Done(r)
    BY <1>2, <2>2, DoneMoves
  <2>3. ASSUME NEW a \in Open(req[r].door), GotoAttempt(r, "abandon", a)
        PROVE  <1>3!1 /\ <1>3!2 /\ <1>3!3
    BY <1>1, <1>2, <2>3, AttemptMoves DEF Open, Steps
  <2>. QED BY <2>1, <2>2, <2>3 DEF Find
<1>4. TypeOK' BY <1>2, <1>3 DEF Find, TypeOK
<1>5. Grows BY DEF Find, Grows, Exists
<1>6. Holding(r)' => /\ req'[r].att \in Attempts /\ Exists(req[r].att)'
                     /\ row'[req'[r].att].door = req'[r].door
  BY <1>3 DEF Holding, Open, Find, Exists
<1>7. HeldExist' BY <1>3, <1>5, <1>6, HeldKept
<1>8. DueAtDoor' BY <1>5, DueKept DEF Find
<1>. QED BY <1>4, <1>5, <1>7, <1>8 DEF SInv

LEMMA DiesKeeps ==
  ASSUME SInv, NEW r \in Reqs, Dies(r), QuotaAssumption PROVE SInv' /\ Grows
<1>1. Grows BY DEF Dies, Grows, Exists
<1>2. TypeOK BY DEF SInv
<1>3. /\ req' \in [Reqs -> Start \cup {Idle}] /\ req'[r].pc = "idle"
      /\ \A s \in Reqs : s # r => req'[s] = req[s]
  BY <1>2, DoneMoves DEF Dies
<1>4. TypeOK' BY <1>2, <1>3 DEF Dies, TypeOK, QuotaAssumption
<1>5. HeldExist' BY <1>1, <1>3, HeldKept DEF Holding
<1>6. DueAtDoor' BY <1>1, DueKept DEF Dies
<1>. QED BY <1>1, <1>4, <1>5, <1>6 DEF SInv

(* The steps that write a row.                                             *)
LEMMA AbandonKeeps ==
  ASSUME SInv, NEW r \in Reqs, Abandon(r) PROVE SInv' /\ Grows
<1>. DEFINE a == req[r].att
<1>1. TypeOK /\ req[r].pc = "abandon" BY DEF SInv, Abandon, At
<1>2. a \in Attempts /\ Exists(a)
  BY <1>1 DEF SInv, HeldExist, Holding
<1>3. /\ row' \in [Attempts -> Row \cup {NoRow}]
      /\ \A b \in Attempts : (Exists(b)' <=> Exists(b)) /\ row'[b].door = row[b].door
  BY <1>1, <1>2, StatusTyped DEF Abandon
<1>4. Grows BY <1>3 DEF Grows
<1>5. /\ req' \in [Reqs -> Start \cup {Idle}] /\ req'[r].pc = "insert"
      /\ \A s \in Reqs : s # r => req'[s] = req[s]
  BY <1>1, AttemptMoves DEF Abandon, Steps
<1>6. TypeOK' BY <1>1, <1>3, <1>5 DEF Abandon, TypeOK
<1>7. HeldExist' BY <1>4, <1>5, HeldKept DEF Holding
<1>8. DueAtDoor' BY <1>4, DueKept DEF Abandon
<1>. QED BY <1>4, <1>6, <1>7, <1>8 DEF SInv

LEMMA UndoKeeps ==
  ASSUME SInv, NEW r \in Reqs, Undo(r) PROVE SInv' /\ Grows
<1>. DEFINE a == req[r].att
<1>1. TypeOK /\ req[r].pc = "undo" BY DEF SInv, Undo, At
<1>2. a \in Attempts /\ Exists(a)
  BY <1>1 DEF SInv, HeldExist, Holding
<1>3. /\ row' \in [Attempts -> Row \cup {NoRow}]
      /\ \A b \in Attempts : Exists(b) => Exists(b)' /\ row'[b].door = row[b].door
  <2>1. CASE SetStatus(a, "abandoned")
    BY <1>1, <1>2, <2>1, StatusTyped
  <2>2. CASE UNCHANGED row
    BY <1>1, <2>2 DEF TypeOK, Exists
  <2>. QED BY <2>1, <2>2 DEF Undo
<1>4. Grows BY <1>3 DEF Grows
<1>5. /\ req' \in [Reqs -> Start \cup {Idle}] /\ req'[r].pc = "idle"
      /\ \A s \in Reqs : s # r => req'[s] = req[s]
  BY <1>1, DoneMoves DEF Undo
<1>6. TypeOK' BY <1>1, <1>3, <1>5 DEF Undo, TypeOK
<1>7. HeldExist' BY <1>4, <1>5, HeldKept DEF Holding
<1>8. DueAtDoor' BY <1>4, DueKept DEF Undo
<1>. QED BY <1>4, <1>6, <1>7, <1>8 DEF SInv

LEMMA SubmitKeeps ==
  ASSUME SInv, NEW a \in Attempts, Submit(a) PROVE SInv' /\ Grows
<1>1. TypeOK /\ Exists(a) BY DEF SInv, Submit
<1>2. /\ row' \in [Attempts -> Row \cup {NoRow}]
      /\ \A b \in Attempts : (Exists(b)' <=> Exists(b)) /\ row'[b].door = row[b].door
  BY <1>1, StatusTyped DEF Submit
<1>3. Grows BY <1>2 DEF Grows
<1>4. TypeOK' BY <1>1, <1>2 DEF Submit, TypeOK
<1>5. HeldExist'
  BY <1>2 DEF SInv, HeldExist, Holding, Submit
<1>6. DueAtDoor' BY <1>3, DueKept DEF Submit
<1>. QED BY <1>3, <1>4, <1>5, <1>6 DEF SInv

(* An insert makes a row at most, for an attempt that was not there.       *)
LEMMA InsertStep ==
  ASSUME SInv, NEW r \in Reqs, Insert(r)
  PROVE  \/ Done(r) /\ UNCHANGED <<row, due>>
         \/ \E a \in Attempts :
              /\ ~Exists(a)
              /\ row' = [row EXCEPT ![a] = [status |-> "in_progress",
                                          door |-> req[r].door]]
              /\ \/ Done(r) /\ UNCHANGED due
                 \/ /\ GotoAttempt(r, "charge", a)
                    /\ due' = IF Withdraws(req[r].door) THEN due \cup {a}
                              ELSE due
BY DEF Insert

LEMMA InsertKeeps ==
  ASSUME SInv, NEW r \in Reqs, Insert(r) PROVE SInv' /\ Grows
<1>1. TypeOK /\ req[r].pc = "insert" BY DEF SInv, Insert, At
<1>2. req[r].door \in Doors BY <1>1, ReqShape DEF Start
<1>3. CASE Done(r) /\ UNCHANGED <<row, due>>
  <2>1. Grows BY <1>3 DEF Grows, Exists
  <2>2. /\ req' \in [Reqs -> Start \cup {Idle}] /\ req'[r].pc = "idle"
        /\ \A s \in Reqs : s # r => req'[s] = req[s]
    BY <1>1, <1>3, DoneMoves
  <2>3. TypeOK' BY <1>1, <1>3, <2>2 DEF Insert, TypeOK
  <2>4. HeldExist' BY <2>1, <2>2, HeldKept DEF Holding
  <2>5. DueAtDoor' BY <1>3, <2>1, DueKept
  <2>. QED BY <2>1, <2>3, <2>4, <2>5 DEF SInv
<1>4. ASSUME NEW a \in Attempts, ~Exists(a),
             row' = [row EXCEPT ![a] = [status |-> "in_progress",
                                        door |-> req[r].door]],
             \/ Done(r) /\ UNCHANGED due
             \/ /\ GotoAttempt(r, "charge", a)
                /\ due' = IF Withdraws(req[r].door) THEN due \cup {a} ELSE due
      PROVE  SInv' /\ Grows
  <2>. DEFINE x == [status |-> "in_progress", door |-> req[r].door]
  <2>1. x \in Row BY <1>2 DEF Row
  <2>2. /\ row' \in [Attempts -> Row \cup {NoRow}] /\ row'[a] = x /\ Exists(a)'
        /\ \A b \in Attempts : b # a => row'[b] = row[b]
    <3>. HIDE DEF x
    <3>. QED BY <1>1, <1>4, <2>1, NewRow DEF x
  <2>3. Grows BY <1>4, <2>2 DEF Grows, Exists
  <2>4. /\ req' \in [Reqs -> Start \cup {Idle}]
        /\ \A s \in Reqs : s # r => req'[s] = req[s]
        /\ \/ req'[r].pc = "idle" /\ due' = due
           \/ /\ req'[r].pc = "charge" /\ req'[r].att = a
              /\ req'[r].door = req[r].door
              /\ due' = IF Withdraws(req[r].door) THEN due \cup {a} ELSE due
    <3>1. CASE Done(r) /\ UNCHANGED due BY <1>1, <3>1, DoneMoves
    <3>2. CASE /\ GotoAttempt(r, "charge", a)
               /\ due' = IF Withdraws(req[r].door) THEN due \cup {a} ELSE due
      BY <1>1, <3>2, AttemptMoves DEF Steps
    <3>. QED BY <1>4, <3>1, <3>2
  <2>5. due' \subseteq due \cup {a} /\ (a \in due' => Withdraws(req[r].door))
    <3>1. a \notin due BY <1>4 DEF SInv, DueAtDoor
    <3>. QED BY <2>4, <3>1
  <2>6. TypeOK'
    <3>1. due' \subseteq Attempts BY <1>1, <2>5 DEF TypeOK
    <3>. QED BY <1>1, <2>2, <2>4, <3>1 DEF Insert, TypeOK
  <2>7. HeldExist'
    <3>1. Holding(r)' => /\ req'[r].att \in Attempts /\ Exists(req[r].att)'
                         /\ row'[req'[r].att].door = req'[r].door
      BY <2>2, <2>4 DEF Holding, Exists
    <3>. QED BY <2>3, <2>4, <3>1, HeldKept
  <2>8. DueAtDoor'
    <3>1. ASSUME NEW b \in due' PROVE Exists(b)' /\ Withdraws(row'[b].door)
      <4>1. CASE b = a BY <4>1, <2>2, <2>5, <3>1
      <4>2. CASE b # a
        <5>1. b \in due /\ b \in Attempts BY <4>2, <2>5, <3>1, <1>1 DEF TypeOK
        <5>. QED BY <5>1, <4>2, <2>2, <2>3 DEF SInv, DueAtDoor, Grows
      <4>. QED BY <4>1, <4>2
    <3>. QED BY <3>1 DEF DueAtDoor
  <2>. QED BY <2>3, <2>6, <2>7, <2>8 DEF SInv
<1>. QED BY <1>3, <1>4, InsertStep

(* How far the quota can move in one step.                                 *)
LEMMA ConsumedTyped ==
  ASSUME QuotaAssumption, TypeOK, Consumed \/ UNCHANGED used
  PROVE  used' \in 0..Granted /\ (used' = used + 1 \/ used' = used)
BY DEF QuotaAssumption, TypeOK, Consumed

LEMMA ChargeKeeps ==
  ASSUME QuotaAssumption, SInv, NEW r \in Reqs,
         Charge(r) \/ ChargeUnanswered(r)
  PROVE  SInv' /\ Grows
<1>1. TypeOK /\ req[r].pc = "charge" BY DEF SInv, Charge, ChargeUnanswered, At
<1>2. req[r].att \in Attempts /\ Exists(req[r].att)
      /\ row[req[r].att].door = req[r].door
  BY <1>1 DEF SInv, HeldExist, Holding
<1>3. row' = row /\ due' \subseteq due /\ pack' = pack
  BY DEF Charge, ChargeUnanswered
<1>4. Grows BY <1>3 DEF Grows, Exists
<1>5. used' \in 0..Granted /\ faults' \in 0..MaxFaults
  <2>1. used' \in 0..Granted
    BY <1>1, ConsumedTyped DEF Charge, ChargeUnanswered
  <2>2. faults' \in 0..MaxFaults
    BY <1>1 DEF Charge, ChargeUnanswered, TypeOK, QuotaAssumption
  <2>. QED BY <2>1, <2>2
<1>6. /\ req' \in [Reqs -> Start \cup {Idle}]
      /\ \A s \in Reqs : s # r => req'[s] = req[s]
      /\ \/ req'[r].pc = "idle"
         \/ req'[r].att = req[r].att /\ req'[r].door = req[r].door
  <2>1. CASE Done(r) BY <1>1, <2>1, DoneMoves
  <2>2. CASE Refused(r) BY <1>1, <2>2, RefusedMoves
  <2>3. CASE Goto(r, "charge") BY <1>1, <2>3, GotoMoves DEF Steps
  <2>. QED BY <2>1, <2>2, <2>3 DEF Charge, ChargeUnanswered
<1>7. TypeOK' BY <1>1, <1>3, <1>5, <1>6 DEF TypeOK
<1>8. Holding(r)' => /\ req'[r].att \in Attempts /\ Exists(req[r].att)'
                     /\ row'[req'[r].att].door = req'[r].door
  BY <1>2, <1>3, <1>6 DEF Holding, Exists
<1>9. HeldExist' BY <1>4, <1>6, <1>8, HeldKept
<1>10. DueAtDoor' BY <1>3, <1>4, DueKept
<1>. QED BY <1>4, <1>7, <1>9, <1>10 DEF SInv

LEMMA NextKeeps ==
  ASSUME QuotaAssumption, SInv, [Next]_vars PROVE SInv' /\ Grows
<1>1. CASE UNCHANGED vars
  BY <1>1 DEF vars, SInv, TypeOK, HeldExist, Holding, DueAtDoor, Grows, Exists
<1>2. ASSUME NEW a \in Attempts, Submit(a) PROVE SInv' /\ Grows
  BY <1>2, SubmitKeeps
<1>3. ASSUME NEW r \in Reqs,
             \/ Ask(r) \/ Find(r) \/ Abandon(r) \/ Insert(r) \/ Charge(r)
             \/ ChargeUnanswered(r) \/ Undo(r) \/ Dies(r)
      PROVE  SInv' /\ Grows
  BY <1>3, AskKeeps, FindKeeps, AbandonKeeps, InsertKeeps, ChargeKeeps,
     UndoKeeps, DiesKeeps
<1>. QED BY <1>1, <1>2, <1>3 DEF Next

(* The quota is never overdrawn, and a start always goes on with an attempt*)
(* of the door it came through (the guarded update of consume_user_program_*)
(* mock_quota).                                                            *)
THEOREM TypeCorrect == ASSUME QuotaAssumption PROVE Spec => []TypeOK
<1>1. Init => SInv BY InitSInv
<1>2. SInv /\ [Next]_vars => SInv' BY NextKeeps
<1>3. SInv => TypeOK BY DEF SInv
<1>. QED BY <1>1, <1>2, <1>3, PTL DEF Spec

-----------------------------------------------------------------------------
(* Charged starts can be repeated *)

(* Only a start that holds an attempt spends the quota.                    *)
LEMMA Spends ==
  ASSUME QuotaAssumption, SInv, [Next]_vars, used' # used
  PROVE  \E r \in Reqs : req[r].pc = "charge" /\ req[r].att \in Attempts
                         /\ Exists(req[r].att)
<1>1. ASSUME NEW a \in Attempts, Submit(a) PROVE used' = used
  BY <1>1 DEF Submit
<1>2. ASSUME NEW r \in Reqs,
             Ask(r) \/ Find(r) \/ Abandon(r) \/ Insert(r) \/ Undo(r) \/ Dies(r)
      PROVE  used' = used
  BY <1>2 DEF Ask, Find, Abandon, Insert, Undo, Dies
<1>3. PICK r \in Reqs : Charge(r) \/ ChargeUnanswered(r)
  BY <1>1, <1>2 DEF Next, vars
<1>4. req[r].pc = "charge" BY <1>3 DEF Charge, ChargeUnanswered, At
<1>. QED BY <1>4 DEF SInv, HeldExist, Holding

(* Whoever was charged may start the mock, whatever starts overlap, fail or*)
(* lose the answer of their charge.                                        *)
THEOREM ChargedCanStartCorrect ==
  ASSUME QuotaAssumption PROVE Spec => []ChargedCanStart
<1>1. Init => SInv /\ ChargedCanStart
  BY InitSInv DEF Init, ChargedCanStart
<1>2. ASSUME SInv, ChargedCanStart, [Next]_vars
      PROVE  SInv' /\ ChargedCanStart'
  <2>1. SInv' /\ Grows BY <1>2, NextKeeps
  <2>2. ASSUME used' > 0 PROVE Prior
    <3>1. CASE used' = used BY <1>2, <2>2, <3>1 DEF ChargedCanStart
    <3>2. CASE used' # used BY <1>2, <3>2, Spends DEF Prior
    <3>. QED BY <3>1, <3>2
  <2>3. Prior => Prior' BY <2>1 DEF Prior, Grows
  <2>. QED BY <2>1, <2>2, <2>3 DEF ChargedCanStart
<1>. QED BY <1>1, <1>2, PTL DEF Spec

-----------------------------------------------------------------------------
(* Unpaid starts are withdrawn *)

Watched(a) ==
  \E r \in Reqs : req[r].pc \in {"charge", "undo"} /\ req[r].att = a

(* A request that did not watch a, or does so still, may move.             *)
LEMMA StillWatched ==
  ASSUME NEW r \in Reqs, \A s \in Reqs : s # r => req'[s] = req[s],
         NEW a \in Attempts, Watched(a),
         \/ req[r].pc \notin {"charge", "undo"} \/ req[r].att # a
         \/ req'[r].pc \in {"charge", "undo"} /\ req'[r].att = req[r].att
  PROVE  Watched(a)'
<1>1. PICK s \in Reqs : req[s].pc \in {"charge", "undo"} /\ req[s].att = a
  BY DEF Watched
<1>2. req'[s].pc \in {"charge", "undo"} /\ req'[s].att = a
  BY <1>1
<1>. QED BY <1>2 DEF Watched

(* A status once final does not go back to in_progress.                    *)
LEMMA StepWithdraws ==
  ASSUME QuotaAssumption, SInv, UnpaidIsWithdrawn, [Next]_vars, faults' = 0,
         NEW a \in Attempts, a \in due', row'[a].status = "in_progress"
  PROVE  Watched(a)'
<1>. USE DEF SInv
<1>0. faults = 0
  <2>1. faults \in Nat /\ faults' \in {faults, faults + 1}
    BY DEF QuotaAssumption, TypeOK, Next, vars, Ask, Find, Abandon, Insert,
           Charge, ChargeUnanswered, Undo, Dies, Submit
  <2>. QED BY <2>1
<1>1. ASSUME a \in due, row[a].status = "in_progress" PROVE Watched(a)
  BY <1>0, <1>1 DEF UnpaidIsWithdrawn, Watched
<1>2. CASE UNCHANGED vars
  BY <1>1, <1>2 DEF vars, Watched
<1>3. ASSUME NEW b \in Attempts, Submit(b) PROVE Watched(a)'
  <2>1. row'[b].status = "completed" /\ (b # a => row'[a] = row[a])
    BY <1>3, StatusTyped DEF Submit
  <2>. QED BY <1>1, <1>3, <2>1 DEF Submit, Watched
<1>4. ASSUME NEW r \in Reqs, Ask(r) \/ Find(r) PROVE Watched(a)'
  <2>1. Watched(a) BY <1>1, <1>4 DEF Ask, Find
  <2>2. req[r].pc \in {"idle", "find"} BY <1>4 DEF Ask, Find, At
  <2>3. \A s \in Reqs : s # r => req'[s] = req[s]
    BY <1>4 DEF Ask, Find, Done, Goto, GotoAttempt, TypeOK
  <2>. QED BY <2>1, <2>2, <2>3, StillWatched
<1>5. ASSUME NEW r \in Reqs, Abandon(r) PROVE Watched(a)'
  <2>1. req[r].pc = "abandon" /\ req[r].att \in Attempts /\ Exists(req[r].att)
    BY <1>5 DEF Abandon, At, HeldExist, Holding
  <2>2. row'[req[r].att].status = "abandoned"
        /\ \A b \in Attempts : b # req[r].att => row'[b] = row[b]
    BY <1>5, <2>1, StatusTyped DEF Abandon
  <2>3. Watched(a) BY <1>1, <1>5, <2>2 DEF Abandon
  <2>4. \A s \in Reqs : s # r => req'[s] = req[s]
    BY <1>5 DEF Abandon, GotoAttempt, TypeOK
  <2>. QED BY <2>1, <2>3, <2>4, StillWatched
<1>6. ASSUME NEW r \in Reqs, Insert(r) PROVE Watched(a)'
  <2>1. req[r].pc = "insert" BY <1>6 DEF Insert, At
  <2>2. \A s \in Reqs : s # r => req'[s] = req[s]
    <3>1. Done(r) \/ \E b \in Attempts : GotoAttempt(r, "charge", b)
      BY <1>6, InsertStep
    <3>. QED BY <2>1, <3>1, DoneMoves, AttemptMoves DEF Steps
  <2>3. CASE Done(r) /\ UNCHANGED <<row, due>>
    BY <1>1, <2>1, <2>2, <2>3, StillWatched
  <2>4. ASSUME NEW b \in Attempts, ~Exists(b),
               row' = [row EXCEPT ![b] = [status |-> "in_progress",
                                          door |-> req[r].door]],
               \/ Done(r) /\ UNCHANGED due
               \/ /\ GotoAttempt(r, "charge", b)
                  /\ due' = IF Withdraws(req[r].door) THEN due \cup {b} ELSE due
        PROVE  Watched(a)'
    <3>1. b \notin due BY <2>4 DEF DueAtDoor
    <3>2. CASE a = b
      <4>1. GotoAttempt(r, "charge", b) BY <2>4, <3>1, <3>2
      <4>2. req'[r].pc = "charge" /\ req'[r].att = b
        BY <2>1, <4>1, AttemptMoves DEF Steps
      <4>. QED BY <3>2, <4>2 DEF Watched
    <3>3. CASE a # b
      <4>1. a \in due /\ row[a] = row'[a] BY <2>4, <3>3 DEF TypeOK
      <4>2. Watched(a) BY <1>1, <4>1
      <4>. QED BY <2>1, <2>2, <4>2, StillWatched
    <3>. QED BY <3>2, <3>3
  <2>. QED BY <1>6, <2>3, <2>4, InsertStep
<1>7. ASSUME NEW r \in Reqs, Charge(r) PROVE Watched(a)'
  <2>1. req[r].pc = "charge" BY <1>7 DEF Charge, At
  <2>2. /\ req[r].att \in Attempts /\ Exists(req[r].att)
        /\ row[req[r].att].door = req[r].door
    BY <2>1 DEF HeldExist, Holding
  <2>3. a \in due /\ Watched(a) BY <1>1, <1>7 DEF Charge
  <2>4. CASE Consumed /\ Done(r) /\ due' = due \ {req[r].att}
    <3>1. \A s \in Reqs : s # r => req'[s] = req[s] BY <2>4, DoneMoves
    <3>2. req[r].att # a BY <2>4
    <3>. QED BY <2>3, <3>1, <3>2, StillWatched
  <2>5. CASE Refused(r)
    <3>1. /\ \A s \in Reqs : s # r => req'[s] = req[s]
          /\ Withdraws(req[r].door) =>
               req'[r].pc = "undo" /\ req'[r].att = req[r].att
      BY <2>1, <2>5, RefusedMoves
    <3>2. CASE Withdraws(req[r].door) BY <2>3, <3>1, <3>2, StillWatched
    <3>3. CASE ~Withdraws(req[r].door)
      <4>1. req[r].att # a BY <2>2, <2>3, <3>3 DEF DueAtDoor
      <4>. QED BY <2>3, <3>1, <4>1, StillWatched
    <3>. QED BY <3>2, <3>3
  <2>. QED BY <1>7, <2>4, <2>5 DEF Charge
<1>8. ASSUME NEW r \in Reqs, Undo(r) PROVE Watched(a)'
  <2>1. req[r].pc = "undo" BY <1>8 DEF Undo, At
  <2>2. req[r].att \in Attempts /\ Exists(req[r].att)
    BY <2>1 DEF HeldExist, Holding
  <2>3. /\ row'[req[r].att].status # "in_progress"
        /\ \A b \in Attempts : b # req[r].att => row'[b] = row[b]
    <3>1. CASE SetStatus(req[r].att, "abandoned")
      BY <2>2, <3>1, StatusTyped
    <3>2. CASE row[req[r].att].status # "in_progress" /\ UNCHANGED row
      BY <3>2
    <3>. QED BY <1>8, <3>1, <3>2 DEF Undo
  <2>4. a # req[r].att /\ Watched(a) BY <1>1, <1>8, <2>3 DEF Undo
  <2>5. \A s \in Reqs : s # r => req'[s] = req[s]
    BY <1>8, DoneMoves DEF Undo
  <2>. QED BY <2>4, <2>5, StillWatched
<1>9. ASSUME NEW r \in Reqs, ChargeUnanswered(r) \/ Dies(r) PROVE FALSE
  BY <1>0, <1>9 DEF ChargeUnanswered, Dies
<1>. QED BY <1>2, <1>3, <1>4, <1>5, <1>6, <1>7, <1>8, <1>9 DEF Next

(* Of any number of first starts at once, only as many go on as the quota  *)
(* pays for.                                                               *)
THEOREM UnpaidIsWithdrawnCorrect ==
  ASSUME QuotaAssumption PROVE Spec => []UnpaidIsWithdrawn
<1>1. Init => SInv /\ UnpaidIsWithdrawn
  BY InitSInv DEF Init, UnpaidIsWithdrawn
<1>2. ASSUME SInv, UnpaidIsWithdrawn, [Next]_vars
      PROVE  SInv' /\ UnpaidIsWithdrawn'
  BY <1>2, NextKeeps, StepWithdraws DEF UnpaidIsWithdrawn, Watched
<1>. QED BY <1>1, <1>2, PTL DEF Spec

-----------------------------------------------------------------------------
(* Every charge is for an attempt that was new *)

(* Two starts never charge the same attempt.                               *)
Charging  == {r \in Reqs : req[r].pc = "charge"}
OwnCharge == \A r, s \in Charging : req[r].att = req[s].att => r = s

(* The attempts that no start has still to charge pay for what was spent.  *)
Existing == {a \in Attempts : Exists(a)}
Pending  == {req[r].att : r \in Charging}
ChargedSoFar == used <= Cardinality(Existing \ Pending) + faults

CInv == SInv /\ OwnCharge /\ ChargedSoFar

(* Cardinalities are numbers, and they grow with the set.                  *)
LEMMA Counting ==
  ASSUME QuotaAssumption, NEW S \in SUBSET Attempts, NEW T \in SUBSET S
  PROVE  /\ Cardinality(S) \in Nat /\ Cardinality(T) \in Nat
         /\ Cardinality(T) <= Cardinality(S)
         /\ \A a \in S \ T : Cardinality(T) + 1 <= Cardinality(S)
<1>1. IsFiniteSet(S) BY FS_Subset DEF QuotaAssumption
<1>2. IsFiniteSet(T) /\ Cardinality(T) <= Cardinality(S) BY <1>1, FS_Subset
<1>3. Cardinality(S) \in Nat /\ Cardinality(T) \in Nat
  BY <1>1, <1>2, FS_CardinalityType
<1>4. ASSUME NEW a \in S \ T PROVE Cardinality(T) + 1 <= Cardinality(S)
  <2>1. T # S BY <1>4
  <2>2. Cardinality(S) # Cardinality(T) BY <1>1, <2>1, FS_Subset
  <2>. QED BY <1>2, <1>3, <2>2
<1>. QED BY <1>2, <1>3, <1>4

(* A bound on what was spent grows with both of its parts.                 *)
LEMMA Monotone ==
  \A u, c, d, f, g \in Nat : u <= c + f /\ c <= d /\ f <= g => u <= d + g
OBVIOUS

(* No start that charges is added, the quota and the faults move together  *)
(* or not at all: nothing is lost.                                         *)
LEMMA FewerPending ==
  ASSUME QuotaAssumption, CInv, NEW r \in Reqs,
         \A s \in Reqs : s # r => req'[s] = req[s],
         \/ req'[r].pc # "charge"
         \/ req[r].pc = "charge" /\ req'[r].att = req[r].att,
         \A b \in Attempts : Exists(b) => Exists(b)',
         used' \in Nat, faults' \in Nat,
         \/ used' = used /\ faults <= faults'
         \/ used' = used + 1 /\ faults' = faults + 1
  PROVE  OwnCharge' /\ ChargedSoFar'
<1>1. Charging' \subseteq Charging /\ \A s \in Charging' : req'[s].att = req[s].att
  BY DEF Charging
<1>2. OwnCharge' BY <1>1 DEF CInv, OwnCharge
<1>3. Pending' \subseteq Pending BY <1>1 DEF Pending
<1>4. Existing \subseteq Existing' BY DEF Existing
<1>5. Existing \ Pending \subseteq Existing' \ Pending' BY <1>3, <1>4
<1>6. Existing' \ Pending' \in SUBSET Attempts BY DEF Existing
<1>7. /\ Cardinality(Existing \ Pending) <= Cardinality(Existing' \ Pending')
      /\ Cardinality(Existing \ Pending) \in Nat
      /\ Cardinality(Existing' \ Pending') \in Nat
  BY <1>5, <1>6, Counting
<1>8. used \in Nat /\ faults \in Nat
      /\ used <= Cardinality(Existing \ Pending) + faults
  BY DEF CInv, SInv, TypeOK, ChargedSoFar, QuotaAssumption
<1>9. used' <= Cardinality(Existing' \ Pending') + faults'
  <2>. DEFINE c == Cardinality(Existing \ Pending)
              d == Cardinality(Existing' \ Pending')
  <2>1. c \in Nat /\ d \in Nat /\ c <= d BY <1>7
  <2>2. used <= c + faults BY <1>8
  <2>. HIDE DEF c, d
  <2>3. ASSUME used' = used /\ faults <= faults' PROVE used' <= d + faults'
    BY <1>8, <2>1, <2>2, <2>3, Monotone
  <2>4. ASSUME used' = used + 1 /\ faults' = faults + 1
        PROVE  used' <= d + faults'
    BY <1>8, <2>1, <2>2, <2>4
  <2>. QED BY <2>3, <2>4 DEF d
<1>. QED BY <1>2, <1>9 DEF ChargedSoFar

(* An attempt that was paid for is no longer pending.                      *)
LEMMA PaidFor ==
  ASSUME QuotaAssumption, CInv, NEW r \in Reqs, req[r].pc = "charge",
         Done(r), UNCHANGED <<row, faults>>, used' = used + 1
  PROVE  OwnCharge' /\ ChargedSoFar'
<1>. DEFINE a == req[r].att
<1>1. /\ req'[r].pc = "idle"
      /\ \A s \in Reqs : s # r => req'[s] = req[s]
  BY DoneMoves DEF CInv, SInv
<1>2. a \in Existing BY DEF CInv, SInv, HeldExist, Holding, Existing
<1>3. Charging' = Charging \ {r} /\ r \in Charging BY <1>1 DEF Charging
<1>4. \A s \in Charging' : req'[s].att = req[s].att
  <2>1. \A s \in Charging' : s \in Reqs /\ s # r BY <1>3 DEF Charging
  <2>. QED BY <1>1, <2>1
<1>5. OwnCharge' BY <1>3, <1>4 DEF CInv, OwnCharge
<1>6. Existing' = Existing BY DEF Existing, Exists
<1>7. Pending' \subseteq Pending BY <1>3, <1>4 DEF Pending
<1>8. a \in Pending /\ a \notin Pending'
  BY <1>3, <1>4 DEF Pending, CInv, OwnCharge
<1>9. /\ Existing \ Pending \subseteq Existing' \ Pending'
      /\ a \in (Existing' \ Pending') \ (Existing \ Pending)
  BY <1>2, <1>6, <1>7, <1>8
<1>10. Existing' \ Pending' \in SUBSET Attempts BY <1>6 DEF Existing
<1>11. /\ Cardinality(Existing \ Pending) + 1 <= Cardinality(Existing' \ Pending')
       /\ Cardinality(Existing \ Pending) \in Nat
       /\ Cardinality(Existing' \ Pending') \in Nat
  BY <1>9, <1>10, Counting
<1>12. used \in Nat /\ faults \in Nat
       /\ used <= Cardinality(Existing \ Pending) + faults
  BY DEF CInv, SInv, TypeOK, ChargedSoFar, QuotaAssumption
<1>13. used' <= Cardinality(Existing' \ Pending') + faults'
  BY <1>11, <1>12
<1>. QED BY <1>5, <1>13 DEF ChargedSoFar

(* A new attempt that is to be charged is pending, the others are as before*)
LEMMA NewPending ==
  ASSUME QuotaAssumption, CInv, NEW r \in Reqs, req[r].pc = "insert",
         NEW a \in Attempts, ~Exists(a), Exists(a)',
         \A b \in Attempts : b # a => row'[b] = row[b],
         GotoAttempt(r, "charge", a), UNCHANGED <<used, faults>>
  PROVE  OwnCharge' /\ ChargedSoFar'
<1>1. /\ req'[r].pc = "charge" /\ req'[r].att = a
      /\ \A s \in Reqs : s # r => req'[s] = req[s]
  BY AttemptMoves DEF CInv, SInv, Steps
<1>2. Charging' = Charging \cup {r} /\ r \notin Charging BY <1>1 DEF Charging
<1>3. \A s \in Charging : req'[s].att = req[s].att /\ req[s].att # a
  <2>1. \A s \in Charging : Exists(req[s].att)
    BY DEF CInv, SInv, HeldExist, Holding, Charging
  <2>. QED BY <1>1, <1>2, <2>1 DEF Charging
<1>4. OwnCharge' BY <1>1, <1>2, <1>3 DEF CInv, OwnCharge
<1>5. Existing' = Existing \cup {a} BY DEF Existing, Exists
<1>6. Pending' = Pending \cup {a} BY <1>1, <1>2, <1>3 DEF Pending
<1>7. a \notin Existing BY DEF Existing
<1>8. Existing' \ Pending' = Existing \ Pending BY <1>5, <1>6, <1>7
<1>. QED BY <1>4, <1>8 DEF CInv, ChargedSoFar

LEMMA StepCharges ==
  ASSUME QuotaAssumption, CInv, [Next]_vars PROVE CInv'
<1>1. SInv' /\ Grows BY NextKeeps DEF CInv
<1>2. /\ TypeOK /\ used \in Nat /\ faults \in Nat
      /\ used' \in Nat /\ faults' \in Nat
  BY <1>1 DEF CInv, SInv, TypeOK, QuotaAssumption
<1>3. \A b \in Attempts : Exists(b) => Exists(b)' BY <1>1 DEF Grows
<1>4. CASE UNCHANGED vars
  BY <1>4 DEF vars, CInv, OwnCharge, ChargedSoFar, Charging, Existing, Pending,
              Exists, SInv, TypeOK, HeldExist, Holding, DueAtDoor
<1>5. ASSUME NEW a \in Attempts, Submit(a) PROVE OwnCharge' /\ ChargedSoFar'
  <2>1. \A b \in Attempts : Exists(b)' <=> Exists(b)
    BY <1>2, <1>5, StatusTyped DEF Submit
  <2>2. Existing' = Existing BY <2>1 DEF Existing
  <2>3. req' = req /\ used' = used /\ faults' = faults BY <1>5 DEF Submit
  <2>. QED BY <2>2, <2>3 DEF CInv, OwnCharge, ChargedSoFar, Charging, Pending
<1>6. ASSUME NEW r \in Reqs, Ask(r) \/ Find(r) PROVE OwnCharge' /\ ChargedSoFar'
  <2>1. /\ \A s \in Reqs : s # r => req'[s] = req[s]
        /\ req'[r].pc # "charge"
    <3>1. CASE Ask(r) BY <1>2, <3>1 DEF Ask, TypeOK
    <3>2. CASE Find(r)
      <4>1. req[r].pc = "find" BY <3>2 DEF Find, At
      <4>2. \/ Goto(r, "insert") \/ Done(r)
            \/ \E a \in Attempts : GotoAttempt(r, "abandon", a)
        BY <3>2 DEF Find, Open
      <4>. QED BY <1>2, <4>1, <4>2, GotoMoves, DoneMoves, AttemptMoves DEF Steps
    <3>. QED BY <1>6, <3>1, <3>2
  <2>2. used' = used /\ faults' = faults BY <1>6 DEF Ask, Find
  <2>. QED BY <1>2, <1>3, <2>1, <2>2, FewerPending
<1>7. ASSUME NEW r \in Reqs, Abandon(r) \/ Undo(r) \/ Dies(r)
      PROVE  OwnCharge' /\ ChargedSoFar'
  <2>1. /\ \A s \in Reqs : s # r => req'[s] = req[s]
        /\ req'[r].pc # "charge"
    <3>1. CASE Abandon(r)
      <4>1. req[r].pc = "abandon" /\ GotoAttempt(r, "insert", None)
        BY <3>1 DEF Abandon, At
      <4>. QED BY <1>2, <4>1, AttemptMoves DEF Steps
    <3>2. CASE Undo(r) \/ Dies(r) BY <1>2, <3>2, DoneMoves DEF Undo, Dies
    <3>. QED BY <1>7, <3>1, <3>2
  <2>2. used' = used /\ (faults' = faults \/ faults' = faults + 1)
    BY <1>7 DEF Abandon, Undo, Dies
  <2>3. faults <= faults' BY <1>2, <2>2
  <2>. QED BY <1>2, <1>3, <2>1, <2>2, <2>3, FewerPending
<1>8. ASSUME NEW r \in Reqs, Insert(r) PROVE OwnCharge' /\ ChargedSoFar'
  <2>1. req[r].pc = "insert" /\ used' = used /\ faults' = faults
    BY <1>8 DEF Insert, At
  <2>2. CASE Done(r)
    BY <1>2, <1>3, <2>1, <2>2, DoneMoves, FewerPending
  <2>3. ASSUME NEW a \in Attempts, ~Exists(a),
               row' = [row EXCEPT ![a] = [status |-> "in_progress",
                                          door |-> req[r].door]],
               GotoAttempt(r, "charge", a)
        PROVE  OwnCharge' /\ ChargedSoFar'
    <3>. DEFINE x == [status |-> "in_progress", door |-> req[r].door]
    <3>1. x \in Row BY <1>2, <2>1, ReqShape DEF Row, Start
    <3>2. Exists(a)' /\ \A b \in Attempts : b # a => row'[b] = row[b]
      <4>. HIDE DEF x
      <4>. QED BY <1>2, <2>3, <3>1, NewRow DEF x
    <3>. QED BY <2>1, <2>3, <3>2, NewPending
  <2>. QED BY <1>8, <2>2, <2>3, InsertStep DEF CInv
<1>9. ASSUME NEW r \in Reqs, Charge(r) \/ ChargeUnanswered(r)
      PROVE  OwnCharge' /\ ChargedSoFar'
  <2>1. req[r].pc = "charge" /\ row' = row
    BY <1>9 DEF Charge, ChargeUnanswered, At
  <2>2. CASE Consumed /\ Done(r) /\ UNCHANGED faults
    BY <2>1, <2>2, PaidFor DEF Consumed
  <2>3. CASE Refused(r) \/ Goto(r, "charge")
    <3>1. /\ \A s \in Reqs : s # r => req'[s] = req[s]
          /\ \/ req'[r].pc # "charge"
             \/ req[r].pc = "charge" /\ req'[r].att = req[r].att
      BY <1>2, <2>1, <2>3, RefusedMoves, GotoMoves DEF Steps
    <3>2. CASE used' = used /\ (faults' = faults \/ faults' = faults + 1)
      <4>1. faults <= faults' BY <1>2, <3>2
      <4>. QED BY <1>2, <1>3, <3>1, <3>2, <4>1, FewerPending
    <3>3. CASE used' = used + 1 /\ faults' = faults + 1
      BY <1>2, <1>3, <3>1, <3>3, FewerPending
    <3>4. CASE Consumed /\ Done(r) /\ UNCHANGED faults
      BY <2>2, <3>4
    <3>. QED BY <1>9, <3>2, <3>3, <3>4 DEF Charge, ChargeUnanswered, Consumed
  <2>. QED BY <1>9, <2>2, <2>3 DEF Charge, ChargeUnanswered
<1>. QED BY <1>1, <1>4, <1>5, <1>6, <1>7, <1>8, <1>9 DEF Next, CInv

(* The quota is spent on new attempts only, one each, except that a charge *)
(* whose answer was lost may be made twice.                                *)
THEOREM ChargedForNewCorrect ==
  ASSUME QuotaAssumption PROVE Spec => []ChargedForNew
<1>1. ASSUME Init PROVE CInv
  <2>1. Charging = {} BY <1>1 DEF Init, Charging, Idle
  <2>2. Cardinality(Existing \ Pending) \in Nat
    BY Counting DEF Existing
  <2>3. ChargedSoFar BY <1>1, <2>2 DEF Init, ChargedSoFar
  <2>. QED BY <1>1, <2>1, <2>3, InitSInv DEF CInv, OwnCharge
<1>2. CInv /\ [Next]_vars => CInv' BY StepCharges
<1>3. ASSUME CInv PROVE ChargedForNew
  <2>1. /\ Cardinality(Existing \ Pending) <= Cardinality(Existing)
        /\ Cardinality(Existing \ Pending) \in Nat
        /\ Cardinality(Existing) \in Nat
    BY Counting DEF Existing
  <2>2. used \in Nat /\ faults \in Nat
        /\ used <= Cardinality(Existing \ Pending) + faults
    BY <1>3 DEF CInv, SInv, TypeOK, ChargedSoFar, QuotaAssumption
  <2>3. used <= Cardinality(Existing) + faults BY <2>1, <2>2
  <2>. QED BY <2>3 DEF ChargedForNew, Existing
<1>. QED BY <1>1, <1>2, <1>3, PTL DEF Spec
=============================================================================
