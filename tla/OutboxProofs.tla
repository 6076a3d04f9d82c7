---------------------------- MODULE OutboxProofs ----------------------------
(***************************************************************************)
(* Machine-checked proofs about Outbox, for every set of reviews, users,   *)
(* channels and workers, every batch size and every number of attempts,    *)
(* messages, reports and faults.                                           *)
(***************************************************************************)
EXTENDS Outbox, TLAPS

USE OutboxAssumption

-----------------------------------------------------------------------------
(* Type correctness *)

(* What is said of a row one by one, once for all.                         *)
LEMMA RowTypes ==
  /\ NoRow \in Row /\ NewRow \in Row /\ NoStage \in Stage
  /\ \A s \in Status, n \in 0..MaxAttempts, h \in Workers \cup {Nobody},
        m \in 0..MaxSends :
       [status |-> s, attempts |-> n, holder |-> h, msg |-> m] \in Row
  /\ \A s \in Row : /\ s.status \in Status /\ s.attempts \in 0..MaxAttempts
                    /\ s.holder \in Workers \cup {Nobody}
                    /\ s.msg \in 0..MaxSends
  BY DEF NoRow, NewRow, NoStage, Row, Stage, Status

LEMMA LetGoType ==
  ASSUME TypeOK, NEW k \in Rows, NEW s \in Status, NEW m \in 0..MaxSends
  PROVE  LetGo(k, s, m) \in Row /\ LetGo(k, s, row[k].msg) \in Row
  BY RowTypes DEF TypeOK, LetGo

LEMMA TakenType ==
  ASSUME TypeOK, NEW k \in Rows, NEW w \in Workers
  PROVE  Taken(w, k) \in Row
<1> DEFINE n == IF row[k].attempts < MaxAttempts THEN row[k].attempts + 1
                                                 ELSE MaxAttempts
<1>1. row[k] \in Row
  BY DEF TypeOK
<1>2. n \in 0..MaxAttempts
  BY <1>1, RowTypes
<1> QED BY <1>1, <1>2, RowTypes DEF Taken, Status

(* Every way a worker changes its batch keeps it well typed.               *)
LEMMA JobTypes ==
  ASSUME TypeOK, NEW w \in Workers, NEW k \in Rows
  PROVE  /\ \A pc \in {"none", "preflight", "cancel", "send", "sent", "retry",
                        "refuse"}, m \in 0..MaxSends :
              Goto(w, k, pc, m) => job' \in [Workers -> [Rows -> Stage]]
         /\ Done(w, k) => job' \in [Workers -> [Rows -> Stage]]
         /\ Stop(w) => job' \in [Workers -> [Rows -> Stage]]
         /\ job[w][k].msg \in 0..MaxSends
<1>1. job[w][k] \in Stage
  BY DEF TypeOK
<1>2. \A b \in [Rows -> Stage] :
        [job EXCEPT ![w] = b] \in [Workers -> [Rows -> Stage]]
  BY DEF TypeOK
<1>3. \A s \in Stage : [job[w] EXCEPT ![k] = s] \in [Rows -> Stage]
  BY DEF TypeOK
<1>4. NoStage \in Stage
  BY RowTypes
<1>5. ASSUME NEW pc \in {"none", "preflight", "cancel", "send", "sent", "retry",
                        "refuse"},
             NEW m \in 0..MaxSends, Goto(w, k, pc, m)
      PROVE  job' \in [Workers -> [Rows -> Stage]]
  <2>1. [pc |-> pc, msg |-> m] \in Stage
    BY DEF Stage
  <2>2. job' = [job EXCEPT ![w] = [job[w] EXCEPT ![k] = [pc |-> pc, msg |-> m]]]
    BY <1>5 DEF Goto
  <2> QED BY <1>2, <1>3, <2>1, <2>2
<1>6. ASSUME Done(w, k) PROVE job' \in [Workers -> [Rows -> Stage]]
  BY <1>2, <1>3, <1>4, <1>6 DEF Done
<1>7. ASSUME Stop(w) PROVE job' \in [Workers -> [Rows -> Stage]]
  BY <1>2, <1>4, <1>7 DEF Stop
<1> QED BY <1>1, <1>5, <1>6, <1>7 DEF Stage

(* Producers and delivery reports keep the types.                          *)
LEMMA TypeProduce ==
  ASSUME TypeOK, Produce \/ \E k \in Rows, n \in 1..MaxSends, s \in Reported :
                              Report(k, n, s)
  PROVE  TypeOK'
<1> USE DEF TypeOK
<1>1. CASE \E r \in Reviews, enabled \in SUBSET Channels : Approve(r, enabled)
  BY <1>1, RowTypes DEF Approve
<1>2. CASE \E r \in Reviews : Reopen(r)
  BY <1>2, RowTypes, LetGoType DEF Reopen, Status
<1>3. CASE \E k \in Reminders : Remind(k)
  BY <1>3, RowTypes DEF Remind
<1>4. CASE \E k \in Rows, n \in 1..MaxSends, s \in Reported : Report(k, n, s)
  <2> PICK k \in Rows, n \in 1..MaxSends, s \in Reported : Report(k, n, s)
    BY <1>4
  <2>1. [row[k] EXCEPT !.status = s] \in Row
    BY DEF Reported, Row, Status
  <2>2. row' \in [Rows -> Row]
    BY <2>1 DEF Report
  <2>3. reports' \subseteq Rows \X (1..MaxSends) \X Reported
    BY DEF Report
  <2> QED BY <2>2, <2>3 DEF Report
<1> QED BY <1>1, <1>2, <1>3, <1>4 DEF Produce

LEMMA AcceptedType ==
  ASSUME TypeOK, NEW k \in Rows, Accepted(k)
  PROVE  sends' \in [Rows -> 0..MaxSends]
<1>1. \A n \in 0..MaxSends : [sends EXCEPT ![k] = n] \in [Rows -> 0..MaxSends]
  BY DEF TypeOK
<1>2. sends[k] \in 0..MaxSends
  BY DEF TypeOK
<1>3. 1 \in 0..MaxSends /\ (sends[k] < MaxSends => sends[k] + 1 \in 0..MaxSends)
  BY <1>2
<1>4. \/ UNCHANGED sends
      \/ \E n \in 0..MaxSends : sends' = [sends EXCEPT ![k] = n]
  BY <1>3 DEF Accepted
<1> QED BY <1>1, <1>4 DEF TypeOK

(* The steps of a worker keep the types.                                   *)
LEMMA TypeDeliver ==
  ASSUME TypeOK, NEW w \in Workers, NEW k \in Rows, Deliver(w, k)
  PROVE  TypeOK'
<1> USE JobTypes DEF TypeOK, At, Fault, Steady
<1>1. CASE Preflight(w, k)
  BY <1>1 DEF Preflight
<1>2. CASE MarkCancelled(w, k)
  BY <1>2, LetGoType DEF MarkCancelled, Status
<1>3. CASE Send(w, k)
  <2>1. sends' \in [Rows -> 0..MaxSends]
    BY <1>3, AcceptedType DEF Send
  <2>2. sends'[k] \in 0..MaxSends
    BY <2>1
  <2> QED BY <1>3, <2>1, <2>2 DEF Send
<1>4. CASE SendFails(w, k)
  BY <1>4, AcceptedType DEF SendFails
<1>5. CASE SendRefused(w, k)
  BY <1>5 DEF SendRefused
<1>6. CASE MarkSent(w, k)
  BY <1>6, LetGoType DEF MarkSent, Sent, Status
<1>7. CASE MarkSentFails(w, k)
  <2>1. Sent(w, k) \in [Rows -> Row]
    BY LetGoType DEF Sent, Status
  <2> QED BY <1>7, <2>1 DEF MarkSentFails
<1>8. CASE MarkFailure(w, k)
  BY <1>8, LetGoType DEF MarkFailure, Status
<1> QED BY <1>1, <1>2, <1>3, <1>4, <1>5, <1>6, <1>7, <1>8 DEF Deliver

LEMMA TypeClaim ==
  ASSUME TypeOK, NEW w \in Workers, Claim(w) \/ Killed(w)
  PROVE  TypeOK'
<1> USE DEF TypeOK, Fault, Steady
<1>1. CASE Claim(w)
  BY <1>1, TakenType DEF Claim, Stage
<1>2. CASE Killed(w)
  BY <1>2, JobTypes DEF Killed
<1> QED BY <1>1, <1>2

(* Reviews, rows, batches, messages and reports keep their types.          *)
THEOREM TypeCorrect == Spec => []TypeOK
<1>1. Init => TypeOK
  BY RowTypes DEF Init, TypeOK
<1>2. TypeOK /\ [Next]_vars => TypeOK'
  <2> SUFFICES ASSUME TypeOK, [Next]_vars PROVE TypeOK'
    OBVIOUS
  <2>1. CASE UNCHANGED vars
    BY <2>1 DEF vars, TypeOK
  <2> QED BY <2>1, TypeProduce, TypeDeliver, TypeClaim DEF Next
<1> QED BY <1>1, <1>2, PTL DEF Spec

-----------------------------------------------------------------------------
(* Reopening leaves no row behind                                          *)

LEMMA ReleaseParts ==
  \A k \in Releases : k[1] \in Reviews /\ k[2] \in 1..Versions /\ k[3] \in Channels
  BY DEF Releases

(* A step on row j of a batch either leaves the table alone or lets go of  *)
(* a row that is still leased.                                             *)
LEMMA DeliverRow ==
  ASSUME TypeOK, NEW w \in Workers, NEW j \in Rows, Deliver(w, j)
  PROVE  /\ UNCHANGED review
         /\ \/ UNCHANGED row
            \/ /\ Leased(w, j)
               /\ \E s \in {"cancelled", "sent", "retry"}, m \in 0..MaxSends :
                    row' = [row EXCEPT ![j] = LetGo(j, s, m)]
<1>1. job[w][j].msg \in 0..MaxSends /\ row[j].msg \in 0..MaxSends
  BY JobTypes, RowTypes DEF TypeOK
<1>2. CASE MarkCancelled(w, j)
  BY <1>1, <1>2 DEF MarkCancelled
<1>3. CASE MarkSent(w, j) \/ MarkSentFails(w, j)
  BY <1>1, <1>3 DEF MarkSent, MarkSentFails, Sent
<1>4. CASE MarkFailure(w, j)
  BY <1>1, <1>4 DEF MarkFailure
<1>5. CASE \/ Preflight(w, j) \/ Send(w, j) \/ SendFails(w, j)
           \/ SendRefused(w, j)
  BY <1>5 DEF Preflight, Send, SendFails, SendRefused
<1> QED BY <1>2, <1>3, <1>4, <1>5 DEF Deliver

LEMMA CurrentStep ==
  ASSUME TypeOK, OpenIsCurrent, [Next]_vars
  PROVE  OpenIsCurrent'
<1> SUFFICES ASSUME NEW k \in Releases, Open(k)'
             PROVE  Current(k)'
  BY DEF OpenIsCurrent
<1> USE DEF Open, OpenStatus, Current
<1>0. k \in Rows /\ k[1] \in Reviews
  BY ReleaseParts DEF Rows
<1>1. CASE UNCHANGED vars
  BY <1>1 DEF vars, OpenIsCurrent
<1>2. ASSUME NEW r \in Reviews, NEW enabled \in SUBSET Channels,
             Approve(r, enabled)
      PROVE  Current(k)'
  <2>1. CASE row'[k] = row[k]
    <3>1. Current(k)
      BY <2>1 DEF OpenIsCurrent
    <3>2. k[1] # r
      BY <1>2, <3>1 DEF Approve
    <3> QED BY <1>0, <1>2, <3>1, <3>2 DEF Approve, TypeOK
  <2>2. CASE row'[k] # row[k]
    BY <1>0, <1>2, <2>2 DEF Approve, OfApproval, TypeOK
  <2> QED BY <2>1, <2>2
<1>3. ASSUME NEW r \in Reviews, Reopen(r) PROVE Current(k)'
  BY <1>0, <1>3 DEF Reopen, OpenIsCurrent, OfApproval, LetGo, TypeOK
<1>4. ASSUME NEW d \in Reminders, Remind(d) PROVE Current(k)'
  BY <1>0, <1>4 DEF Remind, OpenIsCurrent, TypeOK
<1>5. ASSUME NEW w \in Workers, Claim(w) \/ Killed(w) PROVE Current(k)'
  BY <1>0, <1>5 DEF Claim, Killed, OpenIsCurrent
<1>6. ASSUME NEW w \in Workers, NEW j \in Rows, Deliver(w, j)
      PROVE  Current(k)'
  <2>1. UNCHANGED review
    BY <1>6, DeliverRow
  <2>2. row'[k] = row[k] \/ Leased(w, k)
    BY <1>0, <1>6, DeliverRow DEF TypeOK
  <2>3. Open(k)
    BY <2>2 DEF Leased
  <2> QED BY <2>1, <2>3 DEF OpenIsCurrent
<1>7. ASSUME NEW j \in Rows, NEW n \in 1..MaxSends, NEW s \in Reported,
             Report(j, n, s)
      PROVE  Current(k)'
  BY <1>0, <1>7 DEF Report, Reported, OpenIsCurrent, TypeOK, Row
<1> QED BY <1>1, <1>2, <1>3, <1>4, <1>5, <1>6, <1>7 DEF Next, Produce

(* A row that may still be sent is of the approval that stands, whatever   *)
(* the order of approvals, reopenings, claims and expired leases.          *)
THEOREM OpenIsCurrentCorrect == Spec => []OpenIsCurrent
<1>1. Init => OpenIsCurrent
  BY DEF Init, OpenIsCurrent, Open, OpenStatus, NoRow, Rows
<1>2. TypeOK /\ OpenIsCurrent /\ [Next]_vars => OpenIsCurrent'
  BY CurrentStep
<1> QED BY <1>1, <1>2, TypeCorrect, PTL DEF Spec

-----------------------------------------------------------------------------
(* Settled rows are final                                                  *)

Final(k) ==
  /\ row[k].status = "sent" => row'[k].status \in {"sent"} \cup Reported
  /\ row[k].status = "delivered" => row'[k].status \in {"delivered", "read"}
  /\ row[k].status \in {"read", "failed", "cancelled"} =>
       row'[k].status = row[k].status

LEMMA FinalStep ==
  ASSUME TypeOK, Next, NEW k \in Rows
  PROVE  Final(k)
<1> USE DEF Final, Open, OpenStatus
<1>2. ASSUME NEW r \in Reviews, NEW enabled \in SUBSET Channels,
             Approve(r, enabled)
      PROVE  Final(k)
  BY <1>2 DEF Approve, TypeOK
<1>3. ASSUME NEW r \in Reviews, Reopen(r) PROVE Final(k)
  BY <1>3 DEF Reopen, TypeOK
<1>4. ASSUME NEW d \in Reminders, Remind(d) PROVE Final(k)
  BY <1>4 DEF Remind, TypeOK
<1>5. ASSUME NEW w \in Workers, Claim(w) \/ Killed(w) PROVE Final(k)
  BY <1>5 DEF Claim, Killed
<1>6. ASSUME NEW w \in Workers, NEW j \in Rows, Deliver(w, j) PROVE Final(k)
  <2>1. row'[k] = row[k] \/ Leased(w, k)
    BY <1>6, DeliverRow DEF TypeOK
  <2> QED BY <2>1 DEF Leased
<1>7. ASSUME NEW j \in Rows, NEW n \in 1..MaxSends, NEW s \in Reported,
             Report(j, n, s)
      PROVE  Final(k)
  BY <1>7 DEF Report, Before, Reported, TypeOK, Row
<1> QED BY <1>2, <1>3, <1>4, <1>5, <1>6, <1>7 DEF Next, Produce

(* No claim, late worker or delivery report reopens a settled row or takes *)
(* its delivery back.                                                      *)
THEOREM SettledIsFinalCorrect == Spec => SettledIsFinal
<1>1. TypeOK /\ [Next]_vars => [\A k \in Rows : Final(k)]_vars
  BY FinalStep
<1>2. [\A k \in Rows : Final(k)]_vars
      <=> [\A k \in Rows :
            /\ row[k].status = "sent" =>
                 row'[k].status \in {"sent"} \cup Reported
            /\ row[k].status = "delivered" =>
                 row'[k].status \in {"delivered", "read"}
            /\ row[k].status \in {"read", "failed", "cancelled"} =>
                 row'[k].status = row[k].status]_vars
  BY DEF Final
<1> QED BY <1>1, <1>2, TypeCorrect, PTL DEF Spec, SettledIsFinal

-----------------------------------------------------------------------------
(* A row says sent only of an accepted message                             *)

(* The message a worker is about to record was accepted.                   *)
SentStage ==
  \A w \in Workers, k \in Rows :
    At(w, k, "sent") => job[w][k].msg \in 1..sends[k]

AcceptedInv == SentWasAccepted /\ SentStage

(* Messages are never unsent.                                              *)
LEMMA SendsGrow ==
  ASSUME TypeOK, [Next]_vars, NEW k \in Rows
  PROVE  sends[k] \in Nat /\ sends'[k] \in Nat /\ sends[k] <= sends'[k]
<1>0. sends[k] \in 0..MaxSends /\ \A j \in Rows : sends[j] \in 0..MaxSends
  BY DEF TypeOK
<1>1. CASE UNCHANGED sends
  BY <1>0, <1>1
<1>2. ASSUME NEW j \in Rows, Accepted(j)
      PROVE  sends[k] <= sends'[k] /\ sends'[k] \in Nat
  <2>1. CASE Channel(j) = "email"
    BY <1>0, <1>2, <2>1 DEF Accepted, TypeOK
  <2>2. CASE Channel(j) # "email"
    BY <1>0, <1>2, <2>2 DEF Accepted, TypeOK
  <2> QED BY <2>1, <2>2
<1>3. UNCHANGED sends \/ \E j \in Rows : Accepted(j)
  <2>1. CASE UNCHANGED vars
    BY <2>1 DEF vars
  <2>2. CASE Produce \/ \E j \in Rows, n \in 1..MaxSends, s \in Reported :
                          Report(j, n, s)
    BY <2>2 DEF Produce, Approve, Reopen, Remind, Report
  <2>3. ASSUME NEW w \in Workers, Claim(w) \/ Killed(w)
        PROVE  UNCHANGED sends
    BY <2>3 DEF Claim, Killed
  <2>4. ASSUME NEW w \in Workers, NEW j \in Rows, Deliver(w, j)
        PROVE  UNCHANGED sends \/ Accepted(j)
    BY <2>4 DEF Deliver, Preflight, MarkCancelled, Send, SendFails, SendRefused,
                MarkSent, MarkSentFails, MarkFailure
  <2> QED BY <2>1, <2>2, <2>3, <2>4 DEF Next
<1> QED BY <1>0, <1>1, <1>2, <1>3

(* What is recorded as sent, and what is about to be, was accepted.        *)
LEMMA AcceptedStep ==
  ASSUME TypeOK, AcceptedInv, [Next]_vars
  PROVE  AcceptedInv'
<1> USE DEF At
<1>1. SentStage'
  <2> SUFFICES ASSUME NEW w \in Workers, NEW k \in Rows, At(w, k, "sent")'
               PROVE  (job[w][k].msg \in 1..sends[k])'
    BY DEF SentStage
  <2>0. job[w][k].msg \in 0..MaxSends
    BY JobTypes
  <2>1. CASE job'[w][k] = job[w][k]
    BY <2>0, <2>1, SendsGrow DEF AcceptedInv, SentStage
  <2>2. CASE job'[w][k] # job[w][k]
    <3>1. PICK v \in Workers, j \in Rows : Send(v, j)
      <4> USE DEF Goto, Done, Stop, NoStage, TypeOK
      <4>1. ASSUME Produce \/ \E j \in Rows, n \in 1..MaxSends, s \in Reported :
                                Report(j, n, s)
            PROVE  FALSE
        BY <2>2, <4>1 DEF Produce, Approve, Reopen, Remind, Report
      <4>2. ASSUME NEW v \in Workers, Claim(v) \/ Killed(v)
            PROVE  FALSE
        BY <2>2, <4>2 DEF Claim, Killed
      <4>3. ASSUME NEW v \in Workers, NEW j \in Rows, Deliver(v, j)
            PROVE  Send(v, j)
        BY <2>2, <4>3 DEF Deliver, Preflight, MarkCancelled, SendFails,
                          SendRefused, MarkSent, MarkSentFails, MarkFailure
      <4>4. CASE UNCHANGED vars
        BY <2>2, <4>4 DEF vars
      <4> QED BY <4>1, <4>2, <4>3, <4>4 DEF Next
    <3>2. v = w /\ j = k
      BY <2>2, <3>1 DEF Send, Goto, TypeOK
    <3>3. job'[w][k].msg = sends'[k]
      BY <3>1, <3>2 DEF Send, Goto, TypeOK
    <3>4. sends'[k] \in Nat \ {0}
      BY <3>1, <3>2, SendsGrow DEF Send, Accepted, TypeOK
    <3> QED BY <3>3, <3>4
  <2> QED BY <2>1, <2>2
<1>2. SentWasAccepted'
  <2> SUFFICES ASSUME NEW k \in Rows,
                      row'[k].status \in {"sent", "delivered", "read"}
               PROVE  row'[k].msg \in 1..sends'[k]
    BY DEF SentWasAccepted
  <2>0. row[k].msg \in 0..MaxSends
    BY RowTypes DEF TypeOK
  <2>1. CASE row'[k].msg = row[k].msg
             /\ row[k].status \in {"sent", "delivered", "read"}
    BY <2>0, <2>1, SendsGrow DEF AcceptedInv, SentWasAccepted
  <2>2. ASSUME NEW w \in Workers, At(w, k, "sent"), row' = Sent(w, k)
        PROVE  row'[k].msg \in 1..sends'[k]
    BY <2>2, SendsGrow, JobTypes
    DEF Sent, LetGo, TypeOK, AcceptedInv, SentStage, SentWasAccepted
  <2>3. CASE UNCHANGED row
    BY <2>1, <2>3
  <2>4. CASE Produce
    <3>1. row'[k] = row[k] \/ row'[k].status \in {"queued", "cancelled"}
      BY <2>4 DEF Produce, Approve, Reopen, Remind, NewRow, LetGo, TypeOK
    <3> QED BY <2>1, <3>1
  <2>5. ASSUME NEW w \in Workers, Claim(w) \/ Killed(w)
        PROVE  row'[k].msg \in 1..sends'[k]
    <3>1. row'[k] = row[k] \/ row'[k].status = "processing"
      BY <2>5 DEF Claim, Killed, Taken, TypeOK
    <3> QED BY <2>1, <3>1
  <2>6. ASSUME NEW j \in Rows, NEW n \in 1..MaxSends, NEW s \in Reported,
               Report(j, n, s)
        PROVE  row'[k].msg \in 1..sends'[k]
    <3>1. \/ row'[k] = row[k]
          \/ /\ row'[k].msg = row[k].msg
             /\ row[k].status \in Before(s) /\ row'[k].status = s
      BY <2>6 DEF Report, TypeOK, Row
    <3> QED BY <2>1, <3>1 DEF Before, Reported
  <2>7. ASSUME NEW w \in Workers, NEW j \in Rows, Deliver(w, j)
        PROVE  row'[k].msg \in 1..sends'[k]
    <3>1. CASE MarkSent(w, j) \/ MarkSentFails(w, j)
      <4>1. CASE UNCHANGED row
        BY <2>3, <4>1
      <4>2. CASE row' = Sent(w, j) /\ j = k
        BY <2>2, <3>1, <4>2 DEF MarkSent, MarkSentFails
      <4>3. CASE row' = Sent(w, j) /\ j # k
        BY <2>1, <4>3 DEF Sent, TypeOK
      <4> QED BY <3>1, <4>1, <4>2, <4>3 DEF MarkSent, MarkSentFails
    <3>2. CASE MarkCancelled(w, j) \/ MarkFailure(w, j)
      <4>1. row'[k] = row[k] \/ row'[k].status \in {"cancelled", "retry"}
        BY <3>2 DEF MarkCancelled, MarkFailure, LetGo, TypeOK
      <4> QED BY <2>1, <4>1
    <3>3. CASE \/ Preflight(w, j) \/ Send(w, j) \/ SendFails(w, j)
               \/ SendRefused(w, j)
      BY <2>3, <3>3 DEF Preflight, Send, SendFails, SendRefused
    <3> QED BY <2>7, <3>1, <3>2, <3>3 DEF Deliver
  <2> QED BY <2>3, <2>4, <2>5, <2>6, <2>7 DEF Next, vars
<1> QED BY <1>1, <1>2 DEF AcceptedInv

(* A timeout, a lost answer or a second send of the same row never makes   *)
(* the table claim a message that its provider did not take.               *)
THEOREM SentWasAcceptedCorrect == Spec => []SentWasAccepted
<1>1. Init => AcceptedInv
  BY DEF Init, AcceptedInv, SentWasAccepted, SentStage, At, NoRow, NoStage
<1>2. TypeOK /\ AcceptedInv /\ [Next]_vars => AcceptedInv'
  BY AcceptedStep
<1>3. AcceptedInv => SentWasAccepted
  BY DEF AcceptedInv
<1> QED BY <1>1, <1>2, <1>3, TypeCorrect, PTL DEF Spec

-----------------------------------------------------------------------------
(* Without faults nothing is sent twice                                    *)

(* While nothing fails, a row in processing is worked on by its holder and *)
(* by nobody else, and until that worker has sent it, nobody has.          *)
Once(k) ==
  /\ sends[k] \in {0, 1}
  /\ row[k].status # "retry"
  /\ row[k].status \in {"absent", "queued"} =>
       sends[k] = 0 /\ \A w \in Workers : ~Busy(w, k)
  /\ row[k].status = "processing" => Held(k)
  /\ \A w \in Workers : Busy(w, k) =>
       /\ Leased(w, k) \/ row[k].status = "cancelled"
       /\ job[w][k].pc \in {"preflight", "cancel", "send", "sent"}
       /\ job[w][k].pc # "sent" => sends[k] = 0
       /\ \A v \in Workers : Busy(v, k) => v = w

Quiet   == faults = 0 /\ Refusing = {}
OnceInv == Quiet => \A k \in Rows : Once(k)

(* A quiet step was preceded by quiet.                                     *)
LEMMA QuietBefore ==
  ASSUME TypeOK, Next, Quiet'
  PROVE  Quiet /\ ~Fault
<1>1. faults \in Nat
  BY DEF TypeOK
<1>2. faults' = faults \/ Fault
  BY DEF Next, Produce, Approve, Reopen, Remind, Claim, Killed, Deliver,
         Preflight, MarkCancelled, Send, SendFails, SendRefused, MarkSent,
         MarkSentFails, MarkFailure, Report, Steady
<1> QED BY <1>1, <1>2 DEF Quiet, Fault

LEMMA OnceProduce ==
  ASSUME TypeOK, NEW k \in Rows, Once(k),
         Produce \/ \E j \in Rows, n \in 1..MaxSends, s \in Reported :
                       Report(j, n, s)
  PROVE  Once(k)'
<1> USE DEF Once, Busy, Held, Leased, TypeOK
<1>1. UNCHANGED <<job, sends>>
  BY DEF Produce, Approve, Reopen, Remind, Report
<1>2. CASE row'[k] = row[k]
  BY <1>1, <1>2
<1>3. CASE row[k].status = "absent" /\ row'[k].status = "queued"
  BY <1>1, <1>3
<1>4. CASE Open(k) /\ row'[k].status = "cancelled"
  BY <1>1, <1>4 DEF Open, OpenStatus
<1>5. CASE /\ row[k].status \in {"sent", "delivered", "read", "failed"}
           /\ row'[k].status \in Reported
  BY <1>1, <1>5 DEF Reported
<1>6. ASSUME NEW r \in Reviews, NEW enabled \in SUBSET Channels,
             Approve(r, enabled)
      PROVE  Once(k)'
  <2>1. \/ row'[k] = row[k]
        \/ row[k].status = "absent" /\ row'[k].status = "queued"
    BY <1>6 DEF Approve, NewRow
  <2> QED BY <1>2, <1>3, <2>1
<1>7. ASSUME NEW r \in Reviews, Reopen(r) PROVE Once(k)'
  <2>1. row'[k] = row[k] \/ (Open(k) /\ row'[k].status = "cancelled")
    BY <1>7 DEF Reopen, LetGo
  <2> QED BY <1>2, <1>4, <2>1
<1>8. ASSUME NEW d \in Reminders, Remind(d) PROVE Once(k)'
  <2>1. \/ row'[k] = row[k]
        \/ row[k].status = "absent" /\ row'[k].status = "queued"
    BY <1>8 DEF Remind, NewRow
  <2> QED BY <1>2, <1>3, <2>1
<1>9. ASSUME NEW j \in Rows, NEW n \in 1..MaxSends, NEW s \in Reported,
             Report(j, n, s)
      PROVE  Once(k)'
  <2>1. \/ row'[k] = row[k]
        \/ row[k].status \in Before(s) /\ row'[k].status = s
    BY <1>9 DEF Report, Row
  <2>2. Before(s) \subseteq {"sent", "delivered", "read", "failed"}
    BY DEF Before, Reported
  <2> QED BY <1>2, <1>5, <2>1, <2>2
<1> QED BY <1>6, <1>7, <1>8, <1>9 DEF Produce

(* A claim takes a row only from the queue.                                *)
LEMMA OnceClaim ==
  ASSUME TypeOK, NEW k \in Rows, Once(k), NEW w \in Workers, Claim(w), ~Fault
  PROVE  Once(k)'
<1>0. PICK S \in SUBSET {j \in Rows : Open(j)} :
        /\ \A j \in Rows : ~Busy(w, j)
        /\ row' = [j \in Rows |-> IF j \in S THEN Taken(w, j) ELSE row[j]]
        /\ job' = [job EXCEPT ![w] =
                     [j \in Rows |->
                        [pc |-> IF j \in S THEN "preflight" ELSE "none",
                         msg |-> 0]]]
        /\ \A j \in S : ~Held(j)
        /\ UNCHANGED sends
  BY DEF Claim
<1> USE DEF Once, Busy, Held, Leased, TypeOK
<1>1. CASE k \notin S
  <2>1. row'[k] = row[k] /\ sends'[k] = sends[k]
        /\ \A v \in Workers : Busy(v, k)' <=> Busy(v, k)
    BY <1>0, <1>1
  <2>2. \A v \in Workers : Busy(v, k) => job'[v][k] = job[v][k]
    BY <1>0
  <2>3. row[k].holder \in Workers \cup {Nobody}
    BY RowTypes
  <2>4. Held(k)' <=> Held(k)
    BY <2>1, <2>3
  <2> QED BY <2>1, <2>2, <2>4
<1>2. CASE k \in S
  <2>1. row[k].status = "queued" /\ sends[k] = 0 /\ \A v \in Workers : ~Busy(v, k)
    BY <1>0, <1>2 DEF Open, OpenStatus
  <2>2. row'[k].status = "processing" /\ row'[k].holder = w /\ sends'[k] = 0
    BY <1>0, <1>2, <2>1 DEF Taken
  <2>3. \A v \in Workers : job'[v][k].pc = IF v = w THEN "preflight" ELSE "none"
    BY <1>0, <1>2, <2>1
  <2>4. \A v \in Workers : Busy(v, k)' <=> v = w
    BY <2>3
  <2>5. Leased(w, k)' /\ Held(k)'
    BY <2>2, <2>4
  <2> QED BY <2>2, <2>3, <2>4, <2>5
<1> QED BY <1>1, <1>2

(* A step on row j of the batch, seen from row k.                          *)
LEMMA OnceDeliver ==
  ASSUME TypeOK, \A i \in Rows : Once(i), Refusing = {}, NEW k \in Rows,
         NEW w \in Workers, NEW j \in Rows, Deliver(w, j), ~Fault
  PROVE  Once(k)'
<1>0. \/ Preflight(w, j) \/ MarkCancelled(w, j) \/ Send(w, j) \/ MarkSent(w, j)
  <2>1. ~SendFails(w, j) /\ ~SendRefused(w, j) /\ ~MarkSentFails(w, j)
    BY DEF SendFails, SendRefused, MarkSentFails
  <2>2. ~MarkFailure(w, j)
    BY DEF MarkFailure, Once, Busy, At
  <2> QED BY <2>1, <2>2 DEF Deliver
<1> USE DEF Busy, Leased, At, Goto, Done, NoStage
<1>1. \A pc, m : Goto(w, j, pc, m) =>
        \A v \in Workers : job'[v][k] = IF v = w /\ j = k THEN [pc |-> pc, msg |-> m]
                                                       ELSE job[v][k]
  BY DEF TypeOK
<1>2. Done(w, j) =>
        \A v \in Workers : job'[v][k] = IF v = w /\ j = k THEN NoStage
                                                       ELSE job[v][k]
  BY DEF TypeOK
<1>3. row[k].holder \in Workers \cup {Nobody}
  BY RowTypes DEF TypeOK
<1>4. CASE j # k
  <2>1. row'[k] = row[k]
    BY <1>4, DeliverRow DEF TypeOK
  <2>2. sends'[k] = sends[k]
    BY <1>0, <1>4 DEF Preflight, MarkCancelled, Send, MarkSent, Accepted, TypeOK
  <2>3. \A v \in Workers : job'[v][k] = job[v][k]
    <3>1. Done(w, j) \/ \E pc, m : Goto(w, j, pc, m)
      BY <1>0 DEF Preflight, MarkCancelled, Send, MarkSent
    <3> QED BY <1>1, <1>2, <1>4, <3>1
  <2> QED BY <1>3, <2>1, <2>2, <2>3 DEF Once, Held
<1>5. CASE j = k
  <2> USE DEF Once
  <2>1. CASE Preflight(w, k)
    <3>1. UNCHANGED <<row, sends>>
      BY <2>1 DEF Preflight
    <3>2. PICK pc \in {"send", "cancel"} : Goto(w, k, pc, 0)
      BY <2>1 DEF Preflight
    <3>3. \A v \in Workers : job'[v][k] = IF v = w THEN [pc |-> pc, msg |-> 0]
                                                 ELSE job[v][k]
      BY <3>2 DEF TypeOK
    <3>4. job[w][k].pc = "preflight"
      BY <2>1 DEF Preflight
    <3>5. \A v \in Workers : Busy(v, k)' <=> Busy(v, k)
      BY <3>3, <3>4
    <3>6. Held(k)' <=> Held(k)
      BY <1>3, <3>1, <3>5 DEF Held
    <3>7. ASSUME NEW v \in Workers, Busy(v, k)'
          PROVE  /\ v = w
                 /\ Leased(v, k)' \/ row'[k].status = "cancelled"
                 /\ job'[v][k].pc \in {"send", "cancel"}
      BY <3>1, <3>3, <3>4, <3>5, <3>7
    <3> QED BY <3>1, <3>4, <3>6, <3>7
  <2>2. CASE MarkCancelled(w, k) \/ MarkSent(w, k)
    <3>1. UNCHANGED sends /\ Done(w, k)
      BY <2>2 DEF MarkCancelled, MarkSent
    <3>2. Busy(w, k)
      BY <2>2 DEF MarkCancelled, MarkSent
    <3>3. Once(k)
      OBVIOUS
    <3>4. \A v \in Workers : ~Busy(v, k)'
      BY <1>2, <1>5, <3>1, <3>2, <3>3
    <3>5. row'[k].status \in {"cancelled", "sent"}
      BY <2>2, <3>2, <3>3 DEF MarkCancelled, MarkSent, Sent, LetGo, TypeOK
    <3> QED BY <3>1, <3>3, <3>4, <3>5
  <2>3. CASE Send(w, k)
    <3>1. UNCHANGED row
      BY <2>3 DEF Send
    <3>2. job[w][k].pc = "send" /\ sends[k] = 0
      BY <2>3 DEF Send
    <3>3. sends'[k] = 1
      BY <2>3, <3>2 DEF Send, Accepted, TypeOK
    <3>4. \A v \in Workers : job'[v][k] = IF v = w THEN [pc |-> "sent", msg |-> 1]
                                                 ELSE job[v][k]
      BY <2>3, <3>3 DEF Send, TypeOK
    <3>5. \A v \in Workers : Busy(v, k)' <=> Busy(v, k)
      BY <3>2, <3>4
    <3>6. Held(k)' <=> Held(k)
      BY <1>3, <3>1, <3>5 DEF Held
    <3>7. ASSUME NEW v \in Workers, Busy(v, k)'
          PROVE  /\ v = w
                 /\ Leased(v, k)' \/ row'[k].status = "cancelled"
                 /\ job'[v][k].pc = "sent"
      BY <3>1, <3>2, <3>4, <3>5, <3>7
    <3> QED BY <3>1, <3>2, <3>3, <3>6, <3>7
  <2> QED BY <1>0, <1>5, <2>1, <2>2, <2>3
<1> QED BY <1>4, <1>5

(* Any number of workers, batches of any size and any pace of the leases   *)
(* notify nobody twice as long as no call fails and no lease is outlived.  *)
THEOREM NoDuplicateSendCorrect == Spec => []NoDuplicateSend
<1>1. Init => OnceInv
  BY DEF Init, OnceInv, Once, Busy, NoRow, NoStage
<1>2. TypeOK /\ OnceInv /\ [Next]_vars => OnceInv'
  <2> SUFFICES ASSUME TypeOK, OnceInv, [Next]_vars, Quiet', NEW k \in Rows
               PROVE  Once(k)'
    BY DEF OnceInv
  <2>1. CASE UNCHANGED vars
    BY <2>1 DEF vars, OnceInv, Quiet, Once, Busy, Held, Leased
  <2>2. CASE Next
    <3>1. Quiet /\ ~Fault /\ \A i \in Rows : Once(i)
      BY <2>2, QuietBefore DEF OnceInv
    <3>2. ASSUME NEW w \in Workers, Killed(w) PROVE FALSE
      BY <3>1, <3>2 DEF Killed
    <3> QED BY <2>2, <3>1, <3>2, OnceProduce, OnceClaim, OnceDeliver
            DEF Next, Quiet
  <2> QED BY <2>1, <2>2
<1>3. TypeOK /\ OnceInv => NoDuplicateSend
  BY DEF OnceInv, Once, Quiet, NoDuplicateSend
<1> QED BY <1>1, <1>2, <1>3, TypeCorrect, PTL DEF Spec
=============================================================================
