--------------------------- MODULE PaymentsProofs ---------------------------
(***************************************************************************)
(* Machine-checked proofs about Payments, for every set of orders,         *)
(* workers and skills, every behaviour of the RPC and every number of      *)
(* faults.                                                                 *)
(***************************************************************************)
EXTENDS Payments, TLAPS

USE PaymentsAssumption

-----------------------------------------------------------------------------
(* Type correctness *)

(* A busy worker holds a well-typed job.                                   *)
LEMMA BusyJob ==
  ASSUME TypeOK, NEW w \in Workers, job[w] # Idle
  PROVE  /\ job[w] \in Job
         /\ job[w].call \in Calls /\ job[w].order \in Orders
         /\ job[w].pc \in Steps /\ job[w].seen \in Row
  BY DEF TypeOK, Job

LEMMA RowTypes ==
  /\ NoRow \in Row /\ PaidRow \in Row
  /\ \A s \in RowStatus, p \in BOOLEAN : [status |-> s, pid |-> p] \in Row
  /\ \A r \in Row : r.status \in RowStatus /\ r.pid \in BOOLEAN
  BY DEF Row, NoRow, PaidRow, RowStatus

(* Every way a worker changes its job keeps it well typed.                 *)
LEMMA SetJobType ==
  ASSUME TypeOK, NEW w \in Workers, NEW call \in Calls, NEW o \in Orders,
         NEW pc \in Steps, NEW seen \in Row, SetJob(w, call, o, pc, seen)
  PROVE  job' \in [Workers -> Job \cup {Idle}]
  BY DEF TypeOK, SetJob, Job

LEMMA GotoType ==
  ASSUME TypeOK, NEW w \in Workers, NEW pc \in Steps, job[w] # Idle
  PROVE  /\ Goto(w, pc) => job' \in [Workers -> Job \cup {Idle}]
         /\ \A seen \in Row :
              GotoSeen(w, pc, seen) => job' \in [Workers -> Job \cup {Idle}]
  BY BusyJob, SetJobType, RowTypes DEF Goto, GotoSeen

LEMMA StopType ==
  ASSUME TypeOK, NEW w \in Workers, Stop(w)
  PROVE  job' \in [Workers -> Job \cup {Idle}]
  BY DEF TypeOK, Stop

(* Each program point belongs to the handler of its call: the webhook      *)
(* bookkeeping runs only for a delivered event, so there is one to answer. *)
CallShape ==
  \A w \in Workers : job[w] # Idle =>
    /\ job[w].pc \in WebhookSteps \cup AnswerSteps => job[w].call \in Kinds
    /\ job[w].pc \in ConfirmSteps \cup FallbackSteps =>
         job[w].call \in {"payment.captured", "verify", "reconcile"}
    /\ job[w].pc \in FailedSteps => job[w].call = "payment.failed"
    /\ job[w].pc \in RefundSteps => job[w].call = "refund.created"
    /\ job[w].pc \in ReconcileSteps => job[w].call = "reconcile"

TypeInv == TypeOK /\ CallShape

(* Every step of a worker keeps the types.                                 *)
LEMMA TypeStep ==
  ASSUME TypeInv, NEW w \in Workers, Step(w) \/ Fault(w)
  PROVE  TypeOK'
<1> USE DEF At, Free, TypeInv, TypeOK, CallShape, db, others, env, Steps,
            WebhookSteps, ConfirmSteps, FallbackSteps, FailedSteps,
            RefundSteps, AnswerSteps, ReconcileSteps
<1>1. CASE ReconcileClassify(w)
  BY <1>1, BusyJob, GotoType, StopType, RowTypes DEF ReconcileClassify
<1>2. CASE InsertEvent(w)
  BY <1>2, BusyJob, GotoType, StopType, RowTypes
  DEF InsertEvent, HandlerOf, EventOf, Events
<1>3. CASE ReadEvent(w)
  BY <1>3, BusyJob, GotoType, StopType, RowTypes DEF ReadEvent, EventOf
<1>4. CASE ClaimEvent(w)
  BY <1>4, BusyJob, GotoType, StopType, RowTypes
  DEF ClaimEvent, HandlerOf, EventOf, Events
<1>5. CASE MarkProcessed(w)
  BY <1>5, BusyJob, GotoType, StopType, RowTypes
  DEF MarkProcessed, EventOf, Events
<1>6. CASE MarkFailed(w)
  BY <1>6, BusyJob, GotoType, StopType, RowTypes
  DEF MarkFailed, EventOf, Events
<1>7. CASE Reject(w)
  BY <1>7, BusyJob, GotoType, StopType, RowTypes DEF Reject, EventOf, Events
<1>8. CASE Ack(w)
  BY <1>8, BusyJob, GotoType, StopType, RowTypes DEF Ack, EventOf, Events
<1>9. CASE ConfirmRead(w)
  BY <1>9, BusyJob, GotoType, StopType, RowTypes
  DEF ConfirmRead, ToBundle, Refused, IsWebhook
<1>10. CASE ConfirmSubs(w)
  BY <1>10, BusyJob, GotoType, StopType, RowTypes
  DEF ConfirmSubs, ToBundle, Refused, IsWebhook
<1>11. CASE Bundle(w)
  BY <1>11, BusyJob, GotoType, StopType, RowTypes
  DEF Bundle, RpcTransaction, Refused, IsWebhook
<1>12. CASE BundleUnanswered(w)
  BY <1>12, BusyJob, GotoType, StopType, RowTypes
  DEF BundleUnanswered, RpcTransaction
<1>13. CASE FallbackRead(w)
  BY <1>13, BusyJob, GotoType, StopType, RowTypes
  DEF FallbackRead, Refused, IsWebhook
<1>14. CASE FallbackSubs(w)
  BY <1>14, BusyJob, GotoType, StopType, RowTypes DEF FallbackSubs
<1>15. CASE FallbackMark(w)
  BY <1>15, BusyJob, GotoType, StopType, RowTypes DEF FallbackMark
<1>16. CASE FallbackInsert(w)
  BY <1>16, BusyJob, GotoType, StopType, RowTypes DEF FallbackInsert
<1>17. CASE EnsureUsage(w)
  BY <1>17, BusyJob, GotoType, StopType, RowTypes
  DEF EnsureUsage, AfterConfirm, IsWebhook
<1>18. CASE FailedRead(w)
  BY <1>18, BusyJob, GotoType, StopType, RowTypes DEF FailedRead
<1>19. CASE FailedMark(w)
  BY <1>19, BusyJob, GotoType, StopType, RowTypes
  DEF FailedMark, MarkStatus, RowStatus
<1>20. CASE RefundLookup(w)
  BY <1>20, BusyJob, GotoType, StopType, RowTypes DEF RefundLookup
<1>21. CASE RefundMark(w)
  BY <1>21, BusyJob, GotoType, StopType, RowTypes
  DEF RefundMark, MarkStatus, RowStatus
<1>22. CASE RefundCancel(w)
  BY <1>22, BusyJob, GotoType, StopType, RowTypes DEF RefundCancel
<1>23. CASE CallFails(w)
  BY <1>23, BusyJob, GotoType, StopType, RowTypes DEF CallFails, IsWebhook
<1>24. CASE Killed(w)
  BY <1>24, BusyJob, GotoType, StopType, RowTypes DEF Killed
<1> QED BY <1>1, <1>2, <1>3, <1>4, <1>5, <1>6, <1>7, <1>8, <1>9, <1>10, <1>11,
           <1>12, <1>13, <1>14, <1>15, <1>16, <1>17, <1>18, <1>19, <1>20,
           <1>21, <1>22, <1>23, <1>24
           DEF Step, Fault

(* Every step of a worker leaves the jobs in their handlers.               *)
LEMMA ShapeStep ==
  ASSUME TypeInv, TypeOK', NEW w \in Workers, Step(w) \/ Fault(w)
  PROVE  CallShape'
<1> USE DEF At, Free, Goto, GotoSeen, SetJob, Stop, TypeInv, TypeOK,
            CallShape, Kinds, Steps, WebhookSteps, ConfirmSteps,
            FallbackSteps, FailedSteps, RefundSteps, AnswerSteps,
            ReconcileSteps
<1>1. CASE ReconcileClassify(w)
  BY <1>1, BusyJob DEF ReconcileClassify, db
<1>2. CASE InsertEvent(w)
  BY <1>2, BusyJob DEF InsertEvent, HandlerOf, EventOf, Events
<1>3. CASE ReadEvent(w)
  BY <1>3, BusyJob DEF ReadEvent, db, EventOf
<1>4. CASE ClaimEvent(w)
  BY <1>4, BusyJob DEF ClaimEvent, HandlerOf, EventOf, Events
<1>5. CASE MarkProcessed(w)
  BY <1>5, BusyJob DEF MarkProcessed, EventOf, Events
<1>6. CASE MarkFailed(w)
  BY <1>6, BusyJob DEF MarkFailed, EventOf, Events
<1>7. CASE Reject(w)
  BY <1>7, BusyJob DEF Reject, EventOf, Events
<1>8. CASE Ack(w)
  BY <1>8, BusyJob DEF Ack, db, EventOf, Events
<1>9. CASE ConfirmRead(w)
  BY <1>9, BusyJob DEF ConfirmRead, db, ToBundle, Refused, IsWebhook
<1>10. CASE ConfirmSubs(w)
  BY <1>10, BusyJob DEF ConfirmSubs, db, ToBundle, Refused, IsWebhook
<1>11. CASE Bundle(w)
  BY <1>11, BusyJob DEF Bundle, RpcTransaction, Refused, IsWebhook
<1>12. CASE BundleUnanswered(w)
  BY <1>12, BusyJob DEF BundleUnanswered, RpcTransaction
<1>13. CASE FallbackRead(w)
  BY <1>13, BusyJob DEF FallbackRead, db, Refused, IsWebhook
<1>14. CASE FallbackSubs(w)
  BY <1>14, BusyJob DEF FallbackSubs, db
<1>15. CASE FallbackMark(w)
  BY <1>15, BusyJob DEF FallbackMark
<1>16. CASE FallbackInsert(w)
  BY <1>16, BusyJob DEF FallbackInsert
<1>17. CASE EnsureUsage(w)
  BY <1>17, BusyJob DEF EnsureUsage, AfterConfirm, IsWebhook
<1>18. CASE FailedRead(w)
  BY <1>18, BusyJob DEF FailedRead, db
<1>19. CASE FailedMark(w)
  BY <1>19, BusyJob DEF FailedMark, MarkStatus, RowStatus
<1>20. CASE RefundLookup(w)
  BY <1>20, BusyJob DEF RefundLookup, db
<1>21. CASE RefundMark(w)
  BY <1>21, BusyJob DEF RefundMark, MarkStatus, RowStatus
<1>22. CASE RefundCancel(w)
  BY <1>22, BusyJob DEF RefundCancel
<1>23. CASE CallFails(w)
  BY <1>23, BusyJob DEF CallFails, db, IsWebhook
<1>24. CASE Killed(w)
  BY <1>24, BusyJob DEF Killed, db
<1> QED BY <1>1, <1>2, <1>3, <1>4, <1>5, <1>6, <1>7, <1>8, <1>9, <1>10, <1>11,
           <1>12, <1>13, <1>14, <1>15, <1>16, <1>17, <1>18, <1>19, <1>20,
           <1>21, <1>22, <1>23, <1>24
           DEF Step, Fault

(* What Razorpay and the user do, and what starts a handler.               *)
LEMMA EnvironmentTypes ==
  ASSUME TypeInv, NEW o \in Orders, Environment(o)
  PROVE  TypeInv'
<1> USE DEF TypeInv, TypeOK, CallShape, db
<1>1. CASE CreateOrder(o)
  BY <1>1, RowTypes DEF CreateOrder, RowStatus
<1>2. CASE AttemptFails(o)
  BY <1>2 DEF AttemptFails, Events, Kinds
<1>3. CASE Capture(o)
  BY <1>3 DEF Capture, Captured, Events, Kinds
<1>4. CASE Refund(o)
  BY <1>4 DEF Refund, Refunded, Events, Kinds
<1> QED BY <1>1, <1>2, <1>3, <1>4 DEF Environment

LEMMA BeginTypes ==
  ASSUME TypeInv, NEW w \in Workers, Begin(w)
  PROVE  TypeInv'
<1> USE DEF TypeInv, TypeOK, CallShape, db, others, env, Calls, Steps,
            WebhookSteps, ConfirmSteps, FallbackSteps, FailedSteps, RefundSteps,
            AnswerSteps, ReconcileSteps
<1>1. ASSUME NEW o \in Orders, NEW kind \in Kinds, Deliver(w, o, kind)
      PROVE  TypeInv'
  <2>1. TypeOK'
    BY <1>1, SetJobType, RowTypes DEF Deliver
  <2> QED BY <1>1, <2>1 DEF Deliver, SetJob
<1>2. ASSUME NEW o \in Orders, Verify(w, o) \/ Reconcile(w, o) PROVE TypeInv'
  <2>1. TypeOK'
    BY <1>2, SetJobType, RowTypes DEF Verify, Reconcile
  <2> QED BY <1>2, <2>1 DEF Verify, Reconcile, SetJob
<1> QED BY <1>1, <1>2 DEF Begin

(* Rows, subscriptions, usage rows, events and jobs always have their types, *)
(* and a handler is always at a point of its own call.                     *)
THEOREM TypeCorrect == Spec => [](TypeOK /\ CallShape)
<1>1. Init => TypeInv
  BY RowTypes DEF Init, TypeInv, TypeOK, CallShape
<1>2. TypeInv /\ [Next]_vars => TypeInv'
  <2>1. CASE UNCHANGED vars
    BY <2>1 DEF vars, TypeInv, TypeOK, CallShape
  <2>2. CASE Next
    BY <2>2, TypeStep, ShapeStep, EnvironmentTypes, BeginTypes
    DEF Next, TypeInv
  <2> QED BY <2>1, <2>2
<1> QED BY <1>1, <1>2, PTL DEF Spec, TypeInv

-----------------------------------------------------------------------------
(* Evidence: a handler, a paid row and a subscription each mean that       *)
(* Razorpay captured the payment, for the right amount; a refund handler   *)
(* and a refunded row mean that it was refunded.                           *)

Confirming == {"payment.captured", "verify", "reconcile"}

JobEvidence ==
  \A w \in Workers : job[w] # Idle =>
    /\ job[w].call \in Confirming => rzp[job[w].order] # "open"
    /\ job[w].call = "refund.created" => rzp[job[w].order] = "refunded"
    /\ job[w].pc \in {"bundle", "usage"} \cup FallbackSteps =>
         job[w].order \notin WrongAmount

DataEvidence ==
  /\ \A o \in Orders :
       /\ Captured(o) \in emitted => rzp[o] # "open"
       /\ Refunded(o) \in emitted => rzp[o] = "refunded"
       /\ row[o].status = "paid" => rzp[o] # "open"
       /\ row[o].status = "refunded" => rzp[o] = "refunded"
  /\ GrantRequiresCapture

Evidence == JobEvidence /\ DataEvidence

(* A step of a worker keeps the evidence of the jobs.                      *)
LEMMA JobEvidenceStep ==
  ASSUME TypeInv, TypeInv', Evidence, NEW w \in Workers, Step(w) \/ Fault(w)
  PROVE  JobEvidence'
<1> USE DEF At, Free, Goto, GotoSeen, SetJob, Stop, TypeInv, TypeOK,
            CallShape, Evidence, JobEvidence, DataEvidence,
            GrantRequiresCapture, Confirming, others, env, db, WebhookSteps,
            ConfirmSteps, FallbackSteps, FailedSteps, RefundSteps,
            AnswerSteps, ReconcileSteps
<1>1. CASE ReconcileClassify(w)
  BY <1>1, BusyJob DEF ReconcileClassify
<1>2. CASE InsertEvent(w)
  BY <1>2, BusyJob DEF InsertEvent, HandlerOf, EventOf, Events
<1>3. CASE ReadEvent(w)
  BY <1>3, BusyJob DEF ReadEvent, EventOf
<1>4. CASE ClaimEvent(w)
  BY <1>4, BusyJob DEF ClaimEvent, HandlerOf, EventOf, Events
<1>5. CASE MarkProcessed(w)
  BY <1>5, BusyJob DEF MarkProcessed, EventOf, Events
<1>6. CASE MarkFailed(w)
  BY <1>6, BusyJob DEF MarkFailed, EventOf, Events
<1>7. CASE Reject(w)
  BY <1>7, BusyJob DEF Reject, EventOf, Events
<1>8. CASE Ack(w)
  BY <1>8, BusyJob DEF Ack, EventOf, Events
<1>9. CASE ConfirmRead(w)
  BY <1>9, BusyJob DEF ConfirmRead, ToBundle, Refused, IsWebhook
<1>10. CASE ConfirmSubs(w)
  BY <1>10, BusyJob DEF ConfirmSubs, ToBundle, Refused, IsWebhook
<1>11. CASE Bundle(w)
  BY <1>11, BusyJob DEF Bundle, RpcTransaction, Refused, IsWebhook
<1>12. CASE BundleUnanswered(w)
  BY <1>12, BusyJob DEF BundleUnanswered, RpcTransaction
<1>13. CASE FallbackRead(w)
  BY <1>13, BusyJob DEF FallbackRead, Refused, IsWebhook
<1>14. CASE FallbackSubs(w)
  BY <1>14, BusyJob DEF FallbackSubs
<1>15. CASE FallbackMark(w)
  BY <1>15, BusyJob DEF FallbackMark
<1>16. CASE FallbackInsert(w)
  BY <1>16, BusyJob DEF FallbackInsert
<1>17. CASE EnsureUsage(w)
  BY <1>17, BusyJob DEF EnsureUsage, AfterConfirm, IsWebhook
<1>18. CASE FailedRead(w)
  BY <1>18, BusyJob DEF FailedRead
<1>19. CASE FailedMark(w)
  BY <1>19, BusyJob DEF FailedMark, MarkStatus, RowStatus
<1>20. CASE RefundLookup(w)
  BY <1>20, BusyJob DEF RefundLookup
<1>21. CASE RefundMark(w)
  BY <1>21, BusyJob DEF RefundMark, MarkStatus, RowStatus
<1>22. CASE RefundCancel(w)
  BY <1>22, BusyJob DEF RefundCancel
<1>23. CASE CallFails(w)
  BY <1>23, BusyJob DEF CallFails, IsWebhook
<1>24. CASE Killed(w)
  BY <1>24, BusyJob DEF Killed
<1> QED BY <1>1, <1>2, <1>3, <1>4, <1>5, <1>6, <1>7, <1>8, <1>9, <1>10, <1>11,
           <1>12, <1>13, <1>14, <1>15, <1>16, <1>17, <1>18, <1>19, <1>20,
           <1>21, <1>22, <1>23, <1>24
           DEF Step, Fault

(* A step of a worker keeps the evidence of the tables.                    *)
LEMMA DataEvidenceStep ==
  ASSUME TypeInv, TypeInv', Evidence, NEW w \in Workers, Step(w) \/ Fault(w)
  PROVE  DataEvidence'
<1> USE DEF At, Free, TypeInv, TypeOK, CallShape, Evidence, JobEvidence,
            DataEvidence, GrantRequiresCapture, Confirming, others, env, db,
            PaidRow, ConfirmSteps, FallbackSteps, RefundSteps, FailedSteps
<1>1. CASE ReconcileClassify(w)
  BY <1>1, BusyJob DEF ReconcileClassify
<1>2. CASE InsertEvent(w)
  BY <1>2, BusyJob DEF InsertEvent, HandlerOf, EventOf, Events
<1>3. CASE ReadEvent(w)
  BY <1>3, BusyJob DEF ReadEvent, EventOf
<1>4. CASE ClaimEvent(w)
  BY <1>4, BusyJob DEF ClaimEvent, HandlerOf, EventOf, Events
<1>5. CASE MarkProcessed(w)
  BY <1>5, BusyJob DEF MarkProcessed, EventOf, Events
<1>6. CASE MarkFailed(w)
  BY <1>6, BusyJob DEF MarkFailed, EventOf, Events
<1>7. CASE Reject(w)
  BY <1>7, BusyJob DEF Reject, EventOf, Events
<1>8. CASE Ack(w)
  BY <1>8, BusyJob DEF Ack, EventOf, Events
<1>9. CASE ConfirmRead(w)
  BY <1>9, BusyJob DEF ConfirmRead, ToBundle, Refused, IsWebhook
<1>10. CASE ConfirmSubs(w)
  BY <1>10, BusyJob DEF ConfirmSubs, ToBundle, Refused, IsWebhook
<1>11. CASE Bundle(w)
  BY <1>11, BusyJob DEF Bundle, RpcTransaction, Refused, IsWebhook
<1>12. CASE BundleUnanswered(w)
  BY <1>12, BusyJob DEF BundleUnanswered, RpcTransaction
<1>13. CASE FallbackRead(w)
  BY <1>13, BusyJob DEF FallbackRead, Refused, IsWebhook
<1>14. CASE FallbackSubs(w)
  BY <1>14, BusyJob DEF FallbackSubs
<1>15. CASE FallbackMark(w)
  BY <1>15, BusyJob DEF FallbackMark
<1>16. CASE FallbackInsert(w)
  BY <1>16, BusyJob DEF FallbackInsert
<1>17. CASE EnsureUsage(w)
  BY <1>17, BusyJob DEF EnsureUsage, AfterConfirm, IsWebhook
<1>18. CASE FailedRead(w)
  BY <1>18, BusyJob DEF FailedRead
<1>19. CASE FailedMark(w)
  BY <1>19, BusyJob DEF FailedMark, MarkStatus, RowStatus
<1>20. CASE RefundLookup(w)
  BY <1>20, BusyJob DEF RefundLookup
<1>21. CASE RefundMark(w)
  BY <1>21, BusyJob DEF RefundMark, MarkStatus, RowStatus
<1>22. CASE RefundCancel(w)
  BY <1>22, BusyJob DEF RefundCancel
<1>23. CASE CallFails(w)
  BY <1>23, BusyJob DEF CallFails, IsWebhook
<1>24. CASE Killed(w)
  BY <1>24, BusyJob DEF Killed
<1> QED BY <1>1, <1>2, <1>3, <1>4, <1>5, <1>6, <1>7, <1>8, <1>9, <1>10, <1>11,
           <1>12, <1>13, <1>14, <1>15, <1>16, <1>17, <1>18, <1>19, <1>20,
           <1>21, <1>22, <1>23, <1>24
           DEF Step, Fault

LEMMA EvidenceOutside ==
  ASSUME TypeInv, TypeInv', Evidence,
         \/ \E o \in Orders : Environment(o)
         \/ \E w \in Workers : Begin(w)
  PROVE  Evidence'
<1> USE DEF TypeInv, TypeOK, Evidence, JobEvidence, DataEvidence,
            GrantRequiresCapture, Captured, Refunded, db, others, env
<1>1. ASSUME NEW o \in Orders, CreateOrder(o) PROVE Evidence'
  BY <1>1 DEF CreateOrder
<1>2. ASSUME NEW o \in Orders, AttemptFails(o) PROVE Evidence'
  BY <1>2 DEF AttemptFails
<1>3. ASSUME NEW o \in Orders, Capture(o) PROVE Evidence'
  <2>1. JobEvidence'
    BY <1>3, BusyJob DEF Capture
  <2> QED BY <1>3, <2>1 DEF Capture
<1>4. ASSUME NEW o \in Orders, Refund(o) PROVE Evidence'
  <2>1. JobEvidence'
    BY <1>4, BusyJob DEF Refund
  <2> QED BY <1>4, <2>1 DEF Refund
<1>5. ASSUME NEW w \in Workers, NEW o \in Orders, NEW kind \in Kinds,
             Deliver(w, o, kind)
      PROVE  Evidence'
  <2>1. /\ kind = "payment.captured" => rzp[o] # "open"
        /\ kind = "refund.created" => rzp[o] = "refunded"
    BY <1>5 DEF Deliver
  <2>2. JobEvidence'
    BY <1>5, <2>1, BusyJob
    DEF Deliver, SetJob, Confirming, Kinds, FallbackSteps
  <2> QED BY <1>5, <2>2 DEF Deliver
<1>6. ASSUME NEW w \in Workers, NEW o \in Orders, Verify(w, o) \/ Reconcile(w, o)
      PROVE  Evidence'
  <2>1. rzp[o] # "open"
    BY <1>6 DEF Verify, Reconcile
  <2>2. JobEvidence'
    BY <1>6, <2>1, BusyJob
    DEF Verify, Reconcile, SetJob, Confirming, FallbackSteps
  <2> QED BY <1>6, <2>2 DEF Verify, Reconcile
<1> QED
  BY <1>1, <1>2, <1>3, <1>4, <1>5, <1>6 DEF Environment, Begin

LEMMA EvidenceCorrect == Spec => [](TypeInv /\ Evidence)
<1>1. Init => Evidence
  BY DEF Init, NoRow, Evidence, JobEvidence, DataEvidence,
         GrantRequiresCapture, Captured, Refunded
<1>2. TypeInv /\ TypeInv' /\ Evidence /\ [Next]_vars => Evidence'
  <2>1. CASE UNCHANGED vars
    BY <2>1
    DEF vars, Evidence, JobEvidence, DataEvidence, GrantRequiresCapture
  <2>2. CASE Next
    BY <2>2, JobEvidenceStep, DataEvidenceStep, EvidenceOutside
    DEF Next, Evidence
  <2> QED BY <2>1, <2>2
<1> QED BY <1>1, <1>2, TypeCorrect, PTL DEF Spec, TypeInv

(* No subscription exists without a capture of the right amount, whatever  *)
(* path confirmed it and whatever failed.                                  *)
THEOREM GrantCorrect == Spec => []GrantRequiresCapture
<1>1. Evidence => GrantRequiresCapture
  BY DEF Evidence, DataEvidence
<1> QED BY <1>1, EvidenceCorrect, PTL

-----------------------------------------------------------------------------
(* Fulfilment: what the program point of a capture handler says has been   *)
(* done, and the two properties that rest on it.                           *)

Settled(o) == Fulfilled(o) \/ o \in WrongAmount \/ rzp[o] = "refunded"

JobFulfilment ==
  \A w \in Workers : job[w] # Idle =>
    /\ job[w].pc = "usage" => sub[job[w].order] # "none"
    /\ job[w].call = "payment.captured" =>
         /\ job[w].pc = "markProcessed" => Fulfilled(job[w].order)
         /\ job[w].pc = "reject" =>
              job[w].order \in WrongAmount \/ rzp[job[w].order] = "refunded"
         /\ job[w].pc = "ack" => Settled(job[w].order)

Fulfilment == JobFulfilment /\ EventLogTruthful /\ CaptureAnswered

(* No step of a worker takes fulfilment away: a cancelled subscription is  *)
(* still there, and so are its usage rows.                                 *)
LEMMA FulfilledGrows ==
  ASSUME TypeInv, TypeInv', NEW w \in Workers, Step(w) \/ Fault(w)
  PROVE  \A o \in Orders : /\ sub[o] # "none" => sub'[o] # "none"
                           /\ usage[o] \subseteq usage'[o]
                           /\ Fulfilled(o) => Fulfilled(o)'
                           /\ rzp'[o] = rzp[o]
<1> USE DEF At, TypeInv, TypeOK, db, others, env, Fulfilled
<1>1. CASE ReconcileClassify(w)
  BY <1>1, BusyJob DEF ReconcileClassify
<1>2. CASE InsertEvent(w)
  BY <1>2, BusyJob DEF InsertEvent, HandlerOf, EventOf, Events
<1>3. CASE ReadEvent(w)
  BY <1>3, BusyJob DEF ReadEvent, EventOf
<1>4. CASE ClaimEvent(w)
  BY <1>4, BusyJob DEF ClaimEvent, HandlerOf, EventOf, Events
<1>5. CASE MarkProcessed(w)
  BY <1>5, BusyJob DEF MarkProcessed, EventOf, Events
<1>6. CASE MarkFailed(w)
  BY <1>6, BusyJob DEF MarkFailed, EventOf, Events
<1>7. CASE Reject(w)
  BY <1>7, BusyJob DEF Reject, EventOf, Events
<1>8. CASE Ack(w)
  BY <1>8, BusyJob DEF Ack, EventOf, Events
<1>9. CASE ConfirmRead(w)
  BY <1>9, BusyJob DEF ConfirmRead, ToBundle, Refused, IsWebhook
<1>10. CASE ConfirmSubs(w)
  BY <1>10, BusyJob DEF ConfirmSubs, ToBundle, Refused, IsWebhook
<1>11. CASE Bundle(w)
  BY <1>11, BusyJob DEF Bundle, RpcTransaction, Refused, IsWebhook
<1>12. CASE BundleUnanswered(w)
  BY <1>12, BusyJob DEF BundleUnanswered, RpcTransaction
<1>13. CASE FallbackRead(w)
  BY <1>13, BusyJob DEF FallbackRead, Refused, IsWebhook
<1>14. CASE FallbackSubs(w)
  BY <1>14, BusyJob DEF FallbackSubs
<1>15. CASE FallbackMark(w)
  BY <1>15, BusyJob DEF FallbackMark
<1>16. CASE FallbackInsert(w)
  BY <1>16, BusyJob DEF FallbackInsert
<1>17. CASE EnsureUsage(w)
  BY <1>17, BusyJob DEF EnsureUsage, AfterConfirm, IsWebhook
<1>18. CASE FailedRead(w)
  BY <1>18, BusyJob DEF FailedRead
<1>19. CASE FailedMark(w)
  BY <1>19, BusyJob DEF FailedMark, MarkStatus, RowStatus
<1>20. CASE RefundLookup(w)
  BY <1>20, BusyJob DEF RefundLookup
<1>21. CASE RefundMark(w)
  BY <1>21, BusyJob DEF RefundMark, MarkStatus, RowStatus
<1>22. CASE RefundCancel(w)
  BY <1>22, BusyJob DEF RefundCancel
<1>23. CASE CallFails(w)
  BY <1>23, BusyJob DEF CallFails, Free, IsWebhook
<1>24. CASE Killed(w)
  BY <1>24, BusyJob DEF Killed, Free
<1> QED BY <1>1, <1>2, <1>3, <1>4, <1>5, <1>6, <1>7, <1>8, <1>9, <1>10, <1>11,
           <1>12, <1>13, <1>14, <1>15, <1>16, <1>17, <1>18, <1>19, <1>20,
           <1>21, <1>22, <1>23, <1>24
           DEF Step, Fault

(* A row that reads refunded was refunded at Razorpay.                      *)
LEMMA RefundedRow ==
  ASSUME TypeInv, Evidence, NEW w \in Workers, job[w] # Idle
  PROVE  row[job[w].order].status = "refunded" => rzp[job[w].order] = "refunded"
  BY BusyJob DEF TypeInv, Evidence, DataEvidence

(* A step of a worker keeps what the program points say.                   *)
LEMMA JobFulfilmentStep ==
  ASSUME TypeInv, TypeInv', Evidence, Fulfilment,
         NEW w \in Workers, Step(w) \/ Fault(w)
  PROVE  JobFulfilment'
<1> USE DEF others, env, db, Fulfilled, At, Free, Goto, GotoSeen, SetJob,
            Stop, TypeInv, TypeOK, CallShape, Fulfilment, JobFulfilment,
            EventLogTruthful, Captured, Settled, WebhookSteps, ConfirmSteps,
            FallbackSteps, FailedSteps, RefundSteps, AnswerSteps,
            ReconcileSteps
<1>1. CASE ReconcileClassify(w)
  BY <1>1, BusyJob, RefundedRow DEF ReconcileClassify
<1>2. CASE InsertEvent(w)
  BY <1>2, BusyJob, RefundedRow DEF InsertEvent, HandlerOf, EventOf, Events
<1>3. CASE ReadEvent(w)
  BY <1>3, BusyJob, RefundedRow DEF ReadEvent, EventOf
<1>4. CASE ClaimEvent(w)
  BY <1>4, BusyJob, RefundedRow DEF ClaimEvent, HandlerOf, EventOf, Events
<1>5. CASE MarkProcessed(w)
  BY <1>5, BusyJob, RefundedRow DEF MarkProcessed, EventOf, Events
<1>6. CASE MarkFailed(w)
  BY <1>6, BusyJob, RefundedRow DEF MarkFailed, EventOf, Events
<1>7. CASE Reject(w)
  BY <1>7, BusyJob, RefundedRow DEF Reject, EventOf, Events
<1>8. CASE Ack(w)
  BY <1>8, BusyJob, RefundedRow DEF Ack, EventOf, Events
<1>9. CASE ConfirmRead(w)
  BY <1>9, BusyJob, RefundedRow DEF ConfirmRead, ToBundle, Refused, IsWebhook
<1>10. CASE ConfirmSubs(w)
  BY <1>10, BusyJob, RefundedRow DEF ConfirmSubs, ToBundle, Refused, IsWebhook
<1>11. CASE Bundle(w)
  BY <1>11, BusyJob, RefundedRow
  DEF Bundle, RpcTransaction, Refused, IsWebhook
<1>12. CASE BundleUnanswered(w)
  BY <1>12, BusyJob, RefundedRow DEF BundleUnanswered, RpcTransaction
<1>13. CASE FallbackRead(w)
  BY <1>13, BusyJob, RefundedRow DEF FallbackRead, Refused, IsWebhook
<1>14. CASE FallbackSubs(w)
  BY <1>14, BusyJob, RefundedRow DEF FallbackSubs
<1>15. CASE FallbackMark(w)
  BY <1>15, BusyJob, RefundedRow DEF FallbackMark
<1>16. CASE FallbackInsert(w)
  BY <1>16, BusyJob, RefundedRow DEF FallbackInsert
<1>17. CASE EnsureUsage(w)
  BY <1>17, BusyJob, RefundedRow DEF EnsureUsage, AfterConfirm, IsWebhook
<1>18. CASE FailedRead(w)
  BY <1>18, BusyJob, RefundedRow DEF FailedRead
<1>19. CASE FailedMark(w)
  BY <1>19, BusyJob, RefundedRow DEF FailedMark, MarkStatus, RowStatus
<1>20. CASE RefundLookup(w)
  BY <1>20, BusyJob, RefundedRow DEF RefundLookup
<1>21. CASE RefundMark(w)
  BY <1>21, BusyJob, RefundedRow DEF RefundMark, MarkStatus, RowStatus
<1>22. CASE RefundCancel(w)
  BY <1>22, BusyJob, RefundedRow DEF RefundCancel
<1>23. CASE CallFails(w)
  BY <1>23, BusyJob, RefundedRow DEF CallFails, IsWebhook
<1>24. CASE Killed(w)
  BY <1>24, BusyJob, RefundedRow DEF Killed
<1> QED BY <1>1, <1>2, <1>3, <1>4, <1>5, <1>6, <1>7, <1>8, <1>9, <1>10, <1>11,
           <1>12, <1>13, <1>14, <1>15, <1>16, <1>17, <1>18, <1>19, <1>20,
           <1>21, <1>22, <1>23, <1>24
           DEF Step, Fault

(* A step of a worker keeps the event log and the answers truthful.        *)
LEMMA LogStep ==
  ASSUME TypeInv, TypeInv', Evidence, Fulfilment,
         NEW w \in Workers, Step(w) \/ Fault(w)
  PROVE  (EventLogTruthful /\ CaptureAnswered)'
<1> USE DEF At, TypeInv, TypeOK, Evidence, Fulfilment, JobFulfilment,
            EventLogTruthful, CaptureAnswered, Captured, Settled, Fulfilled,
            others, env, db, Kinds
<1>1. CASE ReconcileClassify(w)
  BY <1>1, BusyJob DEF ReconcileClassify
<1>2. CASE InsertEvent(w)
  BY <1>2, BusyJob DEF InsertEvent, HandlerOf, EventOf, Events
<1>3. CASE ReadEvent(w)
  BY <1>3, BusyJob DEF ReadEvent, EventOf
<1>4. CASE ClaimEvent(w)
  BY <1>4, BusyJob DEF ClaimEvent, HandlerOf, EventOf, Events
<1>5. CASE MarkProcessed(w)
  BY <1>5, BusyJob DEF MarkProcessed, EventOf, Events
<1>6. CASE MarkFailed(w)
  BY <1>6, BusyJob DEF MarkFailed, EventOf, Events
<1>7. CASE Reject(w)
  BY <1>7, BusyJob DEF Reject, EventOf, Events
<1>8. CASE Ack(w)
  BY <1>8, BusyJob DEF Ack, EventOf, Events
<1>9. CASE ConfirmRead(w)
  BY <1>9, BusyJob DEF ConfirmRead, ToBundle, Refused, IsWebhook
<1>10. CASE ConfirmSubs(w)
  BY <1>10, BusyJob DEF ConfirmSubs, ToBundle, Refused, IsWebhook
<1>11. CASE Bundle(w)
  BY <1>11, BusyJob DEF Bundle, RpcTransaction, Refused, IsWebhook
<1>12. CASE BundleUnanswered(w)
  BY <1>12, BusyJob DEF BundleUnanswered, RpcTransaction
<1>13. CASE FallbackRead(w)
  BY <1>13, BusyJob DEF FallbackRead, Refused, IsWebhook
<1>14. CASE FallbackSubs(w)
  BY <1>14, BusyJob DEF FallbackSubs
<1>15. CASE FallbackMark(w)
  BY <1>15, BusyJob DEF FallbackMark
<1>16. CASE FallbackInsert(w)
  BY <1>16, BusyJob DEF FallbackInsert
<1>17. CASE EnsureUsage(w)
  BY <1>17, BusyJob DEF EnsureUsage, AfterConfirm, IsWebhook
<1>18. CASE FailedRead(w)
  BY <1>18, BusyJob DEF FailedRead
<1>19. CASE FailedMark(w)
  BY <1>19, BusyJob DEF FailedMark, MarkStatus, RowStatus
<1>20. CASE RefundLookup(w)
  BY <1>20, BusyJob DEF RefundLookup
<1>21. CASE RefundMark(w)
  BY <1>21, BusyJob DEF RefundMark, MarkStatus, RowStatus
<1>22. CASE RefundCancel(w)
  BY <1>22, BusyJob DEF RefundCancel
<1>23. CASE CallFails(w)
  BY <1>23, BusyJob DEF CallFails, Free, IsWebhook
<1>24. CASE Killed(w)
  BY <1>24, BusyJob DEF Killed, Free
<1> QED BY <1>1, <1>2, <1>3, <1>4, <1>5, <1>6, <1>7, <1>8, <1>9, <1>10, <1>11,
           <1>12, <1>13, <1>14, <1>15, <1>16, <1>17, <1>18, <1>19, <1>20,
           <1>21, <1>22, <1>23, <1>24
           DEF Step, Fault

LEMMA FulfilmentOutside ==
  ASSUME TypeInv, TypeInv', Evidence, Fulfilment,
         \/ \E o \in Orders : Environment(o)
         \/ \E w \in Workers : Begin(w)
  PROVE  Fulfilment'
<1> USE DEF TypeInv, TypeOK, Fulfilment, JobFulfilment, EventLogTruthful,
            CaptureAnswered, Fulfilled, Settled, Captured, db, others, env
<1>1. ASSUME NEW o \in Orders, CreateOrder(o) \/ AttemptFails(o)
      PROVE  Fulfilment'
  BY <1>1 DEF CreateOrder, AttemptFails
<1>2. ASSUME NEW o \in Orders, Capture(o) \/ Refund(o) PROVE Fulfilment'
  <2>1. \A p \in Orders : rzp[p] = "refunded" => rzp'[p] = "refunded"
    BY <1>2 DEF Capture, Refund
  <2>2. JobFulfilment'
    BY <1>2, <2>1, BusyJob DEF Capture, Refund
  <2> QED BY <1>2, <2>1, <2>2 DEF Capture, Refund
<1>3. ASSUME NEW w \in Workers, Begin(w) PROVE Fulfilment'
  <2>1. UNCHANGED <<row, sub, usage, event, rzp, emitted, faults, acked>>
    BY <1>3 DEF Begin, Deliver, Verify, Reconcile
  <2>2. PICK call, o, seen :
          \E pc \in {"insertEvent", "confirmRead", "reconcileSubs"} :
            SetJob(w, call, o, pc, seen)
    BY <1>3 DEF Begin, Deliver, Verify, Reconcile
  <2>3. JobFulfilment'
    BY <2>1, <2>2, BusyJob DEF SetJob
  <2> QED BY <2>1, <2>3
<1> QED BY <1>1, <1>2, <1>3 DEF Environment

LEMMA FulfilmentCorrect == Spec => []Fulfilment
<1>1. Init => Fulfilment
  BY DEF Init, Fulfilment, JobFulfilment, EventLogTruthful, CaptureAnswered,
         Captured, Events, Kinds
<1>2. TypeInv /\ TypeInv' /\ Evidence /\ Fulfilment /\ [Next]_vars => Fulfilment'
  <2>1. CASE UNCHANGED vars
    BY <2>1
    DEF vars, Fulfilment, JobFulfilment, EventLogTruthful, CaptureAnswered,
        Fulfilled, Settled
  <2>2. CASE Next
    BY <2>2, JobFulfilmentStep, LogStep, FulfilmentOutside
    DEF Next, Fulfilment
  <2> QED BY <2>1, <2>2
<1> QED BY <1>1, <1>2, EvidenceCorrect, PTL DEF Spec

(* An event the log calls processed left a subscription and every usage    *)
(* row of the plan, in every interleaving, with the RPC or the fallback.   *)
THEOREM EventLogCorrect == Spec => []EventLogTruthful
<1>1. Fulfilment => EventLogTruthful
  BY DEF Fulfilment
<1> QED BY <1>1, FulfilmentCorrect, PTL

(* A capture is answered only when it is fulfilled, refused for its amount *)
(* or refunded: redelivery never stops too early.                          *)
THEOREM CaptureAnsweredCorrect == Spec => []CaptureAnswered
<1>1. Fulfilment => CaptureAnswered
  BY DEF Fulfilment
<1> QED BY <1>1, FulfilmentCorrect, PTL

-----------------------------------------------------------------------------
(* The detailed specification implements Entitlement                       *)

(* A step of a worker grants the access of a captured order, revokes that  *)
(* of a refunded one, or leaves access alone.                              *)
LEMMA StepRefines ==
  ASSUME TypeInv, TypeInv', Evidence, NEW w \in Workers, Step(w) \/ Fault(w)
  PROVE  [Promise!Next]_(Promise!vars)
<1> USE DEF At, TypeInv, TypeOK, CallShape, Evidence, JobEvidence,
            DataEvidence, Confirming, others, env, db, ConfirmSteps,
            FallbackSteps, RefundSteps, Promise!Next, Promise!Grant,
            Promise!Revoke, Promise!vars
<1>1. CASE ReconcileClassify(w)
  BY <1>1, BusyJob DEF ReconcileClassify
<1>2. CASE InsertEvent(w)
  BY <1>2, BusyJob DEF InsertEvent, HandlerOf, EventOf, Events
<1>3. CASE ReadEvent(w)
  BY <1>3, BusyJob DEF ReadEvent, EventOf
<1>4. CASE ClaimEvent(w)
  BY <1>4, BusyJob DEF ClaimEvent, HandlerOf, EventOf, Events
<1>5. CASE MarkProcessed(w)
  BY <1>5, BusyJob DEF MarkProcessed, EventOf, Events
<1>6. CASE MarkFailed(w)
  BY <1>6, BusyJob DEF MarkFailed, EventOf, Events
<1>7. CASE Reject(w)
  BY <1>7, BusyJob DEF Reject, EventOf, Events
<1>8. CASE Ack(w)
  BY <1>8, BusyJob DEF Ack, EventOf, Events
<1>9. CASE ConfirmRead(w)
  BY <1>9, BusyJob DEF ConfirmRead, ToBundle, Refused, IsWebhook
<1>10. CASE ConfirmSubs(w)
  BY <1>10, BusyJob DEF ConfirmSubs, ToBundle, Refused, IsWebhook
<1>11. CASE Bundle(w)
  BY <1>11, BusyJob DEF Bundle, RpcTransaction, Refused, IsWebhook
<1>12. CASE BundleUnanswered(w)
  BY <1>12, BusyJob DEF BundleUnanswered, RpcTransaction
<1>13. CASE FallbackRead(w)
  BY <1>13, BusyJob DEF FallbackRead, Refused, IsWebhook
<1>14. CASE FallbackSubs(w)
  BY <1>14, BusyJob DEF FallbackSubs
<1>15. CASE FallbackMark(w)
  BY <1>15, BusyJob DEF FallbackMark
<1>16. CASE FallbackInsert(w)
  BY <1>16, BusyJob DEF FallbackInsert
<1>17. CASE EnsureUsage(w)
  BY <1>17, BusyJob DEF EnsureUsage, AfterConfirm, IsWebhook
<1>18. CASE FailedRead(w)
  BY <1>18, BusyJob DEF FailedRead
<1>19. CASE FailedMark(w)
  BY <1>19, BusyJob DEF FailedMark, MarkStatus, RowStatus
<1>20. CASE RefundLookup(w)
  BY <1>20, BusyJob DEF RefundLookup
<1>21. CASE RefundMark(w)
  BY <1>21, BusyJob DEF RefundMark, MarkStatus, RowStatus
<1>22. CASE RefundCancel(w)
  BY <1>22, BusyJob DEF RefundCancel
<1>23. CASE CallFails(w)
  BY <1>23, BusyJob DEF CallFails, Free, IsWebhook
<1>24. CASE Killed(w)
  BY <1>24, BusyJob DEF Killed, Free
<1> QED BY <1>1, <1>2, <1>3, <1>4, <1>5, <1>6, <1>7, <1>8, <1>9, <1>10, <1>11,
           <1>12, <1>13, <1>14, <1>15, <1>16, <1>17, <1>18, <1>19, <1>20,
           <1>21, <1>22, <1>23, <1>24
           DEF Step, Fault

(* Every behaviour of the handlers is one of the abstract entitlement:     *)
(* access is granted once, only for a capture of the right amount, and     *)
(* taken away only, and for good, after a refund.                          *)
THEOREM Implements == Spec => ImplementsEntitlement
<1>1. Init => Promise!Init
  BY DEF Init, Promise!Init
<1>2. TypeInv /\ TypeInv' /\ Evidence /\ [Next]_vars
      => [Promise!Next]_(Promise!vars)
  <2> SUFFICES ASSUME TypeInv, TypeInv', Evidence, [Next]_vars
               PROVE  [Promise!Next]_(Promise!vars)
    OBVIOUS
  <2>1. CASE UNCHANGED vars
    BY <2>1 DEF vars, Promise!vars
  <2>2. ASSUME NEW o \in Orders, Environment(o)
        PROVE  [Promise!Next]_(Promise!vars)
    BY <2>2
    DEF Environment, CreateOrder, AttemptFails, Capture, Refund, db,
        Promise!Next, Promise!Charge, Promise!Return, Promise!vars
  <2>3. ASSUME NEW w \in Workers, Begin(w)
        PROVE  [Promise!Next]_(Promise!vars)
    BY <2>3
    DEF Begin, Deliver, Verify, Reconcile, db, others, env, Promise!vars
  <2> QED BY <2>1, <2>2, <2>3, StepRefines DEF Next
<1> QED
  BY <1>1, <1>2, EvidenceCorrect, PTL DEF Spec, ImplementsEntitlement, Promise!Spec

-----------------------------------------------------------------------------
(* With an RPC that always answers, the fallback never runs                *)

Transactional ==
  /\ \A w \in Workers : job[w] # Idle => job[w].pc \notin FallbackSteps
  /\ PaidHasSubscription
  /\ RefundWindow

(* A step of a worker keeps the row and the subscription together.         *)
LEMMA TransactionalStep ==
  ASSUME RpcOutcomes \subseteq {"answered"}, TypeInv, TypeInv', Transactional,
         NEW w \in Workers, Step(w) \/ Fault(w)
  PROVE  Transactional'
<1> USE DEF At, Free, Goto, GotoSeen, SetJob, Stop, TypeInv, TypeOK,
            Transactional, PaidHasSubscription, RefundWindow, PaidRow, others,
            env, db, WebhookSteps, ConfirmSteps, FallbackSteps, FailedSteps,
            RefundSteps, AnswerSteps, ReconcileSteps
<1>1. CASE ReconcileClassify(w)
  BY <1>1, BusyJob DEF ReconcileClassify
<1>2. CASE InsertEvent(w)
  BY <1>2, BusyJob DEF InsertEvent, HandlerOf, EventOf, Events
<1>3. CASE ReadEvent(w)
  BY <1>3, BusyJob DEF ReadEvent, EventOf
<1>4. CASE ClaimEvent(w)
  BY <1>4, BusyJob DEF ClaimEvent, HandlerOf, EventOf, Events
<1>5. CASE MarkProcessed(w)
  BY <1>5, BusyJob DEF MarkProcessed, EventOf, Events
<1>6. CASE MarkFailed(w)
  BY <1>6, BusyJob DEF MarkFailed, EventOf, Events
<1>7. CASE Reject(w)
  BY <1>7, BusyJob DEF Reject, EventOf, Events
<1>8. CASE Ack(w)
  BY <1>8, BusyJob DEF Ack, EventOf, Events
<1>9. CASE ConfirmRead(w)
  BY <1>9, BusyJob DEF ConfirmRead, ToBundle, Refused, IsWebhook
<1>10. CASE ConfirmSubs(w)
  BY <1>10, BusyJob DEF ConfirmSubs, ToBundle, Refused, IsWebhook
<1>11. CASE Bundle(w)
  BY <1>11, BusyJob DEF Bundle, RpcTransaction, Refused, IsWebhook
<1>12. CASE BundleUnanswered(w)
  BY <1>12, BusyJob DEF BundleUnanswered, RpcTransaction
<1>13. CASE FallbackRead(w)
  BY <1>13, BusyJob DEF FallbackRead, Refused, IsWebhook
<1>14. CASE FallbackSubs(w)
  BY <1>14, BusyJob DEF FallbackSubs
<1>15. CASE FallbackMark(w)
  BY <1>15, BusyJob DEF FallbackMark
<1>16. CASE FallbackInsert(w)
  BY <1>16, BusyJob DEF FallbackInsert
<1>17. CASE EnsureUsage(w)
  BY <1>17, BusyJob DEF EnsureUsage, AfterConfirm, IsWebhook
<1>18. CASE FailedRead(w)
  BY <1>18, BusyJob DEF FailedRead
<1>19. CASE FailedMark(w)
  BY <1>19, BusyJob DEF FailedMark, MarkStatus, RowStatus
<1>20. CASE RefundLookup(w)
  BY <1>20, BusyJob DEF RefundLookup
<1>21. CASE RefundMark(w)
  <2>1. /\ row' = [row EXCEPT ![job[w].order] =
                     [status |-> "refunded", pid |-> row[job[w].order].pid]]
        /\ UNCHANGED <<sub, faults>>
    BY <1>21 DEF RefundMark, MarkStatus
  <2>2. /\ job'[w] # Idle /\ job'[w].pc = "refundCancel"
        /\ job'[w].order = job[w].order
        /\ \A v \in Workers \ {w} : job'[v] = job[v]
    BY <1>21, BusyJob DEF RefundMark, Idle
  <2>3. PaidHasSubscription'
    BY <2>1, BusyJob
  <2>4. RefundWindow'
    BY <2>1, <2>2, BusyJob
  <2> QED BY <2>2, <2>3, <2>4
<1>22. CASE RefundCancel(w)
  BY <1>22, BusyJob DEF RefundCancel
<1>23. CASE CallFails(w)
  BY <1>23, BusyJob DEF CallFails, IsWebhook
<1>24. CASE Killed(w)
  BY <1>24, BusyJob DEF Killed
<1> QED BY <1>1, <1>2, <1>3, <1>4, <1>5, <1>6, <1>7, <1>8, <1>9, <1>10, <1>11,
           <1>12, <1>13, <1>14, <1>15, <1>16, <1>17, <1>18, <1>19, <1>20,
           <1>21, <1>22, <1>23, <1>24
           DEF Step, Fault

LEMMA TransactionalInv ==
  ASSUME RpcOutcomes \subseteq {"answered"}
  PROVE  Spec => [](TypeInv /\ Transactional)
<1>1. Init => Transactional
  BY DEF Init, NoRow, Transactional, PaidHasSubscription, RefundWindow
<1>2. TypeInv /\ TypeInv' /\ Transactional /\ [Next]_vars => Transactional'
  <2> SUFFICES ASSUME TypeInv, TypeInv', Transactional, [Next]_vars
               PROVE  Transactional'
    OBVIOUS
  <2> USE DEF Transactional, PaidHasSubscription, RefundWindow, At,
              FallbackSteps
  <2>1. CASE UNCHANGED vars
    BY <2>1 DEF vars
  <2>2. ASSUME NEW o \in Orders, Environment(o) PROVE Transactional'
    BY <2>2
    DEF Environment, CreateOrder, AttemptFails, Capture, Refund, db, TypeInv,
        TypeOK
  <2>3. ASSUME NEW w \in Workers, Begin(w) PROVE Transactional'
    <3>1. UNCHANGED <<row, sub, faults>> /\ job[w] = Idle
      BY <2>3 DEF Begin, Deliver, Verify, Reconcile, Free, db, others, env
    <3>2. PICK call, o, seen :
            \E pc \in {"insertEvent", "confirmRead", "reconcileSubs"} :
              SetJob(w, call, o, pc, seen)
      BY <2>3 DEF Begin, Deliver, Verify, Reconcile
    <3>3. /\ job'[w].pc \notin FallbackSteps
          /\ \A v \in Workers : job[v] # Idle => v # w /\ job'[v] = job[v]
          /\ \A v \in Workers \ {w} : job'[v] = job[v]
      BY <3>1, <3>2 DEF SetJob, TypeInv, TypeOK
    <3>4. \A v \in Workers : job'[v] # Idle => job'[v].pc \notin FallbackSteps
      BY <3>3
    <3>5. RefundWindow'
      BY <3>1, <3>3
    <3> QED BY <3>1, <3>4, <3>5
  <2> QED BY <2>1, <2>2, <2>3, TransactionalStep DEF Next
<1> QED BY <1>1, <1>2, TypeCorrect, PTL DEF Spec, TypeInv

(* The RPC marks the row paid and inserts the subscription as one step:    *)
(* nobody is charged and left without; and with no fault a refunded row    *)
(* keeps its access only while its refund handler is between two writes.   *)
THEOREM TransactionalCorrect ==
  ASSUME RpcOutcomes \subseteq {"answered"}
  PROVE  Spec => [](PaidHasSubscription /\ RefundWindow)
<1>1. Transactional => PaidHasSubscription /\ RefundWindow
  BY DEF Transactional
<1> QED BY <1>1, TransactionalInv, PTL

(* A step of a worker does not take a refunded row back to paid.           *)
LEMMA NoRefulfilStep ==
  ASSUME TypeInv, Transactional, NEW w \in Workers, Step(w) \/ Fault(w),
         NEW o \in Orders, row[o].status = "refunded"
  PROVE  row'[o].status # "paid"
<1> USE DEF At, Free, TypeInv, TypeOK, Transactional, PaidRow, others, env,
            db, FallbackSteps
<1>1. CASE ReconcileClassify(w)
  BY <1>1, BusyJob DEF ReconcileClassify
<1>2. CASE InsertEvent(w)
  BY <1>2, BusyJob DEF InsertEvent, HandlerOf, EventOf, Events
<1>3. CASE ReadEvent(w)
  BY <1>3, BusyJob DEF ReadEvent, EventOf
<1>4. CASE ClaimEvent(w)
  BY <1>4, BusyJob DEF ClaimEvent, HandlerOf, EventOf, Events
<1>5. CASE MarkProcessed(w)
  BY <1>5, BusyJob DEF MarkProcessed, EventOf, Events
<1>6. CASE MarkFailed(w)
  BY <1>6, BusyJob DEF MarkFailed, EventOf, Events
<1>7. CASE Reject(w)
  BY <1>7, BusyJob DEF Reject, EventOf, Events
<1>8. CASE Ack(w)
  BY <1>8, BusyJob DEF Ack, EventOf, Events
<1>9. CASE ConfirmRead(w)
  BY <1>9, BusyJob DEF ConfirmRead, ToBundle, Refused, IsWebhook
<1>10. CASE ConfirmSubs(w)
  BY <1>10, BusyJob DEF ConfirmSubs, ToBundle, Refused, IsWebhook
<1>11. CASE Bundle(w)
  BY <1>11, BusyJob DEF Bundle, RpcTransaction, Refused, IsWebhook
<1>12. CASE BundleUnanswered(w)
  BY <1>12, BusyJob DEF BundleUnanswered, RpcTransaction
<1>13. CASE FallbackRead(w)
  BY <1>13, BusyJob DEF FallbackRead, Refused, IsWebhook
<1>14. CASE FallbackSubs(w)
  BY <1>14, BusyJob DEF FallbackSubs
<1>15. CASE FallbackMark(w)
  BY <1>15, BusyJob DEF FallbackMark
<1>16. CASE FallbackInsert(w)
  BY <1>16, BusyJob DEF FallbackInsert
<1>17. CASE EnsureUsage(w)
  BY <1>17, BusyJob DEF EnsureUsage, AfterConfirm, IsWebhook
<1>18. CASE FailedRead(w)
  BY <1>18, BusyJob DEF FailedRead
<1>19. CASE FailedMark(w)
  BY <1>19, BusyJob DEF FailedMark, MarkStatus, RowStatus
<1>20. CASE RefundLookup(w)
  BY <1>20, BusyJob DEF RefundLookup
<1>21. CASE RefundMark(w)
  BY <1>21, BusyJob DEF RefundMark, MarkStatus, RowStatus
<1>22. CASE RefundCancel(w)
  BY <1>22, BusyJob DEF RefundCancel
<1>23. CASE CallFails(w)
  BY <1>23, BusyJob DEF CallFails, IsWebhook
<1>24. CASE Killed(w)
  BY <1>24, BusyJob DEF Killed
<1> QED BY <1>1, <1>2, <1>3, <1>4, <1>5, <1>6, <1>7, <1>8, <1>9, <1>10, <1>11,
           <1>12, <1>13, <1>14, <1>15, <1>16, <1>17, <1>18, <1>19, <1>20,
           <1>21, <1>22, <1>23, <1>24
           DEF Step, Fault

(* With an RPC that always answers no step takes a refunded row back to    *)
(* paid.                                                                   *)
THEOREM NeverRefulfilledCorrect ==
  ASSUME RpcOutcomes \subseteq {"answered"}
  PROVE  Spec => NeverRefulfilled
<1>1. TypeInv /\ Transactional /\ [Next]_vars =>
        [\A o \in Orders :
           row[o].status = "refunded" => row'[o].status # "paid"]_vars
  <2> SUFFICES ASSUME TypeInv, Transactional, Next, NEW o \in Orders,
                      row[o].status = "refunded"
               PROVE  row'[o].status # "paid"
    OBVIOUS
  <2>1. ASSUME NEW p \in Orders, Environment(p) PROVE row'[o].status # "paid"
    BY <2>1
    DEF Environment, CreateOrder, AttemptFails, Capture, Refund, db, TypeInv,
        TypeOK
  <2>2. ASSUME NEW w \in Workers, Begin(w) PROVE row'[o].status # "paid"
    BY <2>2 DEF Begin, Deliver, Verify, Reconcile, db
  <2> QED BY <2>1, <2>2, NoRefulfilStep DEF Next
<1> QED
  BY <1>1, TransactionalInv, PTL DEF Spec, NeverRefulfilled
-----------------------------------------------------------------------------
(* A paid row without a subscription can still be repaired                 *)

(* Of a payment that was captured the event was emitted, and a row is      *)
(* marked paid only for the amount it names.                               *)
Repair ==
  \A o \in Orders :
    /\ rzp[o] # "open" => Captured(o) \in emitted
    /\ row[o].status = "paid" => o \notin WrongAmount

(* A step of a worker keeps both.                                          *)
LEMMA RepairStep ==
  ASSUME TypeInv, TypeInv', Evidence, Repair, NEW w \in Workers,
         Step(w) \/ Fault(w)
  PROVE  Repair'
<1> USE DEF At, Free, TypeInv, TypeOK, Evidence, JobEvidence, Repair, PaidRow,
            others, env, db, FallbackSteps
<1>1. CASE ReconcileClassify(w)
  BY <1>1, BusyJob DEF ReconcileClassify
<1>2. CASE InsertEvent(w)
  BY <1>2, BusyJob DEF InsertEvent, HandlerOf, EventOf, Events
<1>3. CASE ReadEvent(w)
  BY <1>3, BusyJob DEF ReadEvent, EventOf
<1>4. CASE ClaimEvent(w)
  BY <1>4, BusyJob DEF ClaimEvent, HandlerOf, EventOf, Events
<1>5. CASE MarkProcessed(w)
  BY <1>5, BusyJob DEF MarkProcessed, EventOf, Events
<1>6. CASE MarkFailed(w)
  BY <1>6, BusyJob DEF MarkFailed, EventOf, Events
<1>7. CASE Reject(w)
  BY <1>7, BusyJob DEF Reject, EventOf, Events
<1>8. CASE Ack(w)
  BY <1>8, BusyJob DEF Ack, EventOf, Events
<1>9. CASE ConfirmRead(w)
  BY <1>9, BusyJob DEF ConfirmRead, ToBundle, Refused, IsWebhook
<1>10. CASE ConfirmSubs(w)
  BY <1>10, BusyJob DEF ConfirmSubs, ToBundle, Refused, IsWebhook
<1>11. CASE Bundle(w)
  BY <1>11, BusyJob DEF Bundle, RpcTransaction, Refused, IsWebhook
<1>12. CASE BundleUnanswered(w)
  BY <1>12, BusyJob DEF BundleUnanswered, RpcTransaction
<1>13. CASE FallbackRead(w)
  BY <1>13, BusyJob DEF FallbackRead, Refused, IsWebhook
<1>14. CASE FallbackSubs(w)
  BY <1>14, BusyJob DEF FallbackSubs
<1>15. CASE FallbackMark(w)
  BY <1>15, BusyJob DEF FallbackMark
<1>16. CASE FallbackInsert(w)
  BY <1>16, BusyJob DEF FallbackInsert
<1>17. CASE EnsureUsage(w)
  BY <1>17, BusyJob DEF EnsureUsage, AfterConfirm, IsWebhook
<1>18. CASE FailedRead(w)
  BY <1>18, BusyJob DEF FailedRead
<1>19. CASE FailedMark(w)
  BY <1>19, BusyJob DEF FailedMark, MarkStatus, RowStatus
<1>20. CASE RefundLookup(w)
  BY <1>20, BusyJob DEF RefundLookup
<1>21. CASE RefundMark(w)
  BY <1>21, BusyJob DEF RefundMark, MarkStatus, RowStatus
<1>22. CASE RefundCancel(w)
  BY <1>22, BusyJob DEF RefundCancel
<1>23. CASE CallFails(w)
  BY <1>23, BusyJob DEF CallFails, IsWebhook
<1>24. CASE Killed(w)
  BY <1>24, BusyJob DEF Killed
<1> QED BY <1>1, <1>2, <1>3, <1>4, <1>5, <1>6, <1>7, <1>8, <1>9, <1>10, <1>11,
           <1>12, <1>13, <1>14, <1>15, <1>16, <1>17, <1>18, <1>19, <1>20,
           <1>21, <1>22, <1>23, <1>24
           DEF Step, Fault

(* Repair is kept by every other step too.                                 *)
LEMMA RepairCorrect == Spec => []Repair
<1>1. Init => Repair
  BY DEF Init, NoRow, Repair
<1>2. TypeInv /\ TypeInv' /\ Evidence /\ Repair /\ [Next]_vars => Repair'
  <2> SUFFICES ASSUME TypeInv, TypeInv', Evidence, Repair, [Next]_vars
               PROVE  Repair'
    OBVIOUS
  <2>1. CASE UNCHANGED vars
    BY <2>1 DEF vars, Repair
  <2>2. ASSUME NEW o \in Orders, Environment(o) PROVE Repair'
    BY <2>2 DEF Environment, CreateOrder, AttemptFails, Capture, Refund, db,
                TypeInv, TypeOK, Repair
  <2>3. ASSUME NEW w \in Workers, Begin(w) PROVE Repair'
    BY <2>3 DEF Begin, Deliver, Verify, Reconcile, db, others, env, Repair
  <2> QED BY <2>1, <2>2, <2>3, RepairStep DEF Next
<1> QED BY <1>1, <1>2, EvidenceCorrect, PTL DEF Spec

(* Whatever the fallback left behind, a paid row has its subscription, or  *)
(* Razorpay is still to deliver the capture, or the money went back.       *)
THEOREM PaidIsRepairableCorrect == Spec => []PaidIsRepairable
<1>1. Evidence /\ Fulfilment /\ Repair => PaidIsRepairable
  BY DEF Evidence, DataEvidence, Fulfilment, CaptureAnswered, Fulfilled,
         Repair, PaidIsRepairable, Due
<1> QED BY <1>1, EvidenceCorrect, FulfilmentCorrect, RepairCorrect, PTL
=============================================================================
