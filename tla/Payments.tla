------------------------------ MODULE Payments ------------------------------
(***************************************************************************)
(* Payment fulfilment of BandForge (src/app/payments): a Razorpay order    *)
(* becomes a subscription and its per-skill usage rows.                    *)
(*                                                                         *)
(* Workers are the API threads and the hourly reconcile job.  A worker     *)
(* handles one call at a time (a webhook delivery, POST /payments/verify,  *)
(* or one reconcile candidate) and every database or RPC round trip of the *)
(* handler is a step of its own, so the calls interleave as the threads of *)
(* several API processes do.  What a handler read before a step is kept in *)
(* its job (`seen').  Razorpay is external: it captures and refunds        *)
(* payments and delivers each event at least once, in any order, until a   *)
(* delivery is answered 2xx.                                               *)
(***************************************************************************)
EXTENDS Naturals, FiniteSets

CONSTANTS
  Orders,        \* Razorpay orders, one `payments' row each
  Workers,       \* concurrent handlers
  Skills,        \* skills a plan can grant mocks for: writing, speaking
  PlanSkills,    \* PlanSkills[o]: the skills the plan of order o grants
  WrongAmount,   \* orders captured for an amount that is not the row's
  RpcOutcomes,   \* what a call of confirm_payment_paid_bundle may come to
  MaxFaults      \* bound on failed calls and killed handlers, all together

ASSUME PaymentsAssumption ==
  /\ PlanSkills \in [Orders -> SUBSET Skills]
  /\ WrongAmount \subseteq Orders
  /\ RpcOutcomes \subseteq {"answered", "lost", "unavailable"}
  /\ MaxFaults \in Nat

VARIABLES
  row,      \* row[o]: status and presence of razorpay_payment_id in payments
  sub,      \* sub[o]: the subscriptions row of the payment (UNIQUE payment_id)
  usage,    \* usage[o]: skills with a user_program_usage row
  event,    \* event[e]: processing_status of the payment_events row of e
  rzp,      \* rzp[o]: the payment at Razorpay
  emitted,  \* events Razorpay has emitted
  acked,    \* events some delivery of which was answered 2xx
  job,      \* job[w]: the call worker w is in the middle of
  faults    \* faults injected so far (at most MaxFaults)

vars == <<row, sub, usage, event, rzp, emitted, acked, job, faults>>

-----------------------------------------------------------------------------
(* Types *)

Kinds  == {"payment.captured", "payment.failed", "refund.created"}
Events == Orders \X Kinds
Calls  == Kinds \cup {"verify", "reconcile"}

Captured(o) == <<o, "payment.captured">>
Refunded(o) == <<o, "refund.created">>

RowStatus == {"absent", "created", "paid", "failed", "refunded"}
Row       == [status : RowStatus, pid : BOOLEAN]
NoRow     == [status |-> "absent", pid |-> FALSE]
PaidRow   == [status |-> "paid", pid |-> TRUE]

(* Program points, each before a round trip of the handler named.          *)
WebhookSteps  == {"insertEvent", "readEvent", "claimEvent"}
ConfirmSteps  == {"confirmRead", "confirmSubs", "bundle", "usage"}
FallbackSteps == {"fbRead", "fbSubs", "fbMark", "fbInsert"}
FailedSteps   == {"failedRead", "failedMark"}
RefundSteps   == {"refundLookup", "refundMark", "refundCancel"}
AnswerSteps   == {"markProcessed", "markFailed", "reject", "ack"}
ReconcileSteps == {"reconcileSubs"}
Steps == WebhookSteps \cup ConfirmSteps \cup FallbackSteps \cup FailedSteps
         \cup RefundSteps \cup AnswerSteps \cup ReconcileSteps

Job  == [call : Calls, order : Orders, pc : Steps, seen : Row]
Idle == [call |-> "none"]

TypeOK ==
  /\ row \in [Orders -> Row]
  /\ sub \in [Orders -> {"none", "active", "cancelled"}]
  /\ usage \in [Orders -> SUBSET Skills]
  /\ event \in [Events -> {"none", "pending", "processed", "failed"}]
  /\ rzp \in [Orders -> {"open", "captured", "refunded"}]
  /\ emitted \subseteq Events
  /\ acked \subseteq Events
  /\ job \in [Workers -> Job \cup {Idle}]
  /\ faults \in 0..MaxFaults

Init ==
  /\ row = [o \in Orders |-> NoRow]
  /\ sub = [o \in Orders |-> "none"]
  /\ usage = [o \in Orders |-> {}]
  /\ event = [e \in Events |-> "none"]
  /\ rzp = [o \in Orders |-> "open"]
  /\ emitted = {}
  /\ acked = {}
  /\ job = [w \in Workers |-> Idle]
  /\ faults = 0

-----------------------------------------------------------------------------
(* Razorpay and checkout *)

db == <<row, sub, usage, event>>

(* create_order: the client learns the order id only after the row was     *)
(* inserted and read back.                                                 *)
CreateOrder(o) ==
  /\ row[o].status = "absent"
  /\ row' = [row EXCEPT ![o] = [status |-> "created", pid |-> FALSE]]
  /\ UNCHANGED <<sub, usage, event, rzp, emitted, acked, job, faults>>

(* One attempt to pay an order fails; the order can still be paid.         *)
AttemptFails(o) ==
  /\ row[o].status # "absent" /\ rzp[o] = "open"
  /\ emitted' = emitted \cup {<<o, "payment.failed">>}
  /\ UNCHANGED <<db, rzp, acked, job, faults>>

Capture(o) ==
  /\ row[o].status # "absent" /\ rzp[o] = "open"
  /\ rzp' = [rzp EXCEPT ![o] = "captured"]
  /\ emitted' = emitted \cup {Captured(o)}
  /\ UNCHANGED <<db, acked, job, faults>>

Refund(o) ==
  /\ rzp[o] = "captured"
  /\ rzp' = [rzp EXCEPT ![o] = "refunded"]
  /\ emitted' = emitted \cup {Refunded(o)}
  /\ UNCHANGED <<db, acked, job, faults>>

-----------------------------------------------------------------------------
(* Workers *)

Free(w)   == job[w] = Idle
At(w, pc) == job[w] # Idle /\ job[w].pc = pc

(* `seen' is the row as last read, where a later step still depends on it; *)
(* elsewhere what was read is in the program point.                        *)
SetJob(w, call, o, pc, seen) ==
  job' = [job EXCEPT ![w] = [call |-> call, order |-> o, pc |-> pc,
                             seen |-> seen]]
GotoSeen(w, pc, seen) == SetJob(w, job[w].call, job[w].order, pc, seen)
Goto(w, pc)           == GotoSeen(w, pc, NoRow)
Stop(w)               == job' = [job EXCEPT ![w] = Idle]

IsWebhook(w) == job[w].call \in Kinds
EventOf(w)   == <<job[w].order, job[w].call>>

(* First step of the handler of each event kind.                           *)
HandlerOf(kind) ==
  CASE kind = "payment.captured" -> "confirmRead"
    [] kind = "payment.failed"   -> "failedRead"
    [] kind = "refund.created"   -> "refundLookup"
    [] OTHER                     -> "markProcessed"

(* confirm_payment_paid returned, and was refused for good.                *)
AfterConfirm(w) == IF IsWebhook(w) THEN Goto(w, "markProcessed") ELSE Stop(w)
Refused(w)      == IF IsWebhook(w) THEN Goto(w, "reject") ELSE Stop(w)

env == <<rzp, emitted, faults>>
others == <<env, acked>>

(* A delivery of the event of kind `kind' of o reaches the endpoint.        *)
Deliver(w, o, kind) ==
  /\ Free(w) /\ <<o, kind>> \in emitted
  /\ SetJob(w, kind, o, "insertEvent", NoRow)
  /\ UNCHANGED <<db, others>>

(* POST /payments/verify: the signature holds and Razorpay says captured.  *)
Verify(w, o) ==
  /\ Free(w) /\ rzp[o] # "open"
  /\ SetJob(w, "verify", o, "confirmRead", NoRow)
  /\ UNCHANGED <<db, others>>

(* run_reconcile takes its local snapshot of an order it scans; a created  *)
(* order that is not captured is no target.                                *)
Reconcile(w, o) ==
  /\ Free(w)
  /\ rzp[o] # "open" \/ row[o].status = "paid"
  /\ SetJob(w, "reconcile", o, "reconcileSubs", row[o])
  /\ UNCHANGED <<db, others>>

(* Mutant: a failed row is no target of the reconcile.                      *)
ReconcileClassify_CreatedOnly(w) ==
  /\ At(w, "reconcileSubs")
  /\ IF job[w].seen.status # "created" THEN Stop(w) ELSE Goto(w, "confirmRead")
  /\ UNCHANGED <<db, others>>

(* ... reads the subscription, classifies, and applies the confirm path.   *)
ReconcileClassify(w) ==
  /\ At(w, "reconcileSubs")
  /\ IF job[w].seen.status = "paid" /\ sub[job[w].order] # "none"
       THEN Stop(w)
       ELSE Goto(w, "confirmRead")
  /\ UNCHANGED <<db, others>>

-----------------------------------------------------------------------------
(* handle_webhook: the event log *)

InsertEvent(w) ==
  /\ At(w, "insertEvent")
  /\ IF event[EventOf(w)] = "none"
       THEN /\ event' = [event EXCEPT ![EventOf(w)] = "pending"]
            /\ Goto(w, HandlerOf(job[w].call))
       ELSE /\ Goto(w, "readEvent")
            /\ UNCHANGED event
  /\ UNCHANGED <<row, sub, usage, others>>

(* Mutant: an event that is already logged is a duplicate, processed or not. *)
ReadEvent_AnyIsDuplicate(w) ==
  /\ At(w, "readEvent")
  /\ Goto(w, IF event[EventOf(w)] = "failed" THEN "claimEvent" ELSE "ack")
  /\ UNCHANGED <<db, others>>

ReadEvent(w) ==
  /\ At(w, "readEvent")
  /\ Goto(w, IF event[EventOf(w)] = "processed" THEN "ack" ELSE "claimEvent")
  /\ UNCHANGED <<db, others>>

(* claim_payment_event_for_retry: whatever the status has become since.    *)
ClaimEvent(w) ==
  /\ At(w, "claimEvent")
  /\ event' = [event EXCEPT ![EventOf(w)] = "pending"]
  /\ Goto(w, HandlerOf(job[w].call))
  /\ UNCHANGED <<row, sub, usage, others>>

MarkProcessed(w) ==
  /\ At(w, "markProcessed")
  /\ event' = [event EXCEPT ![EventOf(w)] = "processed"]
  /\ Goto(w, "ack")
  /\ UNCHANGED <<row, sub, usage, others>>

(* mark_event_failed, then 503: Razorpay delivers the event again.         *)
MarkFailed(w) ==
  /\ At(w, "markFailed")
  /\ event' = [event EXCEPT ![EventOf(w)] = "failed"]
  /\ Stop(w)
  /\ UNCHANGED <<row, sub, usage, others>>

(* A permanent error: the event is logged as failed and answered 200.      *)
Reject(w) ==
  /\ At(w, "reject")
  /\ event' = [event EXCEPT ![EventOf(w)] = "failed"]
  /\ Goto(w, "ack")
  /\ UNCHANGED <<row, sub, usage, others>>

Ack(w) ==
  /\ At(w, "ack")
  /\ acked' = acked \cup {EventOf(w)}
  /\ Stop(w)
  /\ UNCHANGED <<db, env>>

-----------------------------------------------------------------------------
(* confirm_payment_paid: "Single path for granting access after payment"   *)

(* Mutant: the captured amount is not compared with the row.                *)
ToBundle_AnyAmount(w) == Goto(w, "bundle")

(* The checks after the paid-with-subscription return: the amount.         *)
ToBundle(w) ==
  IF job[w].order \in WrongAmount THEN Refused(w) ELSE Goto(w, "bundle")

ConfirmRead(w) ==
  LET o == job[w].order IN
  /\ At(w, "confirmRead")
  /\ CASE row[o].status = "refunded" -> Refused(w)
       [] row[o].status = "paid"     -> Goto(w, "confirmSubs")
       [] OTHER                      -> ToBundle(w)
  /\ UNCHANGED <<db, others>>

(* Mutant: paid with a subscription returns without healing the usage rows.  *)
ConfirmSubs_NoHeal(w) ==
  /\ At(w, "confirmSubs")
  /\ IF sub[job[w].order] # "none" THEN AfterConfirm(w) ELSE ToBundle(w)
  /\ UNCHANGED <<db, others>>

(* Paid: heal the usage rows if the subscription is there, else repair.    *)
ConfirmSubs(w) ==
  /\ At(w, "confirmSubs")
  /\ IF sub[job[w].order] # "none" THEN Goto(w, "usage") ELSE ToBundle(w)
  /\ UNCHANGED <<db, others>>

(* Mutant: the RPC does not look whether the row is refunded.              *)
RpcTransaction_RefundedToo(o) ==
  /\ row' = [row EXCEPT ![o] = PaidRow]
  /\ sub' = [sub EXCEPT ![o] = IF @ = "none" THEN "active" ELSE @]

(* The transaction of the confirm_payment_paid_bundle RPC.                 *)
RpcTransaction(o) ==
  IF row[o].status = "refunded"
    THEN UNCHANGED <<row, sub>>
    ELSE /\ row' = [row EXCEPT ![o] = PaidRow]
         /\ sub' = [sub EXCEPT ![o] = IF @ = "none" THEN "active" ELSE @]

Bundle(w) ==
  LET o == job[w].order IN
  /\ At(w, "bundle") /\ "answered" \in RpcOutcomes
  /\ RpcTransaction(o)
  /\ IF row[o].status = "refunded" THEN Refused(w) ELSE Goto(w, "usage")
  /\ UNCHANGED <<usage, event, others>>

(* The call raised anything else: it may or may not have committed, and    *)
(* the sequential fallback runs.                                           *)
BundleUnanswered(w) ==
  /\ At(w, "bundle")
  /\ \/ "lost" \in RpcOutcomes /\ RpcTransaction(job[w].order)
     \/ "unavailable" \in RpcOutcomes /\ UNCHANGED <<row, sub>>
  /\ Goto(w, "fbRead")
  /\ UNCHANGED <<usage, event, others>>

(* _confirm_payment_paid_sequential *)
FallbackRead(w) ==
  /\ At(w, "fbRead")
  /\ IF row[job[w].order].status = "refunded"
       THEN Refused(w)
       ELSE GotoSeen(w, "fbSubs", row[job[w].order])
  /\ UNCHANGED <<db, others>>

FallbackSubs(w) ==
  /\ At(w, "fbSubs")
  /\ IF sub[job[w].order] # "none"
       THEN Goto(w, "usage")
       ELSE GotoSeen(w, "fbMark", job[w].seen)
  /\ UNCHANGED <<db, others>>

FallbackMark(w) ==
  /\ At(w, "fbMark")
  /\ row' = IF job[w].seen = PaidRow
              THEN row
              ELSE [row EXCEPT ![job[w].order] = PaidRow]
  /\ Goto(w, "fbInsert")
  /\ UNCHANGED <<sub, usage, event, others>>

(* insert_subscription: a unique violation returns the row that is there.  *)
FallbackInsert(w) ==
  /\ At(w, "fbInsert")
  /\ sub' = [sub EXCEPT ![job[w].order] = IF @ = "none" THEN "active" ELSE @]
  /\ Goto(w, "usage")
  /\ UNCHANGED <<row, usage, event, others>>

(* _ensure_pack_usage_after_fulfillment: one idempotent insert per skill.  *)
EnsureUsage(w) ==
  LET o == job[w].order IN
  /\ At(w, "usage")
  /\ IF PlanSkills[o] \subseteq usage[o]
       THEN /\ AfterConfirm(w)
            /\ UNCHANGED usage
       ELSE /\ \E s \in PlanSkills[o] \ usage[o] :
                 usage' = [usage EXCEPT ![o] = @ \cup {s}]
            /\ UNCHANGED job
  /\ UNCHANGED <<row, sub, event, others>>

-----------------------------------------------------------------------------
(* _on_payment_failed and _on_refund *)

(* mark_payment_status writes by id, whatever the status is by now.        *)
MarkStatus(o, status) ==
  row' = [row EXCEPT ![o] = [status |-> status, pid |-> row[o].pid]]

FailedRead(w) ==
  /\ At(w, "failedRead")
  /\ Goto(w, IF row[job[w].order].status \in {"paid", "refunded"}
               THEN "markProcessed" ELSE "failedMark")
  /\ UNCHANGED <<db, others>>

FailedMark(w) ==
  /\ At(w, "failedMark")
  /\ MarkStatus(job[w].order, "failed")
  /\ Goto(w, "markProcessed")
  /\ UNCHANGED <<sub, usage, event, others>>

(* The row is looked up by the razorpay_payment_id only a confirm writes.  *)
RefundLookup(w) ==
  /\ At(w, "refundLookup")
  /\ Goto(w, IF row[job[w].order].pid THEN "refundMark" ELSE "markProcessed")
  /\ UNCHANGED <<db, others>>

(* Mutant: the refund is recorded and the subscription left alone.          *)
RefundMark_NoCancel(w) ==
  /\ At(w, "refundMark")
  /\ MarkStatus(job[w].order, "refunded")
  /\ Goto(w, "markProcessed")
  /\ UNCHANGED <<sub, usage, event, others>>

RefundMark(w) ==
  /\ At(w, "refundMark")
  /\ MarkStatus(job[w].order, "refunded")
  /\ Goto(w, "refundCancel")
  /\ UNCHANGED <<sub, usage, event, others>>

RefundCancel(w) ==
  /\ At(w, "refundCancel")
  /\ sub' = [sub EXCEPT ![job[w].order] =
                          IF @ = "active" THEN "cancelled" ELSE @]
  /\ Goto(w, "markProcessed")
  /\ UNCHANGED <<row, usage, event, others>>

-----------------------------------------------------------------------------
(* Faults *)

(* Program points inside the try block of handle_webhook.                  *)
InTry == ConfirmSteps \cup FallbackSteps \cup FailedSteps \cup RefundSteps
         \cup {"markProcessed"}

(* A database call raises: the webhook logs the failure and answers 503.   *)
CallFails(w) ==
  /\ ~Free(w) /\ IsWebhook(w) /\ job[w].pc \in InTry
  /\ faults < MaxFaults /\ faults' = faults + 1
  /\ Goto(w, "markFailed")
  /\ UNCHANGED <<db, rzp, emitted, acked>>

(* The process is killed, or the call raises where nothing is written.     *)
Killed(w) ==
  /\ ~Free(w)
  /\ faults < MaxFaults /\ faults' = faults + 1
  /\ Stop(w)
  /\ UNCHANGED <<db, rzp, emitted, acked>>

-----------------------------------------------------------------------------
Environment(o) == CreateOrder(o) \/ AttemptFails(o) \/ Capture(o) \/ Refund(o)

Begin(w) ==
  \E o \in Orders :
    \/ \E kind \in Kinds : Deliver(w, o, kind)
    \/ Verify(w, o)
    \/ Reconcile(w, o)

Step(w) ==
  \/ ReconcileClassify(w)
  \/ InsertEvent(w) \/ ReadEvent(w) \/ ClaimEvent(w)
  \/ MarkProcessed(w) \/ MarkFailed(w) \/ Reject(w) \/ Ack(w)
  \/ ConfirmRead(w) \/ ConfirmSubs(w) \/ Bundle(w) \/ BundleUnanswered(w)
  \/ FallbackRead(w) \/ FallbackSubs(w) \/ FallbackMark(w)
  \/ FallbackInsert(w) \/ EnsureUsage(w)
  \/ FailedRead(w) \/ FailedMark(w)
  \/ RefundLookup(w) \/ RefundMark(w) \/ RefundCancel(w)

Fault(w) == CallFails(w) \/ Killed(w)

Next ==
  \/ \E o \in Orders : Environment(o)
  \/ \E w \in Workers : Begin(w) \/ Step(w) \/ Fault(w)

Spec == Init /\ [][Next]_vars

(* A started handler goes on (threads are scheduled and calls time out);   *)
(* Razorpay delivers an event again until a delivery is answered 2xx; the  *)
(* hourly cron gets to every order of its window.  Both find a free worker *)
(* again and again, not continuously, hence strong fairness.  Nothing is   *)
(* assumed of the user, of verify, or of a duplicate of an answered event. *)
Due(e) == e \in emitted \ acked

Fairness ==
  /\ \A w \in Workers : WF_vars(Step(w))
  /\ \A o \in Orders, kind \in Kinds :
       SF_vars(Due(<<o, kind>>) /\ \E w \in Workers : Deliver(w, o, kind))
  /\ \A o \in Orders : SF_vars(\E w \in Workers : Reconcile(w, o))

FairSpec == Spec /\ Fairness

-----------------------------------------------------------------------------
(* Properties *)

Fulfilled(o) == sub[o] # "none" /\ PlanSkills[o] \subseteq usage[o]

(* A capture event the log calls processed has its subscription and every  *)
(* usage row of the plan, whatever failed, was killed, was delivered twice *)
(* or raced on the way (handle_webhook marks it last, webhook.py:191).     *)
EventLogTruthful ==
  \A o \in Orders : event[Captured(o)] = "processed" => Fulfilled(o)

(* Razorpay stops delivering a capture only when the user has what was     *)
(* paid for, or the amount is wrong, or the money was returned.            *)
CaptureAnswered ==
  \A o \in Orders :
    Captured(o) \in acked =>
      Fulfilled(o) \/ o \in WrongAmount \/ rzp[o] = "refunded"

(* The RPC marks the row paid and inserts the subscription in one          *)
(* transaction: no row carries a payment id without a subscription.        *)
PaidHasSubscription ==
  \A o \in Orders : row[o].pid => sub[o] # "none"

(* In the sequential fallback a row can be paid with no subscription; then *)
(* the capture is still to be delivered, or was refunded meanwhile.        *)
PaidIsRepairable ==
  \A o \in Orders :
    row[o].status = "paid" /\ sub[o] = "none" =>
      Due(Captured(o)) \/ rzp[o] = "refunded"

(* Access is given only for money that was captured, and for the amount    *)
(* of the row.                                                             *)
GrantRequiresCapture ==
  \A o \in Orders : sub[o] # "none" => rzp[o] # "open" /\ o \notin WrongAmount

(* Where nothing fails, a refunded row has an active subscription only     *)
(* between the two writes of _on_refund (webhook.py:262-265).              *)
RefundWindow ==
  faults = 0 =>
    \A o \in Orders :
      row[o].status = "refunded" /\ sub[o] = "active" =>
        \E w \in Workers : At(w, "refundCancel") /\ job[w].order = o

(* No step takes a refunded row back to paid (the refusals of              *)
(* confirm_payment_paid and of the RPC; migration 20260723140000 line 1).  *)
NeverRefulfilled ==
  [][\A o \in Orders : row[o].status = "refunded" => row'[o].status # "paid"]_vars

(* A captured payment is settled though handlers fail, die and race: the   *)
(* user has the plan or the money went back, and the row says so.  A stale *)
(* write of _on_payment_failed over a paid row is undone by the reconcile. *)
CaptureSettles ==
  \A o \in Orders \ WrongAmount :
    rzp[o] # "open" ~>
      /\ Fulfilled(o) \/ rzp[o] = "refunded"
      /\ row[o].status \in {"paid", "refunded"}

(* The handlers implement the promise of Entitlement: the subscriptions    *)
(* table is its access, the payment at Razorpay its charge.                *)
Promise == INSTANCE Entitlement
             WITH Payable <- Orders \ WrongAmount, charge <- rzp, access <- sub
ImplementsEntitlement == Promise!Spec

(* cancel_subscription_for_payment: "Revoke access when a payment is       *)
(* refunded" (repository.py:510).  After the refund event was answered,    *)
(* the subscription of the payment is not active.                          *)
RefundAnsweredRevokes ==
  \A o \in Orders : Refunded(o) \in acked => sub[o] # "active"
=============================================================================
