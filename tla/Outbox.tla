------------------------------- MODULE Outbox -------------------------------
(***************************************************************************)
(* The notification outbox (src/app/notifications): approving a speaking   *)
(* review queues one row per channel, the daily sweep queues plan          *)
(* reminders, and leased workers - an always-on one and a cron one, run    *)
(* side by side - claim batches of rows and send them through a provider.  *)
(* Reopening a review cancels its rows.  Meta reports WhatsApp deliveries. *)
(***************************************************************************)
EXTENDS Naturals, FiniteSets

CONSTANTS
  Reviews,      \* speaking reviews
  Versions,     \* bound: approval_version counts 1..Versions
  Channels,     \* channels that users enabled: "email", "whatsapp"
  Reminders,    \* <user, date> pairs of learning.daily_reminder
  Workers,      \* worker processes
  BatchSize,    \* rows a claim may take
  MaxAttempts,  \* max_attempts of a row
  Refusing,     \* channels refused for good, e.g. WhatsApp disabled
  MaxSends,     \* bound: messages WhatsApp accepts for one row
  MaxReports,   \* bound: delivery reports recorded
  MaxFaults,    \* bound: slow workers, failed calls, kills
  Nobody

Releases == Reviews \X (1..Versions) \X Channels
Rows     == Releases \cup Reminders

ASSUME OutboxAssumption ==
  /\ Channels \subseteq {"email", "whatsapp"} /\ Refusing \subseteq Channels
  /\ Versions \in Nat /\ BatchSize \in Nat \ {0} /\ MaxAttempts \in Nat \ {0}
  /\ MaxSends \in Nat \ {0} /\ MaxReports \in Nat /\ MaxFaults \in Nat
  /\ Nobody \notin Workers
  /\ Releases \cap Reminders = {}

VARIABLES
  review,   \* review[r]: whether it is completed, and its approval_version
  row,      \* row[k]: the notification_outbox row, absent until queued
  job,      \* job[w]: what worker w has left to do for each row of its batch
  sends,    \* sends[k]: messages the provider accepted for row k
  reports,  \* notification_delivery_events
  faults    \* faults so far (at most MaxFaults)

vars == <<review, row, job, sends, reports, faults>>

-----------------------------------------------------------------------------
(* Types *)

Status   == {"absent", "queued", "processing", "retry", "sent", "delivered",
             "read", "failed", "cancelled"}
OpenStatus == {"queued", "processing", "retry"}
Reported == {"delivered", "read", "failed"}

(* `holder' stands for the lease token: the worker whose last claim the    *)
(* token is of.  A worker claims only when its batch is done, so it never  *)
(* has two tokens to mix up.  `attempts' stays at MaxAttempts once there.  *)
Row    == [status : Status, attempts : 0..MaxAttempts,
           holder : Workers \cup {Nobody}, msg : 0..MaxSends]
NoRow  == [status |-> "absent", attempts |-> 0, holder |-> Nobody, msg |-> 0]
NewRow == [status |-> "queued", attempts |-> 0, holder |-> Nobody, msg |-> 0]

(* What is next for a row of the batch; `msg' is the accepted message.     *)
Stage  == [pc : {"none", "preflight", "cancel", "send", "sent", "retry",
                 "refuse"},
           msg : 0..MaxSends]
NoStage == [pc |-> "none", msg |-> 0]

TypeOK ==
  /\ review \in [Reviews -> [completed : BOOLEAN, version : 0..Versions]]
  /\ row \in [Rows -> Row]
  /\ job \in [Workers -> [Rows -> Stage]]
  /\ sends \in [Rows -> 0..MaxSends]
  /\ reports \subseteq Rows \X (1..MaxSends) \X Reported
  /\ faults \in 0..MaxFaults

Init ==
  /\ review = [r \in Reviews |-> [completed |-> FALSE, version |-> 0]]
  /\ row = [k \in Rows |-> NoRow]
  /\ job = [w \in Workers |-> [k \in Rows |-> NoStage]]
  /\ sends = [k \in Rows |-> 0]
  /\ reports = {}
  /\ faults = 0

Channel(k) == IF k \in Reminders THEN "email" ELSE k[3]
Open(k)    == row[k].status \in OpenStatus
Current(k) == review[k[1]] = [completed |-> TRUE, version |-> k[2]]

(* Row k settled, or left to a later claim: its lease is cleared.          *)
LetGo(k, status, msg) == [status |-> status, attempts |-> row[k].attempts,
                          holder |-> Nobody, msg |-> msg]

Fault  == faults < MaxFaults /\ faults' = faults + 1
Steady == UNCHANGED faults

-----------------------------------------------------------------------------
(* Producers *)

OfApproval(k, r, version) == k \in Releases /\ k[1] = r /\ k[2] = version

(* approve_speaking_review_atomic, for the channels enabled at the moment. *)
Approve(r, enabled) ==
  LET version == review[r].version + 1 IN
  /\ ~review[r].completed /\ version <= Versions
  /\ review' = [review EXCEPT ![r] = [completed |-> TRUE, version |-> version]]
  /\ row' = [k \in Rows |->
               IF OfApproval(k, r, version) /\ k[3] \in enabled
                  /\ row[k].status = "absent"
                 THEN NewRow
                 ELSE row[k]]
  /\ UNCHANGED <<job, sends, reports, faults>>

(* Mutant: a row that a worker holds is left to it.                        *)
Reopen_QueuedOnly(r) ==
  /\ review[r].completed
  /\ review' = [review EXCEPT ![r] = [completed |-> FALSE, version |-> @.version]]
  /\ row' = [k \in Rows |->
               IF /\ OfApproval(k, r, review[r].version)
                  /\ row[k].status \in {"queued", "retry"}
                 THEN LetGo(k, "cancelled", row[k].msg)
                 ELSE row[k]]
  /\ UNCHANGED <<job, sends, reports, faults>>

(* reopen_speaking_review_atomic                                           *)
Reopen(r) ==
  /\ review[r].completed
  /\ review' = [review EXCEPT ![r] = [completed |-> FALSE, version |-> @.version]]
  /\ row' = [k \in Rows |->
               IF OfApproval(k, r, review[r].version) /\ Open(k)
                 THEN LetGo(k, "cancelled", row[k].msg)
                 ELSE row[k]]
  /\ UNCHANGED <<job, sends, reports, faults>>

(* enqueue_plan_reminder: once per user and date (unique index).           *)
Remind(k) ==
  /\ row[k].status = "absent"
  /\ row' = [row EXCEPT ![k] = NewRow]
  /\ UNCHANGED <<review, job, sends, reports, faults>>

-----------------------------------------------------------------------------
(* The worker *)

Busy(w, k) == job[w][k].pc # "none"
At(w, k, pc) == job[w][k].pc = pc
Leased(w, k) == row[k].status = "processing" /\ row[k].holder = w
Held(k) == row[k].holder # Nobody /\ Busy(row[k].holder, k)

Goto(w, k, pc, msg) == job' = [job EXCEPT ![w][k] = [pc |-> pc, msg |-> msg]]
Done(w, k) == job' = [job EXCEPT ![w][k] = NoStage]
Stop(w)    == job' = [job EXCEPT ![w] = [k \in Rows |-> NoStage]]

Taken(w, k) ==
  [status |-> "processing", holder |-> w, msg |-> row[k].msg,
   attempts |-> IF row[k].attempts < MaxAttempts THEN row[k].attempts + 1
                                                 ELSE MaxAttempts]

(* Mutant: the claim does not look at the lease.                           *)
Claim_AnyProcessing(w) ==
  \E S \in SUBSET {k \in Rows : Open(k)} :
    /\ S # {} /\ Cardinality(S) <= BatchSize
    /\ \A k \in Rows : ~Busy(w, k)
    /\ row' = [k \in Rows |-> IF k \in S THEN Taken(w, k) ELSE row[k]]
    /\ job' = [job EXCEPT ![w] =
                 [k \in Rows |-> [pc |-> IF k \in S THEN "preflight" ELSE "none",
                                  msg |-> 0]]]
    /\ Steady
    /\ UNCHANGED <<review, sends, reports>>

(* claim_notification_outbox: rows that are due and rows whose lease ran   *)
(* out, whatever their attempts.  A lease that runs out on a live worker   *)
(* is a fault; a row that nobody works on is due sooner or later.          *)
Claim(w) ==
  \E S \in SUBSET {k \in Rows : Open(k)} :
    /\ S # {} /\ Cardinality(S) <= BatchSize
    /\ \A k \in Rows : ~Busy(w, k)
    /\ row' = [k \in Rows |-> IF k \in S THEN Taken(w, k) ELSE row[k]]
    /\ job' = [job EXCEPT ![w] =
                 [k \in Rows |-> [pc |-> IF k \in S THEN "preflight" ELSE "none",
                                  msg |-> 0]]]
    /\ IF \E k \in S : Held(k) THEN Fault ELSE Steady
    /\ UNCHANGED <<review, sends, reports>>

(* A release must be of the review's current approval; a reminder is       *)
(* always sent.                                                            *)
Preflight(w, k) ==
  /\ At(w, k, "preflight")
  /\ IF k \in Reminders \/ Current(k) THEN Goto(w, k, "send", 0)
                                      ELSE Goto(w, k, "cancel", 0)
  /\ UNCHANGED <<review, row, sends, reports, faults>>

(* mark_cancelled, mark_sent and mark_failure are leased updates: they     *)
(* change nothing when the row was cancelled or claimed again meanwhile.   *)
MarkCancelled(w, k) ==
  /\ At(w, k, "cancel")
  /\ row' = IF Leased(w, k)
              THEN [row EXCEPT ![k] = LetGo(k, "cancelled", row[k].msg)]
              ELSE row
  /\ Done(w, k)
  /\ UNCHANGED <<review, sends, reports, faults>>

(* The provider accepts a message.  Resend knows the row by its            *)
(* idempotency key and returns the first message again; Meta has no key.   *)
Accepted(k) ==
  /\ Channel(k) \notin Refusing
  /\ IF Channel(k) = "email"
       THEN sends' = IF sends[k] = 0 THEN [sends EXCEPT ![k] = 1] ELSE sends
       ELSE sends[k] < MaxSends /\ sends' = [sends EXCEPT ![k] = @ + 1]

Send(w, k) ==
  /\ At(w, k, "send")
  /\ Accepted(k)
  /\ Goto(w, k, "sent", sends'[k])
  /\ Steady
  /\ UNCHANGED <<review, row, reports>>

(* The answer is lost (the message may be on its way), a 429 or a 5xx.     *)
SendFails(w, k) ==
  /\ At(w, k, "send")
  /\ \/ Accepted(k) \/ UNCHANGED sends
  /\ Goto(w, k, "retry", 0)
  /\ Fault
  /\ UNCHANGED <<review, row, reports>>

(* The channel is not configured, or a 4xx for this recipient.             *)
SendRefused(w, k) ==
  /\ At(w, k, "send")
  /\ IF Channel(k) \in Refusing THEN Steady ELSE Fault
  /\ Goto(w, k, "refuse", 0)
  /\ UNCHANGED <<review, row, sends, reports>>

Sent(w, k) ==
  IF Leased(w, k)
    THEN [row EXCEPT ![k] = LetGo(k, "sent", job[w][k].msg)]
    ELSE row

MarkSent(w, k) ==
  /\ At(w, k, "sent")
  /\ row' = Sent(w, k)
  /\ Done(w, k)
  /\ UNCHANGED <<review, sends, reports, faults>>

(* deliver catches what mark_sent raises, its update applied or not, and   *)
(* treats it as a send that failed.                                        *)
MarkSentFails(w, k) ==
  /\ At(w, k, "sent")
  /\ row' \in {row, Sent(w, k)}
  /\ Goto(w, k, "retry", 0)
  /\ Fault
  /\ UNCHANGED <<review, sends, reports>>

(* mark_failure.  The terminal update sets next_attempt_at to NULL, which  *)
(* its column does not allow: the call raises out of deliver and of the    *)
(* gather of run_batch, the process ends with its whole batch, and the row *)
(* stays in processing until its lease has run out.                        *)
MarkFailure(w, k) ==
  LET terminal == At(w, k, "refuse") \/ row[k].attempts = MaxAttempts IN
  /\ At(w, k, "retry") \/ At(w, k, "refuse")
  /\ IF Leased(w, k) /\ terminal
       THEN Stop(w) /\ UNCHANGED row
       ELSE /\ row' = IF Leased(w, k)
                        THEN [row EXCEPT ![k] = LetGo(k, "retry", row[k].msg)]
                        ELSE row
            /\ Done(w, k)
  /\ UNCHANGED <<review, sends, reports, faults>>

(* A worker is killed, or a call outside the try of deliver raises.        *)
Killed(w) ==
  /\ \E k \in Rows : Busy(w, k)
  /\ Stop(w)
  /\ Fault
  /\ UNCHANGED <<review, row, sends, reports>>

-----------------------------------------------------------------------------
(* record_notification_delivery_event: Meta reports message n of row k, in *)
(* any order; a report is recorded once and updates the row that carries   *)
(* the message id.  (A report `sent' changes a timestamp only.)            *)
Before(s) == CASE s = "delivered" -> {"sent", "delivered"}
               [] s = "read"      -> {"sent", "delivered", "read"}
               [] s = "failed"    -> {"sent", "failed"}

(* Mutant: the status in the table is not looked at.                       *)
Report_AnyStatus(k, n, s) ==
  /\ Channel(k) = "whatsapp" /\ n <= sends[k]
  /\ <<k, n, s>> \notin reports /\ Cardinality(reports) < MaxReports
  /\ reports' = reports \cup {<<k, n, s>>}
  /\ row' = IF row[k].msg = n THEN [row EXCEPT ![k].status = s] ELSE row
  /\ UNCHANGED <<review, job, sends, faults>>

Report(k, n, s) ==
  /\ Channel(k) = "whatsapp" /\ n <= sends[k]
  /\ <<k, n, s>> \notin reports /\ Cardinality(reports) < MaxReports
  /\ reports' = reports \cup {<<k, n, s>>}
  /\ row' = IF row[k].msg = n /\ row[k].status \in Before(s)
              THEN [row EXCEPT ![k].status = s] ELSE row
  /\ UNCHANGED <<review, job, sends, faults>>

-----------------------------------------------------------------------------
Produce ==
  \/ \E r \in Reviews, enabled \in SUBSET Channels : Approve(r, enabled)
  \/ \E r \in Reviews : Reopen(r)
  \/ \E k \in Reminders : Remind(k)

Deliver(w, k) ==
  \/ Preflight(w, k) \/ MarkCancelled(w, k)
  \/ Send(w, k) \/ SendFails(w, k) \/ SendRefused(w, k)
  \/ MarkSent(w, k) \/ MarkSentFails(w, k) \/ MarkFailure(w, k)

Next ==
  \/ Produce
  \/ \E w \in Workers : Claim(w) \/ Killed(w) \/ \E k \in Rows : Deliver(w, k)
  \/ \E k \in Rows, n \in 1..MaxSends, s \in Reported : Report(k, n, s)

Spec == Init /\ [][Next]_vars

-----------------------------------------------------------------------------
(* Properties *)

(* A release row that a worker may still claim belongs to the approval the *)
(* student sees: reopening leaves none behind, held by a worker or not.    *)
OpenIsCurrent == \A k \in Releases : Open(k) => Current(k)

(* A settled row is final though leases run out, sends are repeated and    *)
(* reports come twice or out of order: it is never queued again, a read    *)
(* message does not become delivered, a cancelled one not sent.            *)
SettledIsFinal ==
  [][\A k \in Rows :
       /\ row[k].status = "sent" => row'[k].status \in {"sent"} \cup Reported
       /\ row[k].status = "delivered" => row'[k].status \in {"delivered", "read"}
       /\ row[k].status \in {"read", "failed", "cancelled"} =>
            row'[k].status = row[k].status]_vars

(* A row says sent only of a message its provider accepted.                *)
SentWasAccepted ==
  \A k \in Rows :
    row[k].status \in {"sent", "delivered", "read"} =>
      row[k].msg \in 1..sends[k]

(* Without faults nobody is notified twice of the same thing, with two     *)
(* workers and any batches (FOR UPDATE SKIP LOCKED and the lease).         *)
NoDuplicateSend ==
  faults = 0 /\ Refusing = {} => \A k \in Rows : sends[k] <= 1

=============================================================================
