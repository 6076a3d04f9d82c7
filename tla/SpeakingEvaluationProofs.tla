---------------------- MODULE SpeakingEvaluationProofs ----------------------
(***************************************************************************)
(* A speaking attempt and its background tasks, for every number of        *)
(* questions, workers, requests, tries and faults.                         *)
(***************************************************************************)
EXTENDS SpeakingEvaluation, TLAPS

(* What a request that finalizes the attempt has seen.                     *)
Finalizing(r) == req[r].pc \in {"insert", "score", "close"}
Finalized ==
  \A r \in Reqs :
    /\ Finalizing(r) => \A q \in Questions : Confirmed(q)
    /\ req[r].pc \in {"score", "close"} => review.made

(* Only a confirmed answer is given to a worker, so no confirmation can    *)
(* change one that has its transcript.                                     *)
Given == \A q \in Questions :
           answer[q].tr.job \in {"processing", "completed"} => Confirmed(q)

(* A task that transcribes works on one of the answers.                    *)
Claiming == \A w \in Workers : work[w].pc \in {"claim", "asr"}
                                => work[w].q \in Questions

SInv == TypeOK /\ Finalized /\ Given /\ Claiming /\ CompletedHasReview

-----------------------------------------------------------------------------
(* Leases *)

(* What the operations on a lease make of it.                              *)
LEMMA LeaseTyped ==
  ASSUME NEW l \in Lease, NEW w \in Workers, NEW retryable \in BOOLEAN,
         NEW max, SpeakingAssumption
  PROVE  /\ Claimed(l, w) \in Lease /\ LeaseOK(Claimed(l, w))
         /\ Claimed(l, w).job = "processing"
         /\ Completed(l) \in Lease /\ LeaseOK(Completed(l))
         /\ Completed(l).job = "completed"
         /\ Failed(l, retryable, max) \in Lease
         /\ LeaseOK(Failed(l, retryable, max))
         /\ Failed(l, retryable, max).job \in {"retry_wait", "failed"}
<1>1. Claimed(l, w) \in Lease /\ LeaseOK(Claimed(l, w))
      /\ Claimed(l, w).job = "processing"
  BY DEF Lease, Claimed, JobStatus, LeaseOK, SpeakingAssumption
<1>2. Completed(l) \in Lease /\ LeaseOK(Completed(l))
      /\ Completed(l).job = "completed"
  BY DEF Lease, Completed, JobStatus, LeaseOK
<1>3. /\ Failed(l, retryable, max) \in Lease
      /\ LeaseOK(Failed(l, retryable, max))
      /\ Failed(l, retryable, max).job \in {"retry_wait", "failed"}
  <2>. DEFINE job == IF retryable /\ l.tries < max THEN "retry_wait"
                     ELSE "failed"
  <2>1. job \in {"retry_wait", "failed"} OBVIOUS
  <2>2. Failed(l, retryable, max) =
          [l EXCEPT !.job = job, !.holder = Nobody, !.expired = FALSE]
    BY DEF Failed
  <2>. HIDE DEF job
  <2>. QED BY <2>1, <2>2 DEF Lease, JobStatus, LeaseOK
<1>. QED BY <1>1, <1>2, <1>3

-----------------------------------------------------------------------------
(* Answers and review *)

(* What every step leaves true of the answers and of the review.           *)
AnswersKept ==
  /\ answer' \in [Questions -> Answer]
  /\ \A q \in Questions : LeaseOK(answer'[q].tr)
  /\ Given'
  /\ \A q \in Questions : Confirmed(q) => Confirmed(q)'
  /\ \A q \in Questions : Transcribed(q) => answer'[q] = answer[q]

ReviewKept ==
  /\ review' \in Review /\ LeaseOK(review'.ev)
  /\ review.made => review'.made
  /\ review.ev.job = "completed" => review'.ev = review.ev

(* A row whose job is not completed gets another lease.                    *)
LEMMA NewLease ==
  ASSUME TypeOK, Given, NEW q \in Questions, ~Transcribed(q),
         NEW l \in Lease, LeaseOK(l),
         l.job \in {"processing", "completed"} => Confirmed(q),
         answer' = [answer EXCEPT ![q].tr = l]
  PROVE  AnswersKept
<1>1. answer[q] \in Answer BY DEF TypeOK
<1>2. /\ answer'[q] = [answer[q] EXCEPT !.tr = l]
      /\ \A p \in Questions : p # q => answer'[p] = answer[p]
  BY DEF TypeOK
<1>3. /\ answer'[q] \in Answer /\ answer'[q].tr = l
      /\ answer'[q].upload = answer[q].upload
  BY <1>1, <1>2 DEF Answer
<1>4. answer' \in [Questions -> Answer] BY <1>2, <1>3 DEF TypeOK
<1>5. \A p \in Questions : LeaseOK(answer'[p].tr)
  BY <1>2, <1>3 DEF TypeOK
<1>6. \A p \in Questions : Confirmed(p)' <=> Confirmed(p)
  BY <1>2, <1>3 DEF Confirmed
<1>7. Given' BY <1>2, <1>3, <1>6 DEF Given
<1>8. \A p \in Questions : Transcribed(p) => answer'[p] = answer[p]
  BY <1>2
<1>. QED BY <1>4, <1>5, <1>6, <1>7, <1>8 DEF AnswersKept

(* A row is stored or confirmed; a job that goes on is of a confirmed one. *)
LEMMA NewUpload ==
  ASSUME TypeOK, Given, NEW q \in Questions,
         \/ answer' = [answer EXCEPT ![q].upload = "confirmed"]
         \/ /\ answer' = [answer EXCEPT ![q].upload = "pending_upload"]
            /\ ~Confirmed(q)
  PROVE  AnswersKept
<1>1. answer[q] \in Answer BY DEF TypeOK
<1>2. PICK u \in {"pending_upload", "confirmed"} :
        /\ answer' = [answer EXCEPT ![q].upload = u]
        /\ Confirmed(q) => u = "confirmed"
  OBVIOUS
<1>3. /\ answer'[q] = [answer[q] EXCEPT !.upload = u]
      /\ \A p \in Questions : p # q => answer'[p] = answer[p]
  BY <1>2 DEF TypeOK
<1>4. /\ answer'[q] \in Answer /\ answer'[q].tr = answer[q].tr
      /\ answer'[q].upload = u
      /\ Confirmed(q) => answer'[q] = answer[q]
  BY <1>1, <1>2, <1>3 DEF Answer, Confirmed
<1>5. answer' \in [Questions -> Answer] BY <1>3, <1>4 DEF TypeOK
<1>6. \A p \in Questions : LeaseOK(answer'[p].tr)
  BY <1>3, <1>4 DEF TypeOK
<1>7. \A p \in Questions : Confirmed(p) => Confirmed(p)'
  BY <1>2, <1>3, <1>4 DEF Confirmed
<1>8. Given'
  <2>1. \A p \in Questions : answer'[p].tr = answer[p].tr
    BY <1>3, <1>4
  <2>. QED BY <2>1, <1>7 DEF Given
<1>9. \A p \in Questions : Transcribed(p) => answer'[p] = answer[p]
  BY <1>3, <1>4 DEF Given, Transcribed
<1>. QED BY <1>5, <1>6, <1>7, <1>8, <1>9 DEF AnswersKept

LEMMA AnswersUnchanged ==
  ASSUME TypeOK, Given, UNCHANGED answer PROVE AnswersKept
BY DEF TypeOK, Given, AnswersKept, Confirmed

(* The fields of a review are written one at a time.                       *)
LEMMA NewReview ==
  ASSUME TypeOK,
         \/ review' = [review EXCEPT !.made = TRUE]
         \/ \E scores \in Scores : review' = [review EXCEPT !.scores = scores]
  PROVE  ReviewKept
<1>1. CASE review' = [review EXCEPT !.made = TRUE]
  <2>1. /\ review'.made = TRUE /\ review'.ev = review.ev
        /\ review'.scores = review.scores
    BY <1>1 DEF TypeOK, Review
  <2>. QED BY <1>1, <2>1 DEF TypeOK, Review, ReviewKept
<1>2. ASSUME NEW scores \in Scores, review' = [review EXCEPT !.scores = scores]
      PROVE  ReviewKept
  <2>1. /\ review'.made = review.made /\ review'.ev = review.ev
        /\ review' \in Review
    BY <1>2 DEF TypeOK, Review
  <2>. QED BY <2>1 DEF TypeOK, ReviewKept
<1>. QED BY <1>1, <1>2

LEMMA NewReviewLease ==
  ASSUME TypeOK, review.ev.job # "completed", NEW l \in Lease, LeaseOK(l),
         \/ review' = [review EXCEPT !.ev = l]
         \/ \E scores \in Scores :
              review' = [review EXCEPT !.ev = l, !.scores = scores]
  PROVE  ReviewKept
<1>1. review'.made = review.made /\ review'.ev = l /\ review' \in Review
  BY DEF TypeOK, Review
<1>. QED BY <1>1 DEF ReviewKept

LEMMA ReviewUnchanged ==
  ASSUME TypeOK, UNCHANGED review PROVE ReviewKept
BY DEF TypeOK, ReviewKept

(* The shape of a request and of a task at a program point.                *)
LEMMA ReqShape ==
  ASSUME TypeOK, NEW r \in Reqs
  PROVE  /\ req[r].pc \in {"upload", "confirm", "queue"} => req[r].q \in Questions
         /\ req[r].pc \in {"upload", "confirm", "queue"}
              => req[r] \in [pc : {"upload", "confirm", "queue"}, q : Questions]
         /\ Finalizing(r)
              => req[r] \in [pc : {"insert", "score", "close"}, all : BOOLEAN]
BY DEF TypeOK, Req, Idle, Finalizing

LEMMA WorkShape ==
  ASSUME TypeOK, NEW w \in Workers, work[w].pc # "idle"
  PROVE  work[w] \in Work
BY DEF TypeOK, Idle

(* Every step keeps the answers.                                           *)
LEMMA QueuedKept ==
  ASSUME TypeOK, Given, NEW q \in Questions, answer[q].tr.job = "not_queued",
         answer' = Queued(q)
  PROVE  AnswersKept
<1>. DEFINE l == [answer[q].tr EXCEPT !.job = "queued"]
<1>1. answer[q] \in Answer /\ answer[q].tr \in Lease /\ LeaseOK(answer[q].tr)
  BY DEF TypeOK, Answer
<1>2. l \in Lease /\ LeaseOK(l) /\ l.job = "queued"
  BY <1>1 DEF Lease, LeaseOK, JobStatus
<1>3. answer' = [answer EXCEPT ![q].tr = l]
  BY DEF Queued, TypeOK
<1>. HIDE DEF l
<1>. QED BY <1>2, <1>3, NewLease DEF Transcribed

LEMMA StepAnswers ==
  ASSUME SpeakingAssumption, TypeOK, Given, Claiming, [Next]_vars
  PROVE  AnswersKept
<1>1. ASSUME NEW q \in Questions, OpenSession(q) PROVE AnswersKept
  BY <1>1, NewUpload DEF OpenSession, Confirmed
<1>2. ASSUME NEW r \in Reqs, Upload(r) PROVE AnswersKept
  BY <1>2, ReqShape, NewUpload, AnswersUnchanged DEF Upload, ReqAt
<1>3. ASSUME NEW r \in Reqs, Confirm(r) PROVE AnswersKept
  BY <1>3, ReqShape, NewUpload DEF Confirm, ReqAt
<1>4. ASSUME NEW r \in Reqs, Queue(r) PROVE AnswersKept
  BY <1>4, ReqShape, QueuedKept, AnswersUnchanged DEF Queue, ReqAt
<1>5. ASSUME NEW w \in Workers, PollOne(w) PROVE AnswersKept
  <2>1. work[w].todo \subseteq Questions
    BY <1>5, WorkShape DEF PollOne, At, Work
  <2>. QED BY <1>5, <2>1, QueuedKept, AnswersUnchanged DEF PollOne
<1>6. ASSUME NEW w \in Workers, ClaimAnswer(w) PROVE AnswersKept
  <2>. DEFINE q == work[w].q
  <2>1. CASE UNCHANGED answer BY <2>1, AnswersUnchanged
  <2>2. ASSUME Confirmed(q), Claimable(answer[q].tr),
               answer' = [answer EXCEPT ![q].tr = Claimed(@, w)]
        PROVE  AnswersKept
    <3>1. q \in Questions
      BY <1>6 DEF ClaimAnswer, At, Claiming
    <3>2. answer[q].tr \in Lease /\ ~Transcribed(q)
      BY <2>2, <3>1 DEF TypeOK, Answer, Claimable, Transcribed
    <3>3. answer' = [answer EXCEPT ![q].tr = Claimed(answer[q].tr, w)]
      BY <2>2
    <3>. QED BY <2>2, <3>1, <3>2, <3>3, LeaseTyped, NewLease
  <2>. QED BY <1>6, <2>1, <2>2 DEF ClaimAnswer
<1>7. ASSUME NEW w \in Workers, Transcribe(w) PROVE AnswersKept
  <2>. DEFINE q == work[w].q
  <2>1. CASE UNCHANGED answer BY <2>1, AnswersUnchanged
  <2>2. ASSUME NEW l \in {Completed(answer[q].tr)}
                  \cup {Failed(answer[q].tr, retryable, MaxAsr) : retryable \in BOOLEAN},
               Holds(answer[q].tr, w), answer' = [answer EXCEPT ![q].tr = l]
        PROVE  AnswersKept
    <3>1. q \in Questions BY <1>7 DEF Transcribe, At, Claiming
    <3>2. answer[q].tr \in Lease /\ ~Transcribed(q) /\ Confirmed(q)
      BY <2>2, <3>1 DEF TypeOK, Answer, Holds, Transcribed, Given
    <3>3. l \in Lease /\ LeaseOK(l)
      <4>1. CASE l = Completed(answer[q].tr) BY <3>2, <4>1, LeaseTyped
      <4>2. ASSUME NEW retryable \in BOOLEAN,
                   l = Failed(answer[q].tr, retryable, MaxAsr)
            PROVE  l \in Lease /\ LeaseOK(l)
        BY <3>2, <4>2, LeaseTyped
      <4>. QED BY <2>2, <4>1, <4>2
    <3>. QED BY <2>2, <3>1, <3>2, <3>3, NewLease
  <2>3. CASE /\ Holds(answer[q].tr, w)
             /\ answer' = [answer EXCEPT ![q].tr = Completed(@)]
    BY <2>2, <2>3
  <2>4. CASE /\ Holds(answer[q].tr, w)
             /\ \E retryable \in BOOLEAN :
                  answer' = [answer EXCEPT ![q].tr = Failed(@, retryable, MaxAsr)]
    BY <2>2, <2>4
  <2>. QED BY <1>7, <2>1, <2>3, <2>4 DEF Transcribe
<1>8. ASSUME NEW q \in Questions, AnswerLeaseEnds(q) PROVE AnswersKept
  <2>. DEFINE l == [answer[q].tr EXCEPT !.expired = TRUE]
  <2>1. answer[q] \in Answer /\ answer[q].tr \in Lease /\ LeaseOK(answer[q].tr)
    BY DEF TypeOK, Answer
  <2>2. answer[q].tr.job = "processing" BY <1>8 DEF AnswerLeaseEnds, Ends
  <2>3. l \in Lease /\ LeaseOK(l) /\ l.job = "processing"
    BY <2>1, <2>2 DEF Lease, LeaseOK
  <2>4. answer' = [answer EXCEPT ![q].tr = l]
    BY <1>8 DEF AnswerLeaseEnds, TypeOK
  <2>5. Confirmed(q) /\ ~Transcribed(q) BY <2>2 DEF Given, Transcribed
  <2>. HIDE DEF l
  <2>. QED BY <2>3, <2>4, <2>5, NewLease
<1>9. CASE UNCHANGED answer BY <1>9, AnswersUnchanged
<1>10. CASE UNCHANGED vars BY <1>9, <1>10 DEF vars
<1>11. ASSUME NEW r \in Reqs,
              \/ AskConfirm(r) \/ AskFinalize(r) \/ AskAbandon(r)
              \/ InsertReview(r) \/ ScoreReview(r) \/ CloseAttempt(r) \/ Abandon(r)
       PROVE  UNCHANGED answer
  BY <1>11 DEF AskConfirm, AskFinalize, AskAbandon, InsertReview, ScoreReview,
               CloseAttempt, Abandon
<1>12. ASSUME NEW w \in Workers,
              \/ Begin(w) \/ ReadReview(w) \/ WriteReview(w) \/ Settle(w)
              \/ ClaimReview(w) \/ Evaluate(w)
       PROVE  UNCHANGED answer
  BY <1>12 DEF Begin, ReadReview, WriteReview, Settle, ClaimReview, Evaluate
<1>13. Poll \/ ReviewLeaseEnds \/ Restart => UNCHANGED answer
  BY DEF Poll, ReviewLeaseEnds, Restart
<1>. QED BY <1>1, <1>2, <1>3, <1>4, <1>5, <1>6, <1>7, <1>8, <1>9, <1>10, <1>11,
            <1>12, <1>13 DEF Next, ReqStep, TaskStep

(* Every step keeps the review.                                            *)
LEMMA StepReview ==
  ASSUME SpeakingAssumption, TypeOK, [Next]_vars PROVE ReviewKept
<1>1. ASSUME NEW r \in Reqs, InsertReview(r) \/ ScoreReview(r) PROVE ReviewKept
  BY <1>1, NewReview, ReviewUnchanged DEF InsertReview, ScoreReview, Scores
<1>2. ASSUME NEW w \in Workers, WriteReview(w) PROVE ReviewKept
  <2>1. Refreshed(work[w]) \in Scores
    BY <1>2, WorkShape DEF WriteReview, At, Refreshed, Scores, Work
  <2>. QED BY <1>2, <2>1, NewReview DEF WriteReview
<1>3. review.ev \in Lease /\ LeaseOK(review.ev) BY DEF TypeOK, Review
<1>4. ASSUME NEW w \in Workers, ClaimReview(w) PROVE ReviewKept
  <2>1. CASE UNCHANGED review BY <2>1, ReviewUnchanged
  <2>2. CASE /\ Evaluable(review.ev)
             /\ review' = [review EXCEPT !.ev = Claimed(@, w)]
    <3>1. review.ev.job # "completed" BY <2>2 DEF Evaluable, Claimable
    <3>2. review' = [review EXCEPT !.ev = Claimed(review.ev, w)] BY <2>2
    <3>. QED BY <1>3, <3>1, <3>2, LeaseTyped, NewReviewLease
  <2>. QED BY <1>4, <2>1, <2>2 DEF ClaimReview
<1>5. ASSUME NEW w \in Workers, Evaluate(w) PROVE ReviewKept
  <2>1. CASE UNCHANGED review BY <2>1, ReviewUnchanged
  <2>2. ASSUME NEW l \in {Completed(review.ev)}
                  \cup {Failed(review.ev, retryable, MaxLlm) : retryable \in BOOLEAN},
               Holds(review.ev, w), NEW scores \in Scores,
               review' = [review EXCEPT !.ev = l, !.scores = scores]
        PROVE  ReviewKept
    <3>1. review.ev.job # "completed" BY <2>2 DEF Holds
    <3>2. l \in Lease /\ LeaseOK(l)
      <4>1. CASE l = Completed(review.ev) BY <1>3, <4>1, <1>5, LeaseTyped
      <4>2. ASSUME NEW retryable \in BOOLEAN,
                   l = Failed(review.ev, retryable, MaxLlm)
            PROVE  l \in Lease /\ LeaseOK(l)
        BY <1>3, <1>5, <4>2, LeaseTyped
      <4>. QED BY <2>2, <4>1, <4>2
    <3>. QED BY <2>2, <3>1, <3>2, NewReviewLease
  <2>3. CASE /\ Holds(review.ev, w)
             /\ review' = [review EXCEPT !.ev = Completed(@), !.scores = "ai"]
    <3>1. review' = [review EXCEPT !.ev = Completed(review.ev), !.scores = "ai"]
      BY <2>3
    <3>. QED BY <2>2, <2>3, <3>1 DEF Scores
  <2>4. ASSUME Holds(review.ev, w), NEW retryable \in BOOLEAN,
               review' = [review EXCEPT !.ev = Failed(@, retryable, MaxLlm),
                                        !.scores = "failed"]
        PROVE  ReviewKept
    <3>1. review' = [review EXCEPT !.ev = Failed(review.ev, retryable, MaxLlm),
                                   !.scores = "failed"]
      BY <2>4
    <3>. QED BY <2>2, <2>4, <3>1 DEF Scores
  <2>. QED BY <1>5, <2>1, <2>3, <2>4 DEF Evaluate
<1>6. CASE ReviewLeaseEnds
  <2>. DEFINE l == [review.ev EXCEPT !.expired = TRUE]
  <2>1. review.ev.job = "processing" BY <1>6 DEF ReviewLeaseEnds, Ends
  <2>2. l \in Lease /\ LeaseOK(l) BY <1>3, <2>1 DEF Lease, LeaseOK
  <2>3. review' = [review EXCEPT !.ev = l]
    BY <1>6 DEF ReviewLeaseEnds, TypeOK, Review
  <2>. HIDE DEF l
  <2>. QED BY <2>1, <2>2, <2>3, NewReviewLease
<1>7. CASE UNCHANGED review BY <1>7, ReviewUnchanged
<1>8. CASE UNCHANGED vars BY <1>7, <1>8 DEF vars
<1>9. ASSUME NEW r \in Reqs,
             \/ AskConfirm(r) \/ AskFinalize(r) \/ AskAbandon(r) \/ Upload(r)
             \/ Confirm(r) \/ Queue(r) \/ CloseAttempt(r) \/ Abandon(r)
      PROVE  UNCHANGED review
  BY <1>9 DEF AskConfirm, AskFinalize, AskAbandon, Upload, Confirm, Queue,
              CloseAttempt, Abandon
<1>10. ASSUME NEW w \in Workers,
              \/ Begin(w) \/ PollOne(w) \/ ClaimAnswer(w) \/ Transcribe(w)
              \/ ReadReview(w) \/ Settle(w)
       PROVE  UNCHANGED review
  BY <1>10 DEF Begin, PollOne, ClaimAnswer, Transcribe, ReadReview, Settle
<1>11. ASSUME NEW q \in Questions, OpenSession(q) \/ AnswerLeaseEnds(q)
       PROVE  UNCHANGED review
  BY <1>11 DEF OpenSession, AnswerLeaseEnds
<1>12. Poll \/ Restart => UNCHANGED review BY DEF Poll, Restart
<1>. QED BY <1>1, <1>2, <1>4, <1>5, <1>6, <1>7, <1>8, <1>9, <1>10, <1>11, <1>12
         DEF Next, ReqStep, TaskStep

-----------------------------------------------------------------------------
(* Requests, tasks and faults *)

(* What every step leaves true of the tasks, the workers and the faults.   *)
WorkKept ==
  /\ tasks' \subseteq Tasks
  /\ work' \in [Workers -> Work \cup {Idle}]
  /\ Claiming'
  /\ faults' \in 0..MaxFaults

(* One worker goes to another program point.                               *)
LEMMA NewWorkOf ==
  ASSUME TypeOK, Claiming, NEW w \in Workers, NEW rec \in Work \cup {Idle},
         rec.pc \in {"claim", "asr"} => rec.q \in Questions,
         work' = [work EXCEPT ![w] = rec],
         tasks' \subseteq Tasks, UNCHANGED faults
  PROVE  WorkKept
<1>1. /\ work'[w] = rec
      /\ \A v \in Workers : v # w => work'[v] = work[v]
  BY DEF TypeOK
<1>2. Claiming' BY <1>1 DEF Claiming
<1>. QED BY <1>2 DEF TypeOK, WorkKept

LEMMA EvaluateNext ==
  ASSUME TypeOK, Claiming, NEW w \in Workers,
         Do(w, [NewWork EXCEPT !.pc = "evaluate"]),
         tasks' \subseteq Tasks, UNCHANGED faults
  PROVE  WorkKept
<1>. DEFINE rec == [NewWork EXCEPT !.pc = "evaluate"]
<1>1. rec \in Work /\ rec.pc = "evaluate"
  BY DEF NewWork, Work, JobStatus, Scores
<1>2. work' = [work EXCEPT ![w] = rec] BY DEF Do
<1>. HIDE DEF rec
<1>. QED BY <1>1, <1>2, NewWorkOf

(* A task that polls takes up its answers.                                 *)
LEMMA PollNext ==
  ASSUME TypeOK, Claiming, NEW w \in Workers, NEW todo \in SUBSET Questions,
         Do(w, [NewWork EXCEPT !.polling = TRUE, !.todo = todo]),
         tasks' \subseteq Tasks, UNCHANGED faults
  PROVE  WorkKept
<1>. DEFINE polling == TRUE
            rec == [NewWork EXCEPT !.polling = polling, !.todo = todo]
<1>1. work' = [work EXCEPT ![w] = rec] BY DEF Do
<1>2. polling \in BOOLEAN OBVIOUS
<1>. HIDE DEF polling
<1>3. rec \in Work /\ rec.pc = "poll"
  BY <1>2 DEF NewWork, Work, JobStatus, Scores
<1>. HIDE DEF rec
<1>. QED BY <1>1, <1>3, NewWorkOf

LEMMA WorkFields ==
  ASSUME TypeOK, NEW w \in Workers, work[w].pc # "idle"
  PROVE  /\ work[w].todo \in SUBSET Questions
         /\ work[w].polling \in BOOLEAN
         /\ work[w].q \in Questions \cup {0}
BY WorkShape DEF Work

LEMMA BackKept ==
  ASSUME TypeOK, Claiming, NEW w \in Workers, work[w].pc # "idle",
         Back(w), UNCHANGED <<tasks, faults>>
  PROVE  WorkKept
<1>1. tasks' \subseteq Tasks BY DEF TypeOK
<1>2. CASE work[w].polling
  <2>1. Do(w, [NewWork EXCEPT !.polling = TRUE, !.todo = work[w].todo])
    BY <1>2 DEF Back
  <2>. QED BY <1>1, <2>1, WorkFields, PollNext
<1>3. CASE ~work[w].polling
  <2>1. work' = [work EXCEPT ![w] = Idle] BY <1>3 DEF Back, Do
  <2>. QED BY <1>1, <2>1, NewWorkOf DEF Idle
<1>. QED BY <1>2, <1>3

LEMMA GotoKept ==
  ASSUME TypeOK, Claiming, NEW w \in Workers, work[w].pc # "idle",
         NEW pc \in {"poll", "claim", "asr", "read", "write", "settle",
                     "evaluate", "llm"},
         pc \in {"claim", "asr"} => work[w].q \in Questions,
         Goto(w, pc), UNCHANGED <<tasks, faults>>
  PROVE  WorkKept
<1>. DEFINE rec == [work[w] EXCEPT !.pc = pc]
<1>1. rec \in Work /\ rec.pc = pc /\ rec.q = work[w].q
  BY WorkShape DEF Work
<1>2. work' = [work EXCEPT ![w] = rec] BY DEF Goto, TypeOK
<1>3. tasks' \subseteq Tasks BY DEF TypeOK
<1>. HIDE DEF rec
<1>. QED BY <1>1, <1>2, <1>3, NewWorkOf

LEMMA StepWork ==
  ASSUME SpeakingAssumption, TypeOK, Claiming, [Next]_vars PROVE WorkKept
<1>1. ASSUME NEW w \in Workers, Begin(w) PROVE WorkKept
  <2>1. PICK t \in tasks :
          /\ tasks' = tasks \ {t}
          /\ Do(w, CASE t.kind = "transcribe" -> [NewWork EXCEPT !.pc = "claim",
                                                                !.q = t.q]
                    [] t.kind = "evaluate"   -> [NewWork EXCEPT !.pc = "evaluate"]
                    [] t.kind = "reconcile"  ->
                         [NewWork EXCEPT !.polling = TRUE,
                            !.todo = {q \in Questions : /\ Confirmed(q)
                                                        /\ ~Transcribed(q)}])
    BY <1>1 DEF Begin
  <2>2. tasks' \subseteq Tasks /\ UNCHANGED faults
    BY <1>1, <2>1 DEF Begin, TypeOK
  <2>3. t \in Tasks BY DEF TypeOK
  <2>4. CASE t.kind = "transcribe"
    <3>1. t.q \in Questions BY <2>3, <2>4 DEF Tasks
    <3>. DEFINE rec == [NewWork EXCEPT !.pc = "claim", !.q = t.q]
    <3>2. rec \in Work /\ rec.q = t.q
      BY <3>1 DEF NewWork, Work, JobStatus, Scores
    <3>3. work' = [work EXCEPT ![w] = rec] BY <2>1, <2>4 DEF Do
    <3>. HIDE DEF rec
    <3>. QED BY <2>2, <3>1, <3>2, <3>3, NewWorkOf
  <2>5. CASE t.kind = "evaluate"
    <3>1. Do(w, [NewWork EXCEPT !.pc = "evaluate"]) BY <2>1, <2>5
    <3>. QED BY <2>2, <3>1, EvaluateNext
  <2>6. CASE t.kind = "reconcile"
    <3>. DEFINE todo == {q \in Questions : Confirmed(q) /\ ~Transcribed(q)}
    <3>1. Do(w, [NewWork EXCEPT !.polling = TRUE, !.todo = todo])
      BY <2>1, <2>6
    <3>2. todo \in SUBSET Questions OBVIOUS
    <3>. HIDE DEF todo
    <3>. QED BY <2>2, <3>1, <3>2, PollNext
  <2>. QED BY <2>3, <2>4, <2>5, <2>6 DEF Tasks
<1>2. ASSUME NEW w \in Workers, PollOne(w) PROVE WorkKept
  <2>1. /\ work[w].pc # "idle" /\ UNCHANGED <<tasks, faults>>
        /\ work[w] \in Work
    BY <1>2, WorkShape DEF PollOne, At
  <2>2. CASE Goto(w, "settle") BY <2>1, <2>2, GotoKept
  <2>3. ASSUME NEW q \in work[w].todo,
               Do(w, [work[w] EXCEPT !.pc = "claim", !.q = q, !.todo = @ \ {q}])
        PROVE  WorkKept
    <3>. DEFINE rec == [work[w] EXCEPT !.pc = "claim", !.q = q, !.todo = @ \ {q}]
    <3>1. rec \in Work /\ rec.q \in Questions BY <2>1 DEF Work
    <3>2. work' = [work EXCEPT ![w] = rec] BY <2>3 DEF Do
    <3>3. tasks' \subseteq Tasks BY <2>1 DEF TypeOK
    <3>. HIDE DEF rec
    <3>. QED BY <2>1, <3>1, <3>2, <3>3, NewWorkOf
  <2>. QED BY <1>2, <2>2, <2>3 DEF PollOne
<1>3. ASSUME NEW w \in Workers, ClaimAnswer(w) PROVE WorkKept
  <2>1. /\ work[w].pc # "idle" /\ UNCHANGED <<tasks, faults>>
        /\ work[w].q \in Questions
    BY <1>3 DEF ClaimAnswer, At, Claiming
  <2>. QED BY <1>3, <2>1, GotoKept, BackKept DEF ClaimAnswer
<1>4. ASSUME NEW w \in Workers, Transcribe(w) PROVE WorkKept
  <2>1. work[w].pc # "idle" /\ UNCHANGED <<tasks, faults>>
    BY <1>4 DEF Transcribe, At
  <2>. QED BY <1>4, <2>1, GotoKept, BackKept DEF Transcribe
<1>5. ASSUME NEW w \in Workers, ReadReview(w) PROVE WorkKept
  <2>1. /\ work[w].pc # "idle" /\ UNCHANGED <<tasks, faults>>
        /\ work[w] \in Work
    BY <1>5, WorkShape DEF ReadReview, At
  <2>2. CASE Back(w) BY <2>1, <2>2, BackKept
  <2>3. CASE Do(w, [work[w] EXCEPT !.pc = "write", !.all = AllTranscribed,
                                   !.job = review.ev.job,
                                   !.scores = review.scores])
    <3>. DEFINE all == AllTranscribed
                rec == [work[w] EXCEPT !.pc = "write", !.all = all,
                                       !.job = review.ev.job,
                                       !.scores = review.scores]
    <3>1. all \in BOOLEAN BY DEF AllTranscribed
    <3>2. review.ev.job \in JobStatus /\ review.scores \in Scores
      BY DEF TypeOK, Review, Lease
    <3>3. work' = [work EXCEPT ![w] = rec] BY <2>3 DEF Do
    <3>. HIDE DEF all
    <3>4. rec \in Work /\ rec.pc = "write" BY <2>1, <3>1, <3>2 DEF Work
    <3>5. tasks' \subseteq Tasks BY <2>1 DEF TypeOK
    <3>. HIDE DEF rec
    <3>. QED BY <2>1, <3>3, <3>4, <3>5, NewWorkOf
  <2>. QED BY <1>5, <2>2, <2>3 DEF ReadReview
<1>6. ASSUME NEW w \in Workers, WriteReview(w) PROVE WorkKept
  <2>1. work[w].pc # "idle" /\ UNCHANGED <<tasks, faults>>
    BY <1>6 DEF WriteReview, At
  <2>2. CASE Back(w) BY <2>1, <2>2, BackKept
  <2>3. CASE Do(w, [NewWork EXCEPT !.pc = "evaluate", !.todo = work[w].todo,
                                   !.polling = work[w].polling])
    <3>. DEFINE todo == work[w].todo
                polling == work[w].polling
    <3>1. tasks' \subseteq Tasks BY <2>1 DEF TypeOK
    <3>2. todo \in SUBSET Questions /\ polling \in BOOLEAN BY <2>1, WorkFields
    <3>. DEFINE rec == [NewWork EXCEPT !.pc = "evaluate", !.todo = todo,
                                       !.polling = polling]
    <3>3. work' = [work EXCEPT ![w] = rec] BY <2>3 DEF Do
    <3>. HIDE DEF todo, polling
    <3>4. rec \in Work /\ rec.pc = "evaluate"
      BY <3>2 DEF NewWork, Work, JobStatus, Scores
    <3>. HIDE DEF rec
    <3>. QED BY <2>1, <3>1, <3>3, <3>4, NewWorkOf
  <2>. QED BY <1>6, <2>2, <2>3 DEF WriteReview
<1>7. ASSUME NEW w \in Workers, Settle(w) PROVE WorkKept
  <2>1. UNCHANGED <<tasks, faults>> /\ tasks' \subseteq Tasks
    BY <1>7 DEF Settle, TypeOK
  <2>2. CASE Do(w, [NewWork EXCEPT !.pc = "evaluate"])
    BY <2>1, <2>2, EvaluateNext
  <2>3. CASE Do(w, Idle)
    BY <2>1, <2>3, NewWorkOf DEF Do, Idle
  <2>. QED BY <1>7, <2>2, <2>3 DEF Settle
<1>8. ASSUME NEW w \in Workers, ClaimReview(w) PROVE WorkKept
  <2>1. work[w].pc # "idle" /\ UNCHANGED <<tasks, faults>>
    BY <1>8 DEF ClaimReview, At
  <2>. QED BY <1>8, <2>1, GotoKept, BackKept DEF ClaimReview
<1>9. ASSUME NEW w \in Workers, Evaluate(w) PROVE WorkKept
  <2>1. work[w].pc # "idle" /\ UNCHANGED <<tasks, faults>>
    BY <1>9 DEF Evaluate, At
  <2>. QED BY <1>9, <2>1, BackKept DEF Evaluate
<1>10. CASE /\ tasks' \subseteq Tasks /\ faults' \in 0..MaxFaults
            /\ UNCHANGED work
  BY <1>10 DEF TypeOK, Claiming, WorkKept
<1>11. CASE Restart
  <2>1. faults' \in 0..MaxFaults
    BY <1>11 DEF Restart, TypeOK, SpeakingAssumption
  <2>2. work' = [w \in Workers |-> Idle] /\ tasks' = {} BY <1>11 DEF Restart
  <2>3. Claiming' BY <2>2 DEF Claiming, Idle
  <2>. QED BY <2>1, <2>2, <2>3 DEF WorkKept
<1>12. ASSUME NEW q \in Questions, AnswerLeaseEnds(q) \/ ReviewLeaseEnds
       PROVE  WorkKept
  <2>1. faults' \in 0..MaxFaults
    BY <1>12 DEF AnswerLeaseEnds, ReviewLeaseEnds, Ends, TypeOK,
                 SpeakingAssumption
  <2>2. UNCHANGED <<tasks, work>>
    BY <1>12 DEF AnswerLeaseEnds, ReviewLeaseEnds
  <2>. QED BY <1>10, <2>1, <2>2 DEF TypeOK
<1>13. ASSUME NEW r \in Reqs, Queue(r) PROVE WorkKept
  <2>1. req[r].q \in Questions BY <1>13, ReqShape DEF Queue, ReqAt
  <2>2. [kind |-> "transcribe", q |-> req[r].q] \in Tasks BY <2>1 DEF Tasks
  <2>3. tasks' \subseteq Tasks BY <1>13, <2>2 DEF Queue, TypeOK
  <2>. QED BY <1>10, <1>13, <2>3 DEF Queue, TypeOK
<1>14. ASSUME NEW r \in Reqs, CloseAttempt(r) PROVE WorkKept
  <2>1. [kind |-> "evaluate"] \in Tasks BY DEF Tasks
  <2>2. tasks' \subseteq Tasks BY <1>14, <2>1 DEF CloseAttempt, TypeOK
  <2>. QED BY <1>10, <1>14, <2>2 DEF CloseAttempt, TypeOK
<1>15. CASE Poll
  <2>1. [kind |-> "reconcile"] \in Tasks BY DEF Tasks
  <2>2. tasks' \subseteq Tasks BY <1>15, <2>1 DEF Poll, TypeOK
  <2>. QED BY <1>10, <1>15, <2>2 DEF Poll, TypeOK
<1>16. CASE UNCHANGED <<tasks, work, faults>> BY <1>10, <1>16 DEF TypeOK
<1>17. ASSUME NEW r \in Reqs,
              \/ AskConfirm(r) \/ AskFinalize(r) \/ AskAbandon(r) \/ Upload(r)
              \/ Confirm(r) \/ InsertReview(r) \/ ScoreReview(r) \/ Abandon(r)
       PROVE  UNCHANGED <<tasks, work, faults>>
  BY <1>17 DEF AskConfirm, AskFinalize, AskAbandon, Upload, Confirm,
               InsertReview, ScoreReview, Abandon
<1>18. ASSUME NEW q \in Questions, OpenSession(q)
       PROVE  UNCHANGED <<tasks, work, faults>>
  BY <1>18 DEF OpenSession
<1>19. CASE UNCHANGED vars BY <1>16, <1>19 DEF vars
<1>20. 1 \in Questions BY DEF Questions, SpeakingAssumption
<1>. QED BY <1>1, <1>2, <1>3, <1>4, <1>5, <1>6, <1>7, <1>8, <1>9, <1>11, <1>12,
            <1>13, <1>14, <1>15, <1>16, <1>17, <1>18, <1>19, <1>20
         DEF Next, ReqStep, TaskStep


(* What every step leaves true of the requests and of the attempt.         *)
ReqKept ==
  /\ attempt' \in {"in_progress", "completed", "abandoned"}
  /\ req' \in [Reqs -> Req \cup {Idle}]
  /\ Finalized'
  /\ CompletedHasReview'

(* One request goes on: what it has seen stays true.                       *)
LEMMA NewReqOf ==
  ASSUME TypeOK, Finalized, CompletedHasReview, AnswersKept, ReviewKept,
         NEW r \in Reqs, NEW rec \in Req \cup {Idle},
         rec.pc \in {"insert", "score", "close"}
           => \A q \in Questions : Confirmed(q),
         rec.pc \in {"score", "close"} => review'.made,
         req' = [req EXCEPT ![r] = rec],
         \/ attempt' \in {attempt, "abandoned"}
         \/ attempt' = "completed" /\ review.made /\ \A q \in Questions : Confirmed(q)
  PROVE  ReqKept
<1>1. /\ req'[r] = rec
      /\ \A s \in Reqs : s # r => req'[s] = req[s]
  BY DEF TypeOK
<1>2. \A q \in Questions : Confirmed(q) => Confirmed(q)'
  BY DEF AnswersKept
<1>3. review.made => review'.made BY DEF ReviewKept
<1>4. Finalized'
  <2>1. ASSUME NEW s \in Reqs
        PROVE  /\ Finalizing(s)' => \A q \in Questions : Confirmed(q)'
               /\ req'[s].pc \in {"score", "close"} => review'.made
    BY <1>1, <1>2, <1>3 DEF Finalized, Finalizing
  <2>. QED BY <2>1 DEF Finalized
<1>5. CompletedHasReview' BY <1>2, <1>3 DEF CompletedHasReview
<1>. QED BY <1>4, <1>5 DEF ReqKept, TypeOK

LEMMA ReqUnchanged ==
  ASSUME TypeOK, Finalized, CompletedHasReview, AnswersKept, ReviewKept,
         UNCHANGED <<attempt, req>>
  PROVE  ReqKept
<1>1. \A q \in Questions : Confirmed(q) => Confirmed(q)'
  BY DEF AnswersKept
<1>2. review.made => review'.made BY DEF ReviewKept
<1>3. Finalized' BY <1>1, <1>2 DEF Finalized, Finalizing
<1>4. CompletedHasReview' BY <1>1, <1>2 DEF CompletedHasReview
<1>. QED BY <1>3, <1>4 DEF ReqKept, TypeOK

LEMMA ReqDone ==
  ASSUME TypeOK, Finalized, CompletedHasReview, AnswersKept, ReviewKept,
         NEW r \in Reqs, ReqDo(r, Idle), attempt' \in {attempt, "abandoned"}
  PROVE  ReqKept
BY NewReqOf DEF ReqDo, Idle

LEMMA StepReq ==
  ASSUME SpeakingAssumption, SInv, [Next]_vars PROVE ReqKept
<1>. USE DEF SInv
<1>1. AnswersKept /\ ReviewKept BY StepAnswers, StepReview
<1>2. ASSUME NEW r \in Reqs, AskConfirm(r) PROVE ReqKept
  <2>1. PICK q \in Questions, pc \in {"upload", "confirm", "queue"} :
          ReqDo(r, [pc |-> pc, q |-> q])
    BY <1>2 DEF AskConfirm
  <2>. DEFINE rec == [pc |-> pc, q |-> q]
  <2>2. rec \in Req /\ rec.pc = pc BY DEF Req
  <2>3. req' = [req EXCEPT ![r] = rec] BY <2>1 DEF ReqDo
  <2>. HIDE DEF rec
  <2>. QED BY <1>1, <1>2, <2>2, <2>3, NewReqOf DEF AskConfirm
<1>3. ASSUME NEW r \in Reqs, Upload(r) \/ Confirm(r) PROVE ReqKept
  <2>1. CASE ReqDo(r, Idle) BY <1>1, <1>3, <2>1, ReqDone DEF Upload, Confirm
  <2>2. CASE ReqDo(r, [req[r] EXCEPT !.pc = "queue"])
    <3>. DEFINE rec == [req[r] EXCEPT !.pc = "queue"]
    <3>1. rec \in Req /\ rec.pc = "queue"
      BY <1>3, ReqShape DEF Upload, Confirm, ReqAt, Req
    <3>2. req' = [req EXCEPT ![r] = rec] BY <2>2 DEF ReqDo
    <3>. HIDE DEF rec
    <3>. QED BY <1>1, <1>3, <3>1, <3>2, NewReqOf DEF Upload, Confirm
  <2>. QED BY <1>3, <2>1, <2>2 DEF Upload, Confirm
<1>4. ASSUME NEW r \in Reqs, Queue(r) \/ Abandon(r) PROVE ReqKept
  BY <1>1, <1>4, ReqDone DEF Queue, Abandon
<1>5. ASSUME NEW r \in Reqs, AskFinalize(r) PROVE ReqKept
  <2>. DEFINE pc == IF review.made THEN "score" ELSE "insert"
              all == \A q \in Questions : Transcribed(q)
              rec == [pc |-> pc, all |-> all]
  <2>1. req' = [req EXCEPT ![r] = rec] BY <1>5 DEF AskFinalize, ReqDo
  <2>2. pc \in {"score", "insert"} /\ (pc = "score" => review.made) OBVIOUS
  <2>3. all \in BOOLEAN OBVIOUS
  <2>4. /\ \A q \in Questions : Confirmed(q)
        /\ UNCHANGED <<attempt, review>>
    BY <1>5 DEF AskFinalize
  <2>. HIDE DEF pc, all
  <2>5. rec \in Req /\ rec.pc = pc BY <2>2, <2>3 DEF Req
  <2>. HIDE DEF rec
  <2>. QED BY <1>1, <2>1, <2>2, <2>4, <2>5, NewReqOf
<1>6. ASSUME NEW r \in Reqs, AskAbandon(r) PROVE ReqKept
  <2>. DEFINE rec == [pc |-> "abandon"]
  <2>1. rec \in Req /\ rec.pc = "abandon" BY DEF Req
  <2>2. req' = [req EXCEPT ![r] = rec] BY <1>6 DEF AskAbandon, ReqDo
  <2>. HIDE DEF rec
  <2>. QED BY <1>1, <1>6, <2>1, <2>2, NewReqOf DEF AskAbandon
<1>7. ASSUME NEW r \in Reqs, InsertReview(r) PROVE ReqKept
  <2>1. CASE ReqDo(r, Idle) BY <1>1, <1>7, <2>1, ReqDone DEF InsertReview
  <2>2. CASE /\ review' = [review EXCEPT !.made = TRUE]
             /\ ReqDo(r, [req[r] EXCEPT !.pc = "score"])
    <3>. DEFINE rec == [req[r] EXCEPT !.pc = "score"]
    <3>1. Finalizing(r) BY <1>7 DEF InsertReview, ReqAt, Finalizing
    <3>2. rec \in Req /\ rec.pc = "score" BY <3>1, ReqShape DEF Req
    <3>3. \A q \in Questions : Confirmed(q) BY <3>1 DEF Finalized
    <3>4. review'.made = TRUE BY <2>2 DEF TypeOK, Review
    <3>5. req' = [req EXCEPT ![r] = rec] BY <2>2 DEF ReqDo
    <3>. HIDE DEF rec
    <3>. QED BY <1>1, <1>7, <3>2, <3>3, <3>4, <3>5, NewReqOf DEF InsertReview
  <2>. QED BY <1>7, <2>1, <2>2 DEF InsertReview
<1>8. ASSUME NEW r \in Reqs, ScoreReview(r) PROVE ReqKept
  <2>. DEFINE rec == [req[r] EXCEPT !.pc = "close"]
  <2>1. Finalizing(r) BY <1>8 DEF ScoreReview, ReqAt, Finalizing
  <2>2. rec \in Req /\ rec.pc = "close" BY <2>1, ReqShape DEF Req
  <2>3. \A q \in Questions : Confirmed(q) BY <2>1 DEF Finalized
  <2>4. review'.made
    BY <1>1, <1>8 DEF ScoreReview, ReqAt, Finalized, ReviewKept
  <2>5. req' = [req EXCEPT ![r] = rec] BY <1>8 DEF ScoreReview, ReqDo
  <2>. HIDE DEF rec
  <2>. QED BY <1>1, <1>8, <2>2, <2>3, <2>4, <2>5, NewReqOf DEF ScoreReview
<1>9. ASSUME NEW r \in Reqs, CloseAttempt(r) PROVE ReqKept
  <2>1. review.made /\ \A q \in Questions : Confirmed(q)
    BY <1>9 DEF CloseAttempt, ReqAt, Finalized, Finalizing
  <2>. QED BY <1>1, <1>9, <2>1, NewReqOf DEF CloseAttempt, ReqDo, Idle
<1>10. CASE Restart
  <2>1. req' = [r \in Reqs |-> Idle] /\ UNCHANGED <<attempt, answer, review>>
    BY <1>10 DEF Restart
  <2>2. Finalized' BY <2>1 DEF Finalized, Finalizing, Idle
  <2>3. CompletedHasReview' BY <2>1 DEF CompletedHasReview, Confirmed
  <2>. QED BY <2>1, <2>2, <2>3 DEF ReqKept, TypeOK
<1>11. CASE UNCHANGED <<attempt, req>> BY <1>1, <1>11, ReqUnchanged
<1>12. ASSUME NEW w \in Workers, Begin(w) \/ TaskStep(w)
       PROVE  UNCHANGED <<attempt, req>>
  BY <1>12 DEF Begin, TaskStep, PollOne, ClaimAnswer, Transcribe, ReadReview,
               WriteReview, Settle, ClaimReview, Evaluate
<1>13. ASSUME NEW q \in Questions, OpenSession(q) \/ AnswerLeaseEnds(q)
       PROVE  UNCHANGED <<attempt, req>>
  BY <1>13 DEF OpenSession, AnswerLeaseEnds
<1>14. Poll \/ ReviewLeaseEnds \/ UNCHANGED vars => UNCHANGED <<attempt, req>>
  BY DEF Poll, ReviewLeaseEnds, vars
<1>. QED BY <1>2, <1>3, <1>4, <1>5, <1>6, <1>7, <1>8, <1>9, <1>10, <1>11, <1>12,
            <1>13, <1>14 DEF Next, ReqStep

-----------------------------------------------------------------------------
(* Theorems *)

LEMMA Start ==
  ASSUME SpeakingAssumption, Init PROVE SInv
<1>1. NewJob \in Lease /\ LeaseOK(NewJob) /\ NewJob.job = "not_queued"
  BY DEF NewJob, Lease, JobStatus, LeaseOK
<1>2. /\ answer \in [Questions -> Answer]
      /\ \A q \in Questions : answer[q].tr = NewJob
  BY <1>1 DEF Init, Answer
<1>3. review \in Review /\ review.ev = NewJob
  BY <1>1 DEF Init, Review, Scores
<1>4. TypeOK
  BY <1>1, <1>2, <1>3 DEF Init, TypeOK, SpeakingAssumption
<1>5. Given BY <1>1, <1>2 DEF Given
<1>6. Finalized /\ Claiming /\ CompletedHasReview
  BY DEF Init, Finalized, Finalizing, Claiming, CompletedHasReview, Idle
<1>. QED BY <1>4, <1>5, <1>6 DEF SInv

LEMMA Step ==
  ASSUME SpeakingAssumption, SInv, [Next]_vars PROVE SInv'
<1>1. AnswersKept /\ ReviewKept /\ WorkKept /\ ReqKept
  BY StepAnswers, StepReview, StepWork, StepReq DEF SInv
<1>2. TypeOK'
  BY <1>1 DEF TypeOK, AnswersKept, ReviewKept, WorkKept, ReqKept
<1>. QED BY <1>1, <1>2 DEF SInv, AnswersKept, WorkKept, ReqKept

THEOREM Invariance == Spec => []SInv
BY Start, Step, SpeakingAssumption, PTL DEF Spec

(* Every row, task and request keeps its type, and a row carries a lease   *)
(* token exactly while it is processed.                                    *)
THEOREM TypeCorrect == Spec => []TypeOK
<1>1. SInv => TypeOK BY DEF SInv
<1>. QED BY <1>1, Invariance, PTL

(* An attempt is completed only with its review and with every answer of   *)
(* its manifest stored, however many finalizing requests overlap, are cut  *)
(* off or are repeated.                                                    *)
THEOREM CompletedHasReviewCorrect == Spec => []CompletedHasReview
<1>1. SInv => CompletedHasReview BY DEF SInv
<1>. QED BY <1>1, Invariance, PTL

(* No late worker, retry or poll changes a transcript or an evaluation that*)
(* is there.                                                               *)
THEOREM SettledStaysCorrect == Spec => SettledStays
<1>1. ASSUME SInv, [Next]_vars
      PROVE  [/\ \A q \in Questions : Transcribed(q) => answer'[q] = answer[q]
              /\ review.ev.job = "completed" => review'.ev = review.ev]_vars
  BY <1>1, SpeakingAssumption, StepAnswers, StepReview
     DEF SInv, AnswersKept, ReviewKept
<1>. QED BY <1>1, Invariance, PTL DEF Spec, SettledStays

=============================================================================
