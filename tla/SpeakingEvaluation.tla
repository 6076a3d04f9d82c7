------------------------- MODULE SpeakingEvaluation -------------------------
(***************************************************************************)
(* A full speaking attempt from its uploads to the AI estimate             *)
(* (speaking/service.py, response_transcriber.py, speaking_evaluator.py).  *)
(* Every answer is confirmed and queued for transcription, finalize makes  *)
(* the review and closes the attempt, and background tasks transcribe and  *)
(* evaluate under leases kept in the rows.  The tasks live in the server's *)
(* memory: a restart loses them, and the student's poll of the pending     *)
(* page starts new ones.                                                   *)
(***************************************************************************)
EXTENDS Naturals

CONSTANTS
  NumQuestions, \* length of the frozen manifest of the attempt
  Workers,     \* background tasks that run at a time
  Reqs,        \* requests of the student that overlap
  MaxAsr,      \* TRANSCRIPTION_MAX_ATTEMPTS
  MaxLlm,      \* EVALUATION_MAX_ATTEMPTS
  MaxFaults,   \* bound: restarts, and leases that end under their holder
  Nobody

ASSUME SpeakingAssumption ==
  /\ NumQuestions \in Nat \ {0} /\ MaxFaults \in Nat
  /\ MaxAsr \in Nat \ {0} /\ MaxLlm \in Nat \ {0}
  /\ Nobody \notin Workers

VARIABLES
  attempt,  \* test_attempts.status
  answer,   \* answer[q]: the speaking_responses row
  review,   \* the speaking_reviews row
  tasks,    \* background tasks that wait for a worker
  work,     \* work[w]: the task w performs
  req,      \* req[r]: the request r performs
  faults    \* faults so far

vars == <<attempt, answer, review, tasks, work, req, faults>>

Questions == 1..NumQuestions

-----------------------------------------------------------------------------
(* Types *)

JobStatus == {"not_queued", "queued", "processing", "retry_wait", "completed",
              "failed"}
Lease     == [job : JobStatus, tries : Nat,
              holder : Workers \cup {Nobody}, expired : BOOLEAN]
NewJob    == [job |-> "not_queued", tries |-> 0, holder |-> Nobody,
              expired |-> FALSE]

(* What ai_scores holds: nothing to show yet, a complete evaluation (also  *)
(* "insufficient speech") or an error.                                     *)
Scores == {"pending", "ai", "failed"}
Answer == [upload : {"none", "pending_upload", "confirmed"}, tr : Lease]
Review == [made : BOOLEAN, ev : Lease, scores : Scores]

Tasks == [kind : {"transcribe"}, q : Questions]
           \cup [kind : {"evaluate", "reconcile"}]

(* `todo' are the answers a reconciling task still has to look at, `all',  *)
(* `job' and `scores' what a task has read: whether all was transcribed,   *)
(* and the review.                                                         *)
Work == [pc : {"poll", "claim", "asr", "read", "write", "settle", "evaluate",
               "llm"},
         q : Questions \cup {0}, todo : SUBSET Questions, polling : BOOLEAN,
         all : BOOLEAN, job : JobStatus, scores : Scores]
Idle == [pc |-> "idle"]
Req  == [pc : {"upload", "confirm", "queue"}, q : Questions]
          \cup [pc : {"insert", "score", "close"}, all : BOOLEAN]
          \cup [pc : {"abandon"}]

(* A row carries a lease token exactly while it is processed.              *)
LeaseOK(l) == l.job = "processing" <=> l.holder /= Nobody

TypeOK ==
  /\ attempt \in {"in_progress", "completed", "abandoned"}
  /\ answer \in [Questions -> Answer]
  /\ \A q \in Questions : LeaseOK(answer[q].tr)
  /\ review \in Review /\ LeaseOK(review.ev)
  /\ tasks \subseteq Tasks
  /\ work \in [Workers -> Work \cup {Idle}]
  /\ req \in [Reqs -> Req \cup {Idle}]
  /\ faults \in 0..MaxFaults

Init ==
  /\ attempt = "in_progress"
  /\ answer = [q \in Questions |-> [upload |-> "none", tr |-> NewJob]]
  /\ review = [made |-> FALSE, ev |-> NewJob, scores |-> "pending"]
  /\ tasks = {}
  /\ work = [w \in Workers |-> Idle]
  /\ req = [r \in Reqs |-> Idle]
  /\ faults = 0

Confirmed(q)   == answer[q].upload = "confirmed"
Transcribed(q) == answer[q].tr.job = "completed"

(* _reconcile_attempt_evaluation: every confirmed answer is transcribed.   *)
AllTranscribed ==
  /\ \E q \in Questions : Confirmed(q)
  /\ \A q \in Questions : Confirmed(q) => Transcribed(q)

-----------------------------------------------------------------------------
(* Leases: the claim RPCs and the updates guarded by the lease token *)

Claimable(l) == \/ l.job \in {"queued", "retry_wait"}
                \/ l.job = "processing" /\ l.expired

Claimed(l, w) == [job |-> "processing", tries |-> l.tries + 1, holder |-> w,
                  expired |-> FALSE]

Holds_AnyToken(l, w) == TRUE

Holds(l, w) == l.job = "processing" /\ l.holder = w

Completed(l) == [l EXCEPT !.job = "completed", !.holder = Nobody,
                          !.expired = FALSE]

(* A retryable error waits for the next try unless it was the last one; any*)
(* other error ends the job.                                               *)
Failed(l, retryable, max) ==
  [l EXCEPT !.job = IF retryable /\ l.tries < max THEN "retry_wait"
                    ELSE "failed",
            !.holder = Nobody, !.expired = FALSE]

-----------------------------------------------------------------------------
(* Requests of the student *)

ReqAt(r, pc) == req[r].pc = pc
ReqDo(r, rec) == req' = [req EXCEPT ![r] = rec]

(* create_response_session and the upload to object storage; a session that*)
(* exists is answered again.                                               *)
OpenSession(q) ==
  /\ attempt = "in_progress" /\ answer[q].upload = "none"
  /\ answer' = [answer EXCEPT ![q].upload = "pending_upload"]
  /\ UNCHANGED <<attempt, review, tasks, work, req, faults>>

(* confirm_response, and upload_response for an answer sent through the    *)
(* API, read the attempt and the row; the latter does not mind an attempt  *)
(* that is closed when the row exists, and makes the row itself if not.    *)
AskConfirm(r) ==
  /\ ReqAt(r, "idle")
  /\ \E q \in Questions :
       \/ /\ answer[q].upload = "none" /\ attempt = "in_progress"
          /\ ReqDo(r, [pc |-> "upload", q |-> q])
       \/ /\ answer[q].upload = "pending_upload"
          /\ ReqDo(r, [pc |-> "confirm", q |-> q])
       \/ Confirmed(q) /\ ReqDo(r, [pc |-> "queue", q |-> q])
  /\ UNCHANGED <<attempt, answer, review, tasks, work, faults>>

(* One row per question: an insert that comes second only answers.         *)
Upload(r) ==
  LET q == req[r].q
  IN  /\ ReqAt(r, "upload")
      /\ IF answer[q].upload = "none"
         THEN /\ answer' = [answer EXCEPT ![q].upload = "confirmed"]
              /\ ReqDo(r, [req[r] EXCEPT !.pc = "queue"])
         ELSE ReqDo(r, Idle) /\ UNCHANGED answer
      /\ UNCHANGED <<attempt, review, tasks, work, faults>>

(* Only a row that waits for its upload is confirmed; it is queued anyway. *)
Confirm(r) ==
  /\ ReqAt(r, "confirm")
  /\ answer' = [answer EXCEPT ![req[r].q].upload = "confirmed"]
  /\ ReqDo(r, [req[r] EXCEPT !.pc = "queue"])
  /\ UNCHANGED <<attempt, review, tasks, work, faults>>

(* queue_speaking_response_transcription *)
Queued(q) == [answer EXCEPT ![q].tr.job = "queued"]

Queue(r) ==
  LET q == req[r].q
  IN  /\ ReqAt(r, "queue")
      /\ IF answer[q].tr.job = "not_queued"
         THEN /\ answer' = Queued(q)
              /\ tasks' = tasks \cup {[kind |-> "transcribe", q |-> q]}
         ELSE UNCHANGED <<answer, tasks>>
      /\ ReqDo(r, Idle)
      /\ UNCHANGED <<attempt, review, work, faults>>

AskFinalize_AnyAnswers(r) ==
  /\ ReqAt(r, "idle") /\ attempt = "in_progress"
  /\ \E q \in Questions : Confirmed(q)
  /\ ReqDo(r, [pc |-> IF review.made THEN "score" ELSE "insert",
               all |-> \A q \in Questions : Transcribed(q)])
  /\ UNCHANGED <<attempt, answer, review, tasks, work, faults>>

(* finalize_attempt reads the review and the answers, which must all be    *)
(* confirmed; an attempt that is completed is answered from its review.    *)
AskFinalize(r) ==
  /\ ReqAt(r, "idle") /\ attempt = "in_progress"
  /\ \A q \in Questions : Confirmed(q)
  /\ ReqDo(r, [pc |-> IF review.made THEN "score" ELSE "insert",
               all |-> \A q \in Questions : Transcribed(q)])
  /\ UNCHANGED <<attempt, answer, review, tasks, work, faults>>

(* One review per attempt: a second insert breaks the unique index, and the*)
(* request fails.                                                          *)
InsertReview(r) ==
  /\ ReqAt(r, "insert")
  /\ IF review.made THEN ReqDo(r, Idle) /\ UNCHANGED review
     ELSE /\ review' = [review EXCEPT !.made = TRUE]
          /\ ReqDo(r, [req[r] EXCEPT !.pc = "score"])
  /\ UNCHANGED <<attempt, answer, tasks, work, faults>>

(* The scores as read, with the status set back to pending.                *)
ScoreReview(r) ==
  /\ ReqAt(r, "score")
  /\ review' = [review EXCEPT !.scores = "pending"]
  /\ ReqDo(r, [req[r] EXCEPT !.pc = "close"])
  /\ UNCHANGED <<attempt, answer, tasks, work, faults>>

(* mark_attempt_completed; the evaluation is left to a task, and only when *)
(* every answer had been transcribed when finalize read them.              *)
CloseAttempt(r) ==
  /\ ReqAt(r, "close")
  /\ attempt' = "completed"
  /\ tasks' = IF req[r].all THEN tasks \cup {[kind |-> "evaluate"]} ELSE tasks
  /\ ReqDo(r, Idle)
  /\ UNCHANGED <<answer, review, work, faults>>

(* start_attempt with force_new reads the attempt as in progress and then  *)
(* abandons it whatever it is by then.                                     *)
AskAbandon(r) ==
  /\ ReqAt(r, "idle") /\ attempt = "in_progress"
  /\ ReqDo(r, [pc |-> "abandon"])
  /\ UNCHANGED <<attempt, answer, review, tasks, work, faults>>

Abandon(r) ==
  /\ ReqAt(r, "abandon")
  /\ attempt' = "abandoned" /\ ReqDo(r, Idle)
  /\ UNCHANGED <<answer, review, tasks, work, faults>>

(* get_pending_status: 404 without a review.                               *)
Poll ==
  /\ review.made
  /\ tasks' = tasks \cup {[kind |-> "reconcile"]}
  /\ UNCHANGED <<attempt, answer, review, work, req, faults>>

-----------------------------------------------------------------------------
(* Background tasks *)

At(w, pc)    == work[w].pc = pc
Do(w, rec)   == work' = [work EXCEPT ![w] = rec]
Goto(w, pc)  == work' = [work EXCEPT ![w].pc = pc]
NewWork      == [pc |-> "poll", q |-> 0, todo |-> {}, polling |-> FALSE,
                 all |-> FALSE, job |-> "not_queued", scores |-> "pending"]

(* A task that transcribes one answer, one that reconciles them all, or one*)
(* that evaluates.                                                         *)
Begin(w) ==
  /\ At(w, "idle")
  /\ \E t \in tasks :
       /\ tasks' = tasks \ {t}
       /\ Do(w, CASE t.kind = "transcribe" -> [NewWork EXCEPT !.pc = "claim",
                                                              !.q = t.q]
                  [] t.kind = "evaluate"   -> [NewWork EXCEPT !.pc = "evaluate"]
                  [] t.kind = "reconcile"  ->
                       [NewWork EXCEPT !.polling = TRUE,
                          !.todo = {q \in Questions : /\ Confirmed(q)
                                                      /\ ~Transcribed(q)}])
  /\ UNCHANGED <<attempt, answer, review, req, faults>>

PollOne_QueuesNone(w) ==
  /\ At(w, "poll")
  /\ IF work[w].todo = {}
     THEN Goto(w, "settle")
     ELSE \E q \in work[w].todo :
            /\ \A other \in work[w].todo : q <= other
            /\ Do(w, [work[w] EXCEPT !.pc = "claim", !.q = q, !.todo = @ \ {q}])
  /\ UNCHANGED <<attempt, answer, review, tasks, req, faults>>

(* reconcile_attempt_transcriptions: answer by answer, queued first if that*)
(* was never done; then the evaluation.                                    *)
PollOne(w) ==
  /\ At(w, "poll")
  /\ IF work[w].todo = {}
     THEN Goto(w, "settle") /\ UNCHANGED answer
     ELSE \E q \in work[w].todo :
            /\ \A other \in work[w].todo : q <= other
            /\ answer' = IF answer[q].tr.job = "not_queued" THEN Queued(q)
                         ELSE answer
            /\ Do(w, [work[w] EXCEPT !.pc = "claim", !.q = q, !.todo = @ \ {q}])
  /\ UNCHANGED <<attempt, review, tasks, req, faults>>

Back(w) == Do(w, IF work[w].polling
                 THEN [NewWork EXCEPT !.polling = TRUE, !.todo = work[w].todo]
                 ELSE Idle)

(* claim_speaking_response_transcription.  A retry is taken to be due.     *)
ClaimAnswer(w) ==
  LET q == work[w].q
  IN  /\ At(w, "claim")
      /\ IF Confirmed(q) /\ Claimable(answer[q].tr)
         THEN /\ answer' = [answer EXCEPT ![q].tr = Claimed(@, w)]
              /\ Goto(w, "asr")
         ELSE Back(w) /\ UNCHANGED answer
      /\ UNCHANGED <<attempt, review, tasks, req, faults>>

(* _transcribe_claimed: the transcript is stored, or the error, unless the *)
(* lease has passed to another worker.                                     *)
Transcribe(w) ==
  LET q == work[w].q
  IN  /\ At(w, "asr")
      /\ \/ /\ Holds(answer[q].tr, w)
            /\ answer' = [answer EXCEPT ![q].tr = Completed(@)]
            /\ Goto(w, "read")
         \/ /\ Holds(answer[q].tr, w)
            /\ \E retryable \in BOOLEAN :
                 answer' = [answer EXCEPT ![q].tr = Failed(@, retryable, MaxAsr)]
            /\ Back(w)
         \/ ~Holds(answer[q].tr, w) /\ Back(w) /\ UNCHANGED answer
      /\ UNCHANGED <<attempt, review, tasks, req, faults>>

(* refresh_attempt_fluency_snapshot reads the answers and the review ...   *)
ReadReview(w) ==
  /\ At(w, "read")
  /\ IF review.made
     THEN Do(w, [work[w] EXCEPT !.pc = "write", !.all = AllTranscribed,
                                !.job = review.ev.job,
                                !.scores = review.scores])
     ELSE Back(w)
  /\ UNCHANGED <<attempt, answer, review, tasks, req, faults>>

(* ... and writes back the scores it has read, with new metrics; without a *)
(* completed evaluation nothing may look like one.                         *)
Refreshed(seen) == IF seen.job /= "completed" /\ seen.scores = "ai"
                   THEN "pending" ELSE seen.scores

WriteReview(w) ==
  /\ At(w, "write")
  /\ review' = [review EXCEPT !.scores = Refreshed(work[w])]
  /\ IF work[w].all /\ work[w].job /= "failed"
     THEN Do(w, [NewWork EXCEPT !.pc = "evaluate", !.todo = work[w].todo,
                                !.polling = work[w].polling])
     ELSE Back(w)
  /\ UNCHANGED <<attempt, answer, tasks, req, faults>>

(* reconcile_attempt_evaluation after the answers of a poll.               *)
Settle(w) ==
  /\ At(w, "settle")
  /\ Do(w, IF AllTranscribed /\ review.made /\ review.ev.job /= "failed"
           THEN [NewWork EXCEPT !.pc = "evaluate"]
           ELSE Idle)
  /\ UNCHANGED <<attempt, answer, review, tasks, req, faults>>

(* claim_speaking_attempt_evaluation: also a review that was never queued. *)
(* A completed one is claimed again only for other inputs, and transcripts *)
(* do not change.                                                          *)
Evaluable(l) == l.job = "not_queued" \/ Claimable(l)

ClaimReview(w) ==
  /\ At(w, "evaluate")
  /\ IF (\A q \in Questions : Transcribed(q)) /\ Evaluable(review.ev)
     THEN review' = [review EXCEPT !.ev = Claimed(@, w)] /\ Goto(w, "llm")
     ELSE Back(w) /\ UNCHANGED review
  /\ UNCHANGED <<attempt, answer, tasks, req, faults>>

(* _evaluate_full_attempt: the answer of a provider, the stub, too little  *)
(* speech, or an error; stored unless the lease has passed on.             *)
Evaluate(w) ==
  /\ At(w, "llm")
  /\ \/ /\ Holds(review.ev, w)
        /\ review' = [review EXCEPT !.ev = Completed(@), !.scores = "ai"]
     \/ /\ Holds(review.ev, w)
        /\ \E retryable \in BOOLEAN :
             review' = [review EXCEPT !.ev = Failed(@, retryable, MaxLlm),
                                      !.scores = "failed"]
     \/ ~Holds(review.ev, w) /\ UNCHANGED review
  /\ Back(w)
  /\ UNCHANGED <<attempt, answer, tasks, req, faults>>

-----------------------------------------------------------------------------
(* Time and faults *)

(* A lease ends: that of a worker that is gone, or of one that still works.*)
Ends(l, working) ==
  /\ l.job = "processing" /\ ~l.expired
  /\ IF working
     THEN faults < MaxFaults /\ faults' = faults + 1
     ELSE UNCHANGED faults

AnswerLeaseEnds(q) ==
  /\ Ends(answer[q].tr, \E w \in Workers : /\ At(w, "asr") /\ work[w].q = q
                                         /\ answer[q].tr.holder = w)
  /\ answer' = [answer EXCEPT ![q].tr.expired = TRUE]
  /\ UNCHANGED <<attempt, review, tasks, work, req>>

ReviewLeaseEnds ==
  /\ Ends(review.ev, \E w \in Workers : At(w, "llm") /\ review.ev.holder = w)
  /\ review' = [review EXCEPT !.ev.expired = TRUE]
  /\ UNCHANGED <<attempt, answer, tasks, work, req>>

(* The server restarts: requests, running and waiting tasks are gone.      *)
Restart ==
  /\ faults < MaxFaults /\ faults' = faults + 1
  /\ tasks' = {} /\ work' = [w \in Workers |-> Idle]
  /\ req' = [r \in Reqs |-> Idle]
  /\ UNCHANGED <<attempt, answer, review>>

ReqStep(r) == \/ Upload(r) \/ Confirm(r) \/ Queue(r) \/ InsertReview(r) \/ ScoreReview(r)
              \/ CloseAttempt(r) \/ Abandon(r)

TaskStep(w) == \/ PollOne(w) \/ ClaimAnswer(w) \/ Transcribe(w)
               \/ ReadReview(w) \/ WriteReview(w) \/ Settle(w)
               \/ ClaimReview(w) \/ Evaluate(w)

Next ==
  \/ \E q \in Questions : OpenSession(q) \/ AnswerLeaseEnds(q)
  \/ \E r \in Reqs : AskConfirm(r) \/ AskFinalize(r) \/ AskAbandon(r) \/ ReqStep(r)
  \/ \E w \in Workers : Begin(w) \/ TaskStep(w)
  \/ Poll \/ ReviewLeaseEnds \/ Restart

Spec == Init /\ [][Next]_vars

(* Tasks run, leases end, and the student keeps the pending page open.     *)
FairSpec ==
  /\ Spec /\ WF_vars(Poll) /\ WF_vars(ReviewLeaseEnds)
  /\ \A q \in Questions : WF_vars(AnswerLeaseEnds(q))
  /\ \A w \in Workers : WF_vars(Begin(w)) /\ WF_vars(TaskStep(w))

-----------------------------------------------------------------------------
(* Properties *)

(* An attempt counts as completed only with a review and with every answer *)
(* of its manifest stored, also when finalize was cut off between its      *)
(* steps and repeated, or ran twice at once (service.py, finalize_attempt).*)
CompletedHasReview ==
  attempt = "completed" => review.made /\ \A q \in Questions : Confirmed(q)

(* What is completed stays as it is: no late error and no late result of a *)
(* worker whose lease has passed on reopens or counts a job again.         *)
SettledStays ==
  [][/\ \A q \in Questions : Transcribed(q) => answer'[q] = answer[q]
     /\ review.ev.job = "completed" => review'.ev = review.ev]_vars

(* Crashes and lost tasks do not leave an attempt without its estimate: as *)
(* long as the student polls, it is evaluated or ends in an error          *)
(* (get_pending_status, reconcile_attempt_transcriptions).                 *)
EventuallyEvaluated ==
  review.made ~> \/ review.ev.job \in {"completed", "failed"}
                 \/ \E q \in Questions : answer[q].tr.job = "failed"

=============================================================================
