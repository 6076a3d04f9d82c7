----------------------------- MODULE ModuleExam -----------------------------
(***************************************************************************)
(* One attempt at a reading, listening or writing part (reading, listening *)
(* and writing/service.py, db/module_submit_bundle.py).  Answers are saved *)
(* one by one while the exam runs.  Submitting a reading or listening part *)
(* marks it and stores answers, status and score in one transaction, or in *)
(* single writes when the RPC cannot be had; submitting an essay makes a   *)
(* review, closes the attempt and leaves the AI estimate to a task in the  *)
(* server's memory.  Every round trip is a step, and requests overlap.     *)
(***************************************************************************)
EXTENDS Integers, FiniteSets

CONSTANTS
  NumQuestions, \* questions of a reading or listening part; an essay has one
  Reqs,         \* requests that overlap
  Workers,      \* evaluations that run at a time
  MaxSubmits,   \* bound: submissions of the attempt
  MaxFaults     \* bound: calls that fail, requests and tasks that die

ASSUME ModuleExamAssumption ==
  /\ NumQuestions \in Nat \ {0} /\ MaxSubmits \in Nat /\ MaxFaults \in Nat

VARIABLES
  kind,     \* the module: it never changes
  attempt,  \* test_attempts.status
  answer,   \* answer[q]: user_answer and is_correct of the answers row
  score,    \* module_scores: the right answers counted, or NoScore
  review,   \* the writing_reviews rows, oldest first: ai_scores.status
  tasks,    \* reviews whose evaluation waits for a worker
  work,     \* work[w]: the review w evaluates, 0 if none
  req,      \* req[r]: what request r has to do next
  submits,  \* submissions so far
  faults,   \* faults so far
  torn      \* history: single writes met another submission, or were cut off

exam == <<attempt, answer, score, review>>
vars == <<kind, exam, tasks, work, req, submits, faults, torn>>

-----------------------------------------------------------------------------
(* Types *)

Questions == 1..NumQuestions
Asked     == IF kind = "writing" THEN {1} ELSE Questions
NoScore   == -1

Texts  == {"blank", "good", "poor"}
Answer == [text : Texts, mark : {"none", "right", "wrong"}]
Terminal == {"ai_complete", "ai_failed"}

(* A submission carries the answers to be stored and the review it made;   *)
(* `stale' once other answers were stored after it was sent.               *)
ScoreSteps    == {"fill", "persist", "read", "answers", "mark", "score"}
EssaySteps    == {"essay", "review", "close"}
Submission    == [pc : ScoreSteps \cup EssaySteps,
                  given : [Questions -> Texts], stale : BOOLEAN,
                  made : 0..MaxSubmits]
Save          == [pc : {"save"}, q : Questions, text : Texts]
Idle          == [pc |-> "idle"]
Req           == Submission \cup Save \cup [pc : {"abandon"}] \cup {Idle}

TypeOK ==
  /\ kind \in {"reading", "listening", "writing"}
  /\ attempt \in {"in_progress", "completed", "abandoned"}
  /\ answer \in [Questions -> Answer]
  /\ score \in {NoScore} \cup 0..NumQuestions
  /\ DOMAIN review = 1..Cardinality(DOMAIN review)
  /\ \A k \in DOMAIN review : review[k] \in Terminal \cup {"pending"}
  /\ tasks \subseteq DOMAIN review
  /\ work \in [Workers -> {0} \cup DOMAIN review]
  /\ req \in [Reqs -> Req]
  /\ submits \in 0..MaxSubmits /\ faults \in 0..MaxFaults /\ torn \in BOOLEAN

Init ==
  /\ kind \in {"reading", "listening", "writing"}
  /\ attempt = "in_progress"
  /\ answer = [q \in Questions |-> [text |-> "blank", mark |-> "none"]]
  /\ score = NoScore
  /\ review = << >>
  /\ tasks = {} /\ work = [w \in Workers |-> 0]
  /\ req = [r \in Reqs |-> Idle]
  /\ submits = 0 /\ faults = 0 /\ torn = FALSE

-----------------------------------------------------------------------------
(* Requests *)

At(r, pc)   == req[r].pc = pc
Do(r, what) == req' = [req EXCEPT ![r] = what]
Goto(r, pc) == req' = [req EXCEPT ![r].pc = pc]
Done(r)     == Do(r, Idle)

(* The single writes of a submission that are under way.                   *)
Writing(r)    == req[r].pc \in {"answers", "mark", "score"}
Submitting(r) == req[r].pc \in ScoreSteps

(* r goes on as `then', the other submissions become stale.                *)
Overtake(r, then) ==
  req' = [s \in Reqs |-> IF s = r THEN then
                         ELSE IF Submitting(s)
                              THEN [req[s] EXCEPT !.stale = TRUE]
                              ELSE req[s]]

(* autosave_answer reads the status ...                                    *)
AskSave(r) ==
  /\ At(r, "idle") /\ attempt = "in_progress"
  /\ \E q \in Asked, t \in Texts :
       Do(r, [pc |-> "save", q |-> q, text |-> t])
  /\ UNCHANGED <<kind, exam, tasks, work, submits, faults, torn>>

Stored_ClearsMark(q, t) ==
  [answer EXCEPT ![q] = [text |-> t, mark |-> "none"]]

(* ... and writes the text alone, whatever the status is by then.          *)
Stored(q, t) == [answer EXCEPT ![q].text = t]

SaveAnswer(r) ==
  /\ At(r, "save")
  /\ answer' = Stored(req[r].q, req[r].text)
  /\ Overtake(r, Idle)
  /\ UNCHANGED <<kind, attempt, score, review, tasks, work, submits, faults,
                 torn>>

(* submit_attempt: the attempt must be in progress.  An essay may be blank *)
(* only when the time is up, and then a placeholder stands for it.         *)
AskSubmit(r) ==
  /\ At(r, "idle") /\ attempt = "in_progress"
  /\ submits < MaxSubmits /\ submits' = submits + 1
  /\ \E given \in [Questions -> Texts] :
       /\ \A q \in Questions \ Asked : given[q] = "blank"
       /\ kind = "writing" => given[1] # "blank"
       /\ Do(r, [pc |-> CASE kind = "reading"   -> "fill"
                          [] kind = "listening" -> "persist"
                          [] kind = "writing"   -> "essay",
                 given |-> given, stale |-> FALSE, made |-> 0])
  /\ torn' = (torn \/ \E s \in Reqs : Writing(s))
  /\ UNCHANGED <<kind, exam, tasks, work, faults>>

FillBlanks_Skipped(r) ==
  /\ At(r, "fill") /\ Goto(r, "persist")
  /\ UNCHANGED <<kind, exam, tasks, work, submits, faults, torn>>

(* Reading keeps what was saved before where the submission has a blank.   *)
FillBlanks(r) ==
  /\ At(r, "fill")
  /\ Do(r, [req[r] EXCEPT
              !.pc = "persist",
              !.given = [q \in Questions |-> IF @[q] = "blank"
                                             THEN answer[q].text ELSE @[q]]])
  /\ UNCHANGED <<kind, exam, tasks, work, submits, faults, torn>>

(* score_answers: a blank is wrong.                                        *)
Marked(given) ==
  [q \in Questions |-> [text |-> given[q],
                        mark |-> IF given[q] = "good" THEN "right"
                                 ELSE "wrong"]]
Count(given) == Cardinality({q \in Questions : given[q] = "good"})

Committed(r, then) ==
  /\ attempt' = "completed"
  /\ answer' = Marked(req[r].given)
  /\ score' = Count(req[r].given)
  /\ Overtake(r, then)

Transaction_AnyStatus(r, then) == Committed(r, then)

(* persist_module_submit_bundle locks the attempt and looks once more.     *)
Transaction(r, then) ==
  IF attempt = "in_progress"
  THEN Committed(r, then)
  ELSE Do(r, then) /\ UNCHANGED <<attempt, answer, score>>

Persist(r) ==
  /\ At(r, "persist")
  /\ Transaction(r, Idle)
  /\ UNCHANGED <<kind, review, tasks, work, submits, faults, torn>>

(* A call that fails before or after its commit is tried again, and then   *)
(* the single writes take its place.                                       *)
PersistUnanswered(r) ==
  /\ At(r, "persist")
  /\ faults < MaxFaults /\ faults' = faults + 1
  /\ \E next \in {"persist", "read"} :
       \/ Transaction(r, [req[r] EXCEPT !.pc = next])
       \/ Goto(r, next) /\ UNCHANGED <<attempt, answer, score>>
  /\ UNCHANGED <<kind, review, tasks, work, submits, torn>>

(* _persist_module_submit_sequential                                       *)
ReadStatus(r) ==
  /\ At(r, "read")
  /\ IF attempt = "in_progress"
     THEN /\ Goto(r, "answers")
          /\ torn' = (torn \/ \E s \in Reqs \ {r} : Submitting(s))
     ELSE Done(r) /\ UNCHANGED torn
  /\ UNCHANGED <<kind, exam, tasks, work, submits, faults>>

StoreAnswers(r) ==
  /\ At(r, "answers")
  /\ answer' = Marked(req[r].given)
  /\ Overtake(r, [req[r] EXCEPT !.pc = "mark"])
  /\ UNCHANGED <<kind, attempt, score, review, tasks, work, submits, faults,
                 torn>>

MarkCompleted(r) ==
  /\ At(r, "mark")
  /\ attempt' = "completed"
  /\ Goto(r, "score")
  /\ UNCHANGED <<kind, answer, score, review, tasks, work, submits, faults,
                 torn>>

StoreScore(r) ==
  /\ At(r, "score")
  /\ score' = Count(req[r].given)
  /\ Done(r)
  /\ UNCHANGED <<kind, attempt, answer, review, tasks, work, submits, faults,
                 torn>>

(* submit_attempt of writing: the essay, its review, the status.           *)
StoreEssay(r) ==
  /\ At(r, "essay")
  /\ answer' = Stored(1, req[r].given[1])
  /\ Goto(r, "review")
  /\ UNCHANGED <<kind, attempt, score, review, tasks, work, submits, faults,
                 torn>>

Newest == Cardinality(DOMAIN review)

Reviews_NoStatus(k) == IF k <= Newest THEN review[k] ELSE "none"

(* Row k after one more has been inserted.                                 *)
Reviews(k) == IF k <= Newest THEN review[k] ELSE "pending"

(* A second submission under way adds a second review: no index forbids it.*)
InsertReview(r) ==
  /\ At(r, "review")
  /\ review' = [k \in 1..(Newest + 1) |-> Reviews(k)]
  /\ Do(r, [req[r] EXCEPT !.pc = "close", !.made = Newest + 1])
  /\ UNCHANGED <<kind, attempt, answer, score, tasks, work, submits, faults,
                 torn>>

(* The task is in the response of this request, for the review it has made.*)
CloseAttempt(r) ==
  /\ At(r, "close")
  /\ attempt' = "completed"
  /\ tasks' = tasks \cup {req[r].made}
  /\ Done(r)
  /\ UNCHANGED <<kind, answer, score, review, work, submits, faults, torn>>

(* A start that does not resume, and the cleanup of stale rows, read the   *)
(* attempt in progress and abandon it by id.                               *)
AskAbandon(r) ==
  /\ At(r, "idle") /\ attempt = "in_progress"
  /\ Do(r, [pc |-> "abandon"])
  /\ UNCHANGED <<kind, exam, tasks, work, submits, faults, torn>>

Abandon(r) ==
  /\ At(r, "abandon")
  /\ attempt' = "abandoned" /\ Done(r)
  /\ UNCHANGED <<kind, answer, score, review, tasks, work, submits, faults,
                 torn>>

-----------------------------------------------------------------------------
(* Evaluating an essay *)

Begin(w) ==
  /\ work[w] = 0
  /\ \E k \in tasks :
       /\ tasks' = tasks \ {k}
       /\ work' = [work EXCEPT ![w] = IF review[k] \in Terminal THEN 0 ELSE k]
  /\ UNCHANGED <<kind, exam, req, submits, faults, torn>>

(* _evaluate_review_async writes its result over what the row says by then:*)
(* an estimate, or that there is none (too short, no provider).            *)
Evaluate(w) ==
  /\ work[w] # 0
  /\ \E status \in Terminal : review' = [review EXCEPT ![work[w]] = status]
  /\ work' = [work EXCEPT ![w] = 0]
  /\ UNCHANGED <<kind, attempt, answer, score, tasks, req, submits, faults,
                 torn>>

(* Its last write raises: the error is logged, the review stays as it was. *)
EvaluationFails(w) ==
  /\ work[w] # 0
  /\ faults < MaxFaults /\ faults' = faults + 1
  /\ work' = [work EXCEPT ![w] = 0]
  /\ UNCHANGED <<kind, exam, tasks, req, submits, torn>>

OpenReview_NoSafetyNet == FALSE /\ UNCHANGED vars

(* get_review of an attempt whose newest review is pending for 120 s starts*)
(* its evaluation again, also beside one that is only slow.                *)
OpenReview ==
  /\ attempt = "completed" /\ Newest # 0
  /\ review[Newest] = "pending"
  /\ tasks' = tasks \cup {Newest}
  /\ UNCHANGED <<kind, exam, work, req, submits, faults, torn>>

-----------------------------------------------------------------------------
(* Faults *)

(* A request raises or its process dies.                                   *)
Fails(r) ==
  /\ ~At(r, "idle")
  /\ faults < MaxFaults /\ faults' = faults + 1
  /\ torn' = (torn \/ Writing(r))
  /\ Done(r)
  /\ UNCHANGED <<kind, exam, tasks, work, submits>>

(* A restart of the server loses the evaluations, waiting or running.      *)
LoseTasks ==
  /\ faults < MaxFaults /\ faults' = faults + 1
  /\ tasks' = {} /\ work' = [w \in Workers |-> 0]
  /\ UNCHANGED <<kind, exam, req, submits, torn>>

ReqStep(r) ==
  \/ SaveAnswer(r) \/ FillBlanks(r) \/ Persist(r) \/ PersistUnanswered(r)
  \/ ReadStatus(r) \/ StoreAnswers(r) \/ MarkCompleted(r) \/ StoreScore(r)
  \/ StoreEssay(r) \/ InsertReview(r) \/ CloseAttempt(r) \/ Abandon(r)

Next ==
  \/ \E r \in Reqs : \/ AskSave(r) \/ AskSubmit(r) \/ AskAbandon(r)
                     \/ ReqStep(r) \/ Fails(r)
  \/ \E w \in Workers : Begin(w) \/ Evaluate(w) \/ EvaluationFails(w)
  \/ OpenReview \/ LoseTasks

Spec == Init /\ [][Next]_vars

(* Evaluations that were started go on, and the student opens the review.  *)
FairSpec ==
  /\ Spec /\ WF_vars(OpenReview)
  /\ \A w \in Workers : WF_vars(Begin(w)) /\ WF_vars(Evaluate(w))

-----------------------------------------------------------------------------
(* Properties *)

(* The single writes of the fallback have been made, or none was begun.    *)
Settled == ~torn /\ \A r \in Reqs : ~Writing(r)

(* The score of a finished part counts its right answers, though answers   *)
(* were saved late and several submissions with other answers ran at once. *)
(* The fallback keeps this only when it is alone and not cut off           *)
(* (db/module_submit_bundle.py).                                           *)
ScoreIsTheCount ==
  kind # "writing" /\ attempt = "completed" /\ Settled =>
    score = Cardinality({q \in Questions : answer[q].mark = "right"})

(* What was submitted stays: a second submission, a retry of a lost call   *)
(* or a late save never changes the marks or the score, and only a start-  *)
(* over that had found the attempt in progress takes the status back.      *)
SubmittedStays ==
  [][kind # "writing" /\ attempt = "completed" /\ Settled =>
       /\ score' = score
       /\ \A q \in Questions : answer'[q].mark = answer[q].mark
       /\ attempt' # "in_progress"]_vars

(* A reading submission loses no saved answer to a blank of its payload,   *)
(* unless the answer was stored after it was sent (reading/service.py,     *)
(* "Preserve prior non-empty autosaved answers").                          *)
SavedIsKept ==
  [][\A r \in Reqs :
       /\ kind = "reading" /\ req[r].pc \in {"persist", "answers"}
       /\ ~req[r].stale /\ req'[r].pc # req[r].pc
       => \A q \in Questions :
            answer[q].text # "blank" => answer'[q].text # "blank"]_vars

(* A submitted essay gets an estimate or the word that there is none, even *)
(* if the server lost the task: opening the review starts it again.        *)
EventuallyAssessed ==
  kind = "writing" /\ attempt = "completed" ~>
    \/ review # << >> /\ review[Cardinality(DOMAIN review)] \in Terminal
    \/ attempt = "abandoned"
=============================================================================
