---------------------------- MODULE HubExercise ----------------------------
(***************************************************************************)
(* The exercises of the writing and speaking practice hubs                 *)
(* (practice/service.py, writing_ai.py, speaking_ai.py): an exercise is    *)
(* started, submitted, and evaluated by a task that follows the response.  *)
(* A speaking exercise is spoken in a speaking attempt of its own, and all *)
(* hubs share the one slot a student has for such an attempt.  Every round *)
(* trip is a step and requests overlap.  The student has access to the     *)
(* hubs.                                                                   *)
(***************************************************************************)
EXTENDS Naturals

CONSTANTS
  Hubs,
  Skill,       \* Skill[h]: the skill of hub h
  NumAttempts, \* bound: exercises started
  Reqs,        \* requests that overlap
  MaxFaults,   \* bound: calls that fail and requests that die
  NoHub, Nobody

Attempts == 1..NumAttempts

ASSUME HubAssumption ==
  /\ NumAttempts \in Nat /\ MaxFaults \in Nat
  /\ Skill \in [Hubs -> {"writing", "speaking"}]
  /\ NoHub \notin Hubs /\ Nobody \notin Reqs

VARIABLES
  ex,      \* ex[a]: the practice_exercise_attempts row
  talk,    \* talk[a]: the speaking attempt made for exercise a
  review,  \* review[a]: what the speaking review of talk[a] shows
  req,     \* req[r]: what request r, or the task after it, is about to do
  twice,   \* history: exercises stored by two submissions
  lost,    \* history: stored exercises whose submission died before its end
  faults   \* faults so far

history == <<twice, lost>>
vars    == <<ex, talk, review, req, history, faults>>

-----------------------------------------------------------------------------
(* Types *)

Shown == {"none", "pending", "estimate", "error"}

(* `answers' of an exercise and `essay' of a score name the submission     *)
(* they came with; `linked' once the score names the speaking attempt.     *)
Score    == [shows : Shown, essay : Reqs \cup {Nobody}]
Exercise == [status : {"none", "in_progress", "completed", "abandoned"},
             hub : Hubs \cup {NoHub}, answers : Reqs \cup {Nobody},
             linked : BOOLEAN, score : Score]
Unscored == [shows |-> "none", essay |-> Nobody]
NoRow    == [status |-> "none", hub |-> NoHub, answers |-> Nobody,
             linked |-> FALSE, score |-> Unscored]

StartSteps  == {"readPrior", "abandonPrior", "abandonTalks", "insert",
                "findSlot", "freeSlot", "insertTalk", "link"}
SubmitSteps == {"readExercise", "reviewTalk", "score", "store",
                "readEssay", "storeEstimate"}

(* What was read is kept: attempts to abandon in `prior', a score in       *)
(* `score'; `again' is set once the speaking slot was lost to another.     *)
Req  == [pc : StartSteps \cup SubmitSteps \cup {"sync"}, hub : Hubs,
         att : Attempts, prior : SUBSET Attempts, score : Score, again : BOOLEAN]
Idle == [pc |-> "idle"]

TypeOK ==
  /\ ex \in [Attempts -> Exercise]
  /\ talk \in [Attempts -> {"none", "in_progress", "completed", "abandoned"}]
  /\ review \in [Attempts -> Shown]
  /\ req \in [Reqs -> Req \cup {Idle}]
  /\ twice \subseteq Attempts /\ lost \subseteq Attempts
  /\ faults \in 0..MaxFaults

Init ==
  /\ ex = [a \in Attempts |-> NoRow]
  /\ talk = [a \in Attempts |-> "none"]
  /\ review = [a \in Attempts |-> "none"]
  /\ req = [r \in Reqs |-> Idle]
  /\ twice = {} /\ lost = {}
  /\ faults = 0

-----------------------------------------------------------------------------
(* Requests *)

At(r, pc)   == req[r].pc = pc
Do(r, rec)  == req' = [req EXCEPT ![r] = rec]
Goto(r, pc) == req' = [req EXCEPT ![r].pc = pc]
End(r)      == Do(r, Idle)
Ask(r, pc, h, a, score) ==
  Do(r, [pc |-> pc, hub |-> h, att |-> a, prior |-> {}, score |-> score,
         again |-> FALSE])

Starting(r) == req[r].pc \in StartSteps
Busy(a)     == \E r \in Reqs : Starting(r) /\ req[r].att = a

(* The next exercise nobody has started.                                   *)
Fresh(a) == ex[a].status = "none" /\ ~Busy(a)

AskStart(r) ==
  /\ At(r, "idle")
  /\ \E a \in Attempts, h \in Hubs :
       /\ Fresh(a) /\ \A b \in 1..(a - 1) : ~Fresh(b)
       /\ Ask(r, "readPrior", h, a, Unscored)
  /\ UNCHANGED <<ex, talk, review, history, faults>>

(* The client knows an exercise from the answer to its start.              *)
Known(a) ==
  /\ ex[a].status # "none" /\ ~Busy(a)
  /\ Skill[ex[a].hub] = "speaking" => ex[a].linked

AskSubmit(r) ==
  /\ At(r, "idle")
  /\ \E a \in Attempts :
       Known(a) /\ Ask(r, "readExercise", ex[a].hub, a, Unscored)
  /\ UNCHANGED <<ex, talk, review, history, faults>>

-----------------------------------------------------------------------------
(* start_hub_exercise *)

Running(h) == {a \in Attempts : ex[a].status = "in_progress" /\ ex[a].hub = h}

ReadPrior(r) ==
  /\ At(r, "readPrior")
  /\ Do(r, [req[r] EXCEPT !.pc = "abandonPrior",
                          !.prior = {a \in Running(req[r].hub) : ex[a].linked}])
  /\ UNCHANGED <<ex, talk, review, history, faults>>

(* Mutant: whatever the status of the exercises of the hub is.             *)
Abandoned_AnyStatus(h) ==
  [a \in Attempts |-> IF ex[a].hub = h THEN [ex[a] EXCEPT !.status = "abandoned"]
                      ELSE ex[a]]

Abandoned(h) ==
  [a \in Attempts |-> IF a \in Running(h)
                      THEN [ex[a] EXCEPT !.status = "abandoned"] ELSE ex[a]]

(* The exercises of the hub that run by now, then the speaking attempts of *)
(* those that were read before.                                            *)
AbandonPrior(r) ==
  /\ At(r, "abandonPrior")
  /\ ex' = Abandoned(req[r].hub)
  /\ Goto(r, IF req[r].prior = {} THEN "insert" ELSE "abandonTalks")
  /\ UNCHANGED <<talk, review, history, faults>>

AbandonTalks(r) ==
  /\ At(r, "abandonTalks")
  /\ talk' = [a \in Attempts |->
                IF a \in req[r].prior /\ talk[a] = "in_progress" THEN "abandoned"
                ELSE talk[a]]
  /\ Do(r, [req[r] EXCEPT !.pc = "insert", !.prior = {}])
  /\ UNCHANGED <<ex, review, history, faults>>

InsertExercise(r) ==
  LET h == req[r].hub
  IN  /\ At(r, "insert")
      /\ ex' = [ex EXCEPT ![req[r].att] = [NoRow EXCEPT !.status = "in_progress",
                                                        !.hub = h]]
      /\ IF Skill[h] = "speaking" THEN Goto(r, "findSlot") ELSE End(r)
      /\ UNCHANGED <<talk, review, history, faults>>

-----------------------------------------------------------------------------
(* bootstrap_practice_speaking_attempt *)

InSlot == {a \in Attempts : talk[a] = "in_progress"}

(* "Abandon leftovers first"; after a lost race somebody has to be there.  *)
FindInSlot(r) ==
  /\ At(r, "findSlot")
  /\ CASE InSlot # {} -> Do(r, [req[r] EXCEPT !.pc = "freeSlot", !.prior = InSlot])
       [] InSlot = {} /\ ~req[r].again -> Goto(r, "insertTalk")
       [] InSlot = {} /\ req[r].again  -> End(r)
  /\ UNCHANGED <<ex, talk, review, history, faults>>

(* By its identifier, whatever has become of it.                           *)
FreeSlot(r) ==
  /\ At(r, "freeSlot")
  /\ talk' = [a \in Attempts |-> IF a \in req[r].prior THEN "abandoned" ELSE talk[a]]
  /\ Do(r, [req[r] EXCEPT !.pc = "insertTalk", !.prior = {}])
  /\ UNCHANGED <<ex, review, history, faults>>

(* A unique index keeps the slot; a start that loses it tries once more.   *)
InsertTalk(r) ==
  /\ At(r, "insertTalk")
  /\ IF InSlot = {}
       THEN talk' = [talk EXCEPT ![req[r].att] = "in_progress"] /\ Goto(r, "link")
       ELSE /\ IF req[r].again THEN End(r)
               ELSE Do(r, [req[r] EXCEPT !.pc = "findSlot", !.again = TRUE])
            /\ UNCHANGED talk
  /\ UNCHANGED <<ex, review, history, faults>>

LinkTalk(r) ==
  /\ At(r, "link")
  /\ ex' = [ex EXCEPT ![req[r].att].linked = TRUE,
                      ![req[r].att].score.shows = "pending"]
  /\ End(r)
  /\ UNCHANGED <<talk, review, history, faults>>

-----------------------------------------------------------------------------
(* The speaking attempt and its review: SpeakingEvaluation in one step each *)

(* finalize_attempt: 409 unless the attempt runs and all was recorded.     *)
Finalized(a) ==
  /\ talk[a] = "in_progress"
  /\ talk' = [talk EXCEPT ![a] = "completed"]
  /\ review' = [review EXCEPT ![a] = "pending"]

(* The client finalizes before it submits.                                 *)
Finalize(a) ==
  /\ Known(a) /\ Finalized(a)
  /\ UNCHANGED <<ex, req, history, faults>>

TalkEvaluated(a) ==
  /\ review[a] = "pending"
  /\ \E shown \in {"estimate", "error"} : review' = [review EXCEPT ![a] = shown]
  /\ UNCHANGED <<ex, talk, req, history, faults>>

-----------------------------------------------------------------------------
(* submit_hub_exercise *)

(* 409 unless the exercise runs.                                           *)
ReadExercise(r) ==
  /\ At(r, "readExercise")
  /\ IF ex[req[r].att].status # "in_progress" THEN End(r)
     ELSE IF Skill[req[r].hub] = "speaking" THEN Goto(r, "reviewTalk")
     ELSE Do(r, [req[r] EXCEPT !.pc = "store",
                               !.score = [shows |-> "pending", essay |-> r]])
  /\ UNCHANGED <<ex, talk, review, history, faults>>

(* Mutant: the submission goes on when the attempt cannot be finalized.    *)
ReviewTalk_GoesOn(r) ==
  LET a == req[r].att
      Found(shown) == Do(r, [req[r] EXCEPT !.pc = "score", !.score.shows = shown])
  IN  /\ At(r, "reviewTalk")
      /\ \/ review[a] # "none" /\ Found(review[a]) /\ UNCHANGED <<talk, review>>
         \/ review[a] = "none" /\ Finalized(a) /\ Found("pending")
         \/ review[a] = "none" /\ Found("pending") /\ UNCHANGED <<talk, review>>
      /\ UNCHANGED <<ex, history, faults>>

(* finalize_practice_speaking_submit: the review there is, or the one that *)
(* finalizing the attempt makes.                                           *)
ReviewTalk(r) ==
  LET a == req[r].att
      Found(shown) == Do(r, [req[r] EXCEPT !.pc = "score", !.score.shows = shown])
  IN  /\ At(r, "reviewTalk")
      /\ \/ review[a] # "none" /\ Found(review[a]) /\ UNCHANGED <<talk, review>>
         \/ review[a] = "none" /\ Finalized(a) /\ Found("pending")
         \/ review[a] = "none" /\ End(r) /\ UNCHANGED <<talk, review>>
      /\ UNCHANGED <<ex, history, faults>>

ScoreExercise(r) ==
  /\ At(r, "score")
  /\ ex' = [ex EXCEPT ![req[r].att].score = req[r].score]
  /\ Goto(r, "store")
  /\ UNCHANGED <<talk, review, history, faults>>

(* Answers, score and status are one write, whatever the row is by now.    *)
(* The hub is completed, where its progress is kept, and the request is    *)
(* answered; the task that evaluates an essay runs after the answer.       *)
StoreExercise(r) ==
  LET a == req[r].att
  IN  /\ At(r, "store")
      /\ ex' = [ex EXCEPT ![a].status = "completed", ![a].answers = r,
                          ![a].score = req[r].score]
      /\ twice' = IF ex[a].status = "completed" THEN twice \cup {a} ELSE twice
      /\ IF Skill[req[r].hub] = "speaking" THEN End(r)
         ELSE Do(r, [req[r] EXCEPT !.pc = "readEssay", !.score = Unscored])
      /\ UNCHANGED <<talk, review, lost, faults>>

-----------------------------------------------------------------------------
(* _evaluate_practice_writing_async *)

(* Mutant: the task takes a pending essay for one that is being evaluated.  *)
EvaluateEssay_NotPending(r) ==
  LET score == ex[req[r].att].score
  IN  /\ At(r, "readEssay")
      /\ IF score.shows # "error" THEN End(r)
         ELSE Do(r, [req[r] EXCEPT !.pc = "storeEstimate", !.score = score])
      /\ UNCHANGED <<ex, talk, review, history, faults>>

EvaluateEssay(r) ==
  LET score == ex[req[r].att].score
  IN  /\ At(r, "readEssay")
      /\ IF score.shows = "estimate" THEN End(r)
         ELSE Do(r, [req[r] EXCEPT !.pc = "storeEstimate", !.score = score])
      /\ UNCHANGED <<ex, talk, review, history, faults>>

(* Mutant: a status the score does not know.                               *)
StoreEstimate_Misspelt(r) ==
  /\ At(r, "storeEstimate")
  /\ \E shown \in {"estimated", "error"} :
       ex' = [ex EXCEPT ![req[r].att].score = [req[r].score EXCEPT !.shows = shown]]
  /\ End(r)
  /\ UNCHANGED <<talk, review, history, faults>>

(* The score as it was read, with the estimate, or with an error when the  *)
(* essay is too short or no provider answers.                              *)
StoreEstimate(r) ==
  /\ At(r, "storeEstimate")
  /\ \E shown \in {"estimate", "error"} :
       ex' = [ex EXCEPT ![req[r].att].score = [req[r].score EXCEPT !.shows = shown]]
  /\ End(r)
  /\ UNCHANGED <<talk, review, history, faults>>

-----------------------------------------------------------------------------
(* get_practice_speaking_review *)

Look(r, a) ==
  /\ At(r, "idle") /\ Known(a) /\ review[a] # "none"
  /\ Ask(r, "sync", ex[a].hub, a, [ex[a].score EXCEPT !.shows = review[a]])
  /\ UNCHANGED <<ex, talk, review, history, faults>>

(* What the review showed is copied to the exercise.                       *)
SyncScore(r) ==
  /\ At(r, "sync")
  /\ ex' = [ex EXCEPT ![req[r].att].score = req[r].score]
  /\ End(r)
  /\ UNCHANGED <<talk, review, history, faults>>

-----------------------------------------------------------------------------
(* Faults *)

(* A call fails or the process restarts: the request ends where it is, and *)
(* its task with it, as tasks run only after an answer without error.      *)
Dies(r) ==
  /\ ~At(r, "idle")
  /\ faults < MaxFaults /\ faults' = faults + 1
  /\ End(r)
  /\ lost' = IF req[r].pc \in {"readEssay", "storeEstimate"}
             THEN lost \cup {req[r].att} ELSE lost
  /\ UNCHANGED <<ex, talk, review, twice>>

-----------------------------------------------------------------------------
Step(r) ==
  \/ ReadPrior(r) \/ AbandonPrior(r) \/ AbandonTalks(r) \/ InsertExercise(r)
  \/ FindInSlot(r) \/ FreeSlot(r) \/ InsertTalk(r) \/ LinkTalk(r)
  \/ ReadExercise(r) \/ ReviewTalk(r) \/ ScoreExercise(r) \/ StoreExercise(r)
  \/ EvaluateEssay(r) \/ StoreEstimate(r) \/ SyncScore(r)

Next ==
  \/ \E r \in Reqs : \/ AskStart(r) \/ AskSubmit(r) \/ Step(r) \/ Dies(r)
                     \/ \E a \in Attempts : Look(r, a)
  \/ \E a \in Attempts : Finalize(a) \/ TalkEvaluated(a)

Spec == Init /\ [][Next]_vars

(* Requests go on, reviews are evaluated (SpeakingEvaluation), and the     *)
(* student looks at an exercise again and again.                           *)
FairSpec ==
  /\ Spec
  /\ \A r \in Reqs : WF_vars(Step(r))
  /\ \A a \in Attempts : /\ WF_vars(TalkEvaluated(a))
                         /\ SF_vars(\E r \in Reqs : Look(r, a))

-----------------------------------------------------------------------------
(* Properties *)

(* An exercise that was spoken is completed only with a review of what was *)
(* said, though its slot is taken by another start, or the attempt closed  *)
(* by another request, while it is submitted.                              *)
SpokenIsReviewed ==
  \A a \in Attempts :
    /\ ex[a].status = "completed" /\ Skill[ex[a].hub] = "speaking"
         => review[a] # "none"
    /\ talk[a] = "completed" => review[a] # "none"

(* A submitted exercise stays as it is but for its score, and an estimate  *)
(* of an essay is not taken back, unless two submissions of it overlap: no *)
(* start, evaluation or late request undoes it.                            *)
CompletedStays ==
  [][\A a \in Attempts \ twice' : ex[a].status = "completed" =>
       /\ [ex'[a] EXCEPT !.score = Unscored] = [ex[a] EXCEPT !.score = Unscored]
       /\ Skill[ex[a].hub] = "writing" /\ ex[a].score.shows = "estimate"
            => ex'[a] = ex[a]]_vars

(* A submitted exercise shows an estimate or an error in the end: one that *)
(* was spoken in any case, an essay unless its task was lost on the way.   *)
EvaluationShown ==
  \A a \in Attempts :
    ex[a].status = "completed" ~>
      \/ ex[a].score.shows \in {"estimate", "error"}
      \/ a \in lost /\ Skill[ex[a].hub] = "writing"

=============================================================================
