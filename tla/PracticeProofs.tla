--------------------------- MODULE PracticeProofs ---------------------------
(***************************************************************************)
(* Machine-checked proofs about practice: HubExercise, for every set of    *)
(* hubs and requests and every number of exercises and of faults, and      *)
(* StudyPlan, for every number of days, hubs, versions, requests and       *)
(* builds and every set of hubs that stay published.                       *)
(***************************************************************************)
EXTENDS HubExercise, StudyPlan, TLAPS, FiniteSetTheorems, WellFoundedInduction

USE HubAssumption

-----------------------------------------------------------------------------
(* Hub exercises: type correctness                                         *)

TalkSteps == {"findSlot", "freeSlot", "insertTalk", "link"}
TaskSteps == {"readEssay", "storeEstimate"}

(* A request that is on its way is well typed.                             *)
LEMMA ActiveReq ==
  ASSUME TypeOK, NEW r \in Reqs, req[r].pc # "idle"
  PROVE  /\ req[r] \in Req
         /\ req[r].pc \in StartSteps \cup SubmitSteps \cup {"sync"}
         /\ req[r].hub \in Hubs /\ req[r].att \in Attempts
         /\ req[r].prior \subseteq Attempts /\ req[r].score \in Score
         /\ req[r].again \in BOOLEAN
  BY DEF TypeOK, Req, Idle

(* An exercise has a hub from its insert on; one that was not inserted, or *)
(* that is written, has no speaking attempt.                               *)
Rows ==
  \A a \in Attempts :
    /\ ex[a].status # "none" => ex[a].hub \in Hubs
    /\ ex[a].status = "none" \/ Skill[ex[a].hub] = "writing"
         => talk[a] = "none" /\ review[a] = "none"

(* A start makes the row of its exercise, and then the speaking attempt.   *)
Starts ==
  \A r \in Reqs :
    /\ req[r].pc \in StartSteps \ TalkSteps => ex[req[r].att].status = "none"
    /\ req[r].pc \in TalkSteps =>
         /\ ex[req[r].att].status \in {"in_progress", "abandoned"}
         /\ Skill[ex[req[r].att].hub] = "speaking"
    /\ req[r].pc = "freeSlot" => \A a \in req[r].prior : talk[a] # "none"

(* While an exercise is being started nobody else knows it.                *)
Apart ==
  \A r, s \in Reqs :
    Starting(r) /\ req[s].pc # "idle" /\ req[s].att = req[r].att => s = r

(* A submission, and the copy of a review, go by the skill of the hub.     *)
Submits ==
  \A r \in Reqs :
    /\ req[r].pc \in SubmitSteps \cup {"sync"} =>
         /\ ex[req[r].att].status # "none"
         /\ req[r].hub = ex[req[r].att].hub
    /\ req[r].pc \in {"reviewTalk", "score", "sync"} =>
         Skill[req[r].hub] = "speaking"
    /\ req[r].pc \in {"score", "store"} /\ Skill[req[r].hub] = "speaking" =>
         review[req[r].att] # "none"
    /\ req[r].pc = "store" /\ Skill[req[r].hub] = "writing" =>
         req[r].score.shows = "pending"
    /\ req[r].pc \in TaskSteps =>
         /\ Skill[req[r].hub] = "writing"
         /\ ex[req[r].att].status = "completed"

(* An exercise submitted once has at most one task, and no estimate before *)
(* the task has ended.                                                     *)
Tasks ==
  \A r \in Reqs : req[r].pc \in TaskSteps /\ req[r].att \notin twice =>
    /\ ex[req[r].att].score.shows # "estimate"
    /\ \A s \in Reqs :
         req[s].pc \in TaskSteps /\ req[s].att = req[r].att => s = r

IInv ==
  TypeOK /\ Rows /\ Starts /\ Apart /\ Submits /\ Tasks /\ SpokenIsReviewed

(* The writes of an exercise and of a request keep their types.            *)
LEMMA RowTypes ==
  ASSUME NEW e \in Exercise
  PROVE  /\ \A score \in Score : [e EXCEPT !.score = score] \in Exercise
         /\ [e EXCEPT !.status = "abandoned"] \in Exercise
         /\ [e EXCEPT !.linked = TRUE, !.score.shows = "pending"] \in Exercise
         /\ \A score \in Score, r \in Reqs :
              [e EXCEPT !.status = "completed", !.answers = r, !.score = score]
                \in Exercise
  BY DEF Exercise, Score, Shown

LEMMA ScoreTypes ==
  /\ Unscored \in Score /\ NoRow \in Exercise
  /\ \A r \in Reqs : [shows |-> "pending", essay |-> r] \in Score
  /\ \A h \in Hubs : [NoRow EXCEPT !.status = "in_progress", !.hub = h]
                       \in Exercise
  /\ \A score \in Score : \A shown \in Shown :
       [score EXCEPT !.shows = shown] \in Score
  BY DEF Score, Shown, Unscored, Exercise, NoRow

LEMMA DoType ==
  ASSUME TypeOK, NEW r \in Reqs, NEW rec \in Req \cup {Idle}, Do(r, rec)
  PROVE  req' \in [Reqs -> Req \cup {Idle}]
  BY DEF TypeOK, Do

LEMMA GotoType ==
  ASSUME TypeOK, NEW r \in Reqs, req[r].pc # "idle",
         NEW pc \in StartSteps \cup SubmitSteps \cup {"sync"}, Goto(r, pc)
  PROVE  req' \in [Reqs -> Req \cup {Idle}]
  BY ActiveReq DEF Goto, TypeOK, Req

LEMMA ReqTypes ==
  /\ \A h \in Hubs, a \in Attempts, score \in Score :
       \A pc \in StartSteps \cup SubmitSteps \cup {"sync"} :
         [pc |-> pc, hub |-> h, att |-> a, prior |-> {}, score |-> score,
          again |-> FALSE] \in Req
  /\ \A q \in Req, pc \in StartSteps \cup SubmitSteps \cup {"sync"} :
       /\ \A prior \in SUBSET Attempts :
            [q EXCEPT !.pc = pc, !.prior = prior] \in Req
       /\ \A score \in Score : [q EXCEPT !.pc = pc, !.score = score] \in Req
       /\ \A shown \in Shown :
            [q EXCEPT !.pc = pc, !.score.shows = shown] \in Req
       /\ [q EXCEPT !.pc = pc, !.again = TRUE] \in Req
  BY DEF Req, Score

(* Every step of a request keeps the types.                                *)
LEMMA TypeStep ==
  ASSUME TypeOK, Rows, NEW r \in Reqs,
         AskStart(r) \/ AskSubmit(r) \/ Step(r) \/ Dies(r)
  PROVE  TypeOK'
<1>0. /\ {"readPrior", "abandonPrior", "abandonTalks", "insert", "findSlot",
          "freeSlot", "insertTalk", "link", "readExercise", "reviewTalk",
          "score", "store", "readEssay", "storeEstimate", "sync"}
           = StartSteps \cup SubmitSteps \cup {"sync"}
      /\ "idle" \notin StartSteps \cup SubmitSteps \cup {"sync"}
      /\ Shown = {"none", "pending", "estimate", "error"}
      /\ {} \in SUBSET Attempts
  BY DEF StartSteps, SubmitSteps, Shown
<1>1. CASE AskStart(r)
  <2>1. PICK a \in Attempts, h \in Hubs : Ask(r, "readPrior", h, a, Unscored)
    BY <1>1 DEF AskStart
  <2>2. req' \in [Reqs -> Req \cup {Idle}]
    BY <2>1, <1>0, ReqTypes, ScoreTypes, DoType DEF Ask
  <2> QED BY <1>1, <2>2 DEF AskStart, TypeOK, history
<1>2. CASE AskSubmit(r)
  <2>1. PICK a \in Attempts :
          Known(a) /\ Ask(r, "readExercise", ex[a].hub, a, Unscored)
    BY <1>2 DEF AskSubmit
  <2>2. ex[a].hub \in Hubs
    BY <2>1 DEF Known, Rows
  <2>3. req' \in [Reqs -> Req \cup {Idle}]
    BY <2>1, <2>2, <1>0, ReqTypes, ScoreTypes, DoType DEF Ask
  <2> QED BY <1>2, <2>3 DEF AskSubmit, TypeOK, history
<1>3. CASE ReadPrior(r)
  <2>1. req[r] \in Req /\ Running(req[r].hub) \subseteq Attempts
    BY <1>3, <1>0, ActiveReq DEF ReadPrior, At, Running
  <2>2. req' \in [Reqs -> Req \cup {Idle}]
    BY <1>3, <2>1, <1>0, ReqTypes, DoType DEF ReadPrior
  <2> QED BY <1>3, <2>2 DEF ReadPrior, TypeOK, history
<1>4. CASE AbandonPrior(r)
  <2>1. ex' \in [Attempts -> Exercise]
    BY <1>4, RowTypes DEF AbandonPrior, Abandoned, TypeOK
  <2>2. req' \in [Reqs -> Req \cup {Idle}]
    BY <1>4, <1>0, GotoType DEF AbandonPrior, At
  <2> QED BY <1>4, <2>1, <2>2 DEF AbandonPrior, TypeOK, history
<1>5. CASE AbandonTalks(r)
  <2>1. req[r] \in Req
    BY <1>5, <1>0, ActiveReq DEF AbandonTalks, At
  <2>2. req' \in [Reqs -> Req \cup {Idle}]
    BY <1>5, <2>1, <1>0, ReqTypes, DoType DEF AbandonTalks
  <2> QED BY <1>5, <2>2 DEF AbandonTalks, TypeOK, history
<1>6. CASE InsertExercise(r)
  <2>1. req[r].hub \in Hubs /\ req[r].att \in Attempts /\ req[r].pc # "idle"
    BY <1>6, <1>0, ActiveReq DEF InsertExercise, At
  <2>2. ex' \in [Attempts -> Exercise]
    BY <1>6, <2>1, ScoreTypes DEF InsertExercise, TypeOK
  <2>3. req' \in [Reqs -> Req \cup {Idle}]
    BY <1>6, <2>1, <1>0, GotoType, DoType DEF InsertExercise, End
  <2> QED BY <1>6, <2>2, <2>3 DEF InsertExercise, TypeOK, history
<1>7. CASE FindInSlot(r)
  <2>1. req[r] \in Req /\ InSlot \in SUBSET Attempts /\ req[r].pc # "idle"
    BY <1>7, <1>0, ActiveReq DEF FindInSlot, At, InSlot
  <2>2. req' \in [Reqs -> Req \cup {Idle}]
    BY <1>7, <2>1, <1>0, ReqTypes, GotoType, DoType DEF FindInSlot, End
  <2> QED BY <1>7, <2>2 DEF FindInSlot, TypeOK, history
<1>8. CASE FreeSlot(r)
  <2>1. req[r] \in Req
    BY <1>8, <1>0, ActiveReq DEF FreeSlot, At
  <2>2. req' \in [Reqs -> Req \cup {Idle}]
    BY <1>8, <2>1, <1>0, ReqTypes, DoType DEF FreeSlot
  <2> QED BY <1>8, <2>2 DEF FreeSlot, TypeOK, history
<1>9. CASE InsertTalk(r)
  <2>1. req[r] \in Req /\ req[r].att \in Attempts /\ req[r].pc # "idle"
    BY <1>9, <1>0, ActiveReq DEF InsertTalk, At
  <2>2. req' \in [Reqs -> Req \cup {Idle}]
    BY <1>9, <2>1, <1>0, ReqTypes, GotoType, DoType DEF InsertTalk, End
  <2> QED BY <1>9, <2>1, <2>2 DEF InsertTalk, TypeOK, history
<1>10. CASE LinkTalk(r)
  <2>1. req[r].att \in Attempts
    BY <1>10, <1>0, ActiveReq DEF LinkTalk, At
  <2>2. ex' \in [Attempts -> Exercise]
    BY <1>10, <2>1, RowTypes DEF LinkTalk, TypeOK
  <2> QED BY <1>10, <2>2, DoType DEF LinkTalk, End, TypeOK, history
<1>11. CASE ReadExercise(r)
  <2>1. req[r] \in Req /\ req[r].pc # "idle"
    BY <1>11, <1>0, ActiveReq DEF ReadExercise, At
  <2>2. req' \in [Reqs -> Req \cup {Idle}]
    BY <1>11, <2>1, <1>0, ReqTypes, ScoreTypes, GotoType, DoType
    DEF ReadExercise, End
  <2> QED BY <1>11, <2>2 DEF ReadExercise, TypeOK, history
<1>12. CASE ReviewTalk(r)
  <2>1. req[r] \in Req /\ req[r].att \in Attempts
    BY <1>12, <1>0, ActiveReq DEF ReviewTalk, At
  <2>2. review[req[r].att] \in Shown /\ "pending" \in Shown
    BY <2>1, <1>0 DEF TypeOK
  <2>3. req' \in [Reqs -> Req \cup {Idle}]
    BY <1>12, <2>1, <2>2, <1>0, ReqTypes, DoType DEF ReviewTalk, End
  <2> QED BY <1>12, <2>1, <2>2, <2>3 DEF ReviewTalk, Finalized, TypeOK, history
<1>13. CASE ScoreExercise(r)
  <2>1. req[r].att \in Attempts /\ req[r].score \in Score /\ req[r].pc # "idle"
    BY <1>13, <1>0, ActiveReq DEF ScoreExercise, At
  <2>2. ex' \in [Attempts -> Exercise]
    BY <1>13, <2>1, RowTypes DEF ScoreExercise, TypeOK
  <2> QED BY <1>13, <1>0, <2>1, <2>2, GotoType DEF ScoreExercise, TypeOK,
             history
<1>14. CASE StoreExercise(r)
  <2>1. /\ req[r] \in Req /\ req[r].att \in Attempts
        /\ req[r].score \in Score /\ req[r].pc # "idle"
    BY <1>14, <1>0, ActiveReq DEF StoreExercise, At
  <2>2. ex' \in [Attempts -> Exercise]
    BY <1>14, <2>1, RowTypes DEF StoreExercise, TypeOK
  <2>3. req' \in [Reqs -> Req \cup {Idle}]
    BY <1>14, <2>1, <1>0, ReqTypes, ScoreTypes, DoType DEF StoreExercise, End
  <2> QED BY <1>14, <2>1, <2>2, <2>3 DEF StoreExercise, TypeOK
<1>15. CASE EvaluateEssay(r)
  <2>1. req[r] \in Req /\ ex[req[r].att].score \in Score
    BY <1>15, <1>0, ActiveReq DEF EvaluateEssay, At, TypeOK, Exercise
  <2>2. req' \in [Reqs -> Req \cup {Idle}]
    BY <1>15, <2>1, <1>0, ReqTypes, DoType DEF EvaluateEssay, End
  <2> QED BY <1>15, <2>2 DEF EvaluateEssay, TypeOK, history
<1>16. CASE StoreEstimate(r)
  <2>1. req[r].att \in Attempts /\ req[r].score \in Score
    BY <1>16, <1>0, ActiveReq DEF StoreEstimate, At
  <2>2. PICK shown \in Shown :
          ex' = [ex EXCEPT ![req[r].att].score =
                             [req[r].score EXCEPT !.shows = shown]]
    BY <1>16, <1>0 DEF StoreEstimate
  <2>3. ex' \in [Attempts -> Exercise]
    BY <2>1, <2>2, RowTypes, ScoreTypes DEF TypeOK
  <2> QED BY <1>16, <2>3, DoType DEF StoreEstimate, End, TypeOK, history
<1>17. CASE SyncScore(r)
  <2>1. req[r].att \in Attempts /\ req[r].score \in Score
    BY <1>17, <1>0, ActiveReq DEF SyncScore, At
  <2>2. ex' \in [Attempts -> Exercise]
    BY <1>17, <2>1, RowTypes DEF SyncScore, TypeOK
  <2> QED BY <1>17, <2>2, DoType DEF SyncScore, End, TypeOK, history
<1>18. CASE Dies(r)
  <2>1. req[r].att \in Attempts
    BY <1>18, ActiveReq DEF Dies, At
  <2>2. faults' \in 0..MaxFaults
    BY <1>18 DEF Dies, TypeOK
  <2> QED BY <1>18, <2>1, <2>2, DoType DEF Dies, End, TypeOK
<1> QED BY <1>1, <1>2, <1>3, <1>4, <1>5, <1>6, <1>7, <1>8, <1>9, <1>10, <1>11,
           <1>12, <1>13, <1>14, <1>15, <1>16, <1>17, <1>18 DEF Step

(* Every step of a request keeps what the rows say of each other.          *)
LEMMA RowsStep ==
  ASSUME TypeOK, TypeOK', Rows, Starts, Submits, Apart, SpokenIsReviewed,
         NEW r \in Reqs,
         AskStart(r) \/ AskSubmit(r) \/ Step(r) \/ Dies(r)
  PROVE  Rows' /\ SpokenIsReviewed'
<1> USE ActiveReq DEF At, Goto, Do, Rows, Starts, Submits, Apart,
        SpokenIsReviewed, TypeOK, history, TalkSteps, TaskSteps, StartSteps,
        SubmitSteps, Starting, Busy, Idle
<1>1. CASE AskStart(r)
  BY <1>1 DEF AskStart, Ask, Fresh
<1>2. CASE AskSubmit(r)
  BY <1>2 DEF AskSubmit, Ask, Known
<1>3. CASE ReadPrior(r)
  BY <1>3 DEF ReadPrior
<1>4. CASE AbandonPrior(r)
  BY <1>4 DEF AbandonPrior, Abandoned, Running
<1>5. CASE AbandonTalks(r)
  BY <1>5 DEF AbandonTalks
<1>6. CASE InsertExercise(r)
  BY <1>6 DEF InsertExercise, End, NoRow
<1>7. CASE FindInSlot(r)
  BY <1>7 DEF FindInSlot, InSlot, End
<1>8. CASE FreeSlot(r)
  BY <1>8 DEF FreeSlot
<1>9. CASE InsertTalk(r)
  BY <1>9 DEF InsertTalk, End
<1>10. CASE LinkTalk(r)
  BY <1>10 DEF LinkTalk, End
<1>11. CASE ReadExercise(r)
  BY <1>11 DEF ReadExercise, End
<1>12. CASE ReviewTalk(r)
  BY <1>12 DEF ReviewTalk, End, Finalized
<1>13. CASE ScoreExercise(r)
  BY <1>13 DEF ScoreExercise
<1>14. CASE StoreExercise(r)
  BY <1>14 DEF StoreExercise, End
<1>15. CASE EvaluateEssay(r)
  BY <1>15 DEF EvaluateEssay, End
<1>16. CASE StoreEstimate(r)
  BY <1>16 DEF StoreEstimate, End
<1>17. CASE SyncScore(r)
  BY <1>17 DEF SyncScore, End
<1>18. CASE Dies(r)
  BY <1>18 DEF Dies, End
<1> QED BY <1>1, <1>2, <1>3, <1>4, <1>5, <1>6, <1>7, <1>8, <1>9, <1>10, <1>11,
           <1>12, <1>13, <1>14, <1>15, <1>16, <1>17, <1>18 DEF Step

(* ... what a start has come to,                                           *)
LEMMA StartsStep ==
  ASSUME TypeOK, TypeOK', Rows, Starts, Apart, NEW r \in Reqs,
         AskStart(r) \/ AskSubmit(r) \/ Step(r) \/ Dies(r)
  PROVE  Starts'
<1> USE ActiveReq DEF At, Goto, Do, Rows, Starts, Apart, TypeOK, history,
        TalkSteps, TaskSteps, StartSteps, SubmitSteps, Starting, Busy, Idle
<1>1. CASE AskStart(r)
  BY <1>1 DEF AskStart, Ask, Fresh
<1>2. CASE AskSubmit(r)
  BY <1>2 DEF AskSubmit, Ask, Known
<1>3. CASE ReadPrior(r)
  BY <1>3 DEF ReadPrior
<1>4. CASE AbandonPrior(r)
  BY <1>4 DEF AbandonPrior, Abandoned, Running
<1>5. CASE AbandonTalks(r)
  BY <1>5 DEF AbandonTalks
<1>6. CASE InsertExercise(r)
  <2>1. CASE Skill[req[r].hub] = "speaking" /\ Goto(r, "findSlot")
    BY <1>6, <2>1 DEF InsertExercise, End, NoRow
  <2>2. CASE End(r)
    BY <1>6, <2>2 DEF InsertExercise, End, NoRow
  <2> QED BY <1>6, <2>1, <2>2 DEF InsertExercise
<1>7. CASE FindInSlot(r)
  <2>1. CASE Do(r, [req[r] EXCEPT !.pc = "freeSlot", !.prior = InSlot])
    BY <1>7, <2>1 DEF FindInSlot, InSlot, End
  <2>2. CASE Goto(r, "insertTalk")
    BY <1>7, <2>2 DEF FindInSlot, InSlot, End
  <2>3. CASE End(r)
    BY <1>7, <2>3 DEF FindInSlot, InSlot, End
  <2> QED BY <1>7, <2>1, <2>2, <2>3 DEF FindInSlot
<1>8. CASE FreeSlot(r)
  BY <1>8 DEF FreeSlot
<1>9. CASE InsertTalk(r)
  <2>1. CASE Goto(r, "link")
    BY <1>9, <2>1 DEF InsertTalk, End
  <2>2. CASE End(r) /\ UNCHANGED talk
    BY <1>9, <2>2 DEF InsertTalk, End
  <2>3. CASE /\ Do(r, [req[r] EXCEPT !.pc = "findSlot", !.again = TRUE])
             /\ UNCHANGED talk
    BY <1>9, <2>3 DEF InsertTalk, End
  <2> QED BY <1>9, <2>1, <2>2, <2>3 DEF InsertTalk
<1>10. CASE LinkTalk(r)
  BY <1>10 DEF LinkTalk, End
<1>11. CASE ReadExercise(r)
  <2>1. CASE End(r)
    BY <1>11, <2>1 DEF ReadExercise, End
  <2>2. CASE Skill[req[r].hub] = "speaking" /\ Goto(r, "reviewTalk")
    BY <1>11, <2>2 DEF ReadExercise, End
  <2>3. CASE /\ Skill[req[r].hub] # "speaking"
             /\ Do(r, [req[r] EXCEPT !.pc = "store",
                                     !.score = [shows |-> "pending",
                                                essay |-> r]])
    BY <1>11, <2>3 DEF ReadExercise, End
  <2> QED BY <1>11, <2>1, <2>2, <2>3 DEF ReadExercise
<1>12. CASE ReviewTalk(r)
  <2>1. CASE /\ review[req[r].att] # "none" /\ UNCHANGED <<talk, review>>
             /\ Do(r, [req[r] EXCEPT !.pc = "score",
                                     !.score.shows = review[req[r].att]])
    BY <1>12, <2>1 DEF ReviewTalk, End, Finalized
  <2>2. CASE /\ Finalized(req[r].att)
             /\ Do(r, [req[r] EXCEPT !.pc = "score",
                                     !.score.shows = "pending"])
    BY <1>12, <2>2 DEF ReviewTalk, End, Finalized
  <2>3. CASE End(r) /\ UNCHANGED <<talk, review>>
    BY <1>12, <2>3 DEF ReviewTalk, End, Finalized
  <2> QED BY <1>12, <2>1, <2>2, <2>3 DEF ReviewTalk
<1>13. CASE ScoreExercise(r)
  BY <1>13 DEF ScoreExercise
<1>14. CASE StoreExercise(r)
  <2>1. CASE Skill[req[r].hub] = "speaking" /\ End(r)
    BY <1>14, <2>1 DEF StoreExercise, End
  <2>2. CASE /\ Skill[req[r].hub] # "speaking"
             /\ Do(r, [req[r] EXCEPT !.pc = "readEssay", !.score = Unscored])
    BY <1>14, <2>2 DEF StoreExercise, End
  <2> QED BY <1>14, <2>1, <2>2 DEF StoreExercise
<1>15. CASE EvaluateEssay(r)
  <2>1. CASE End(r)
    BY <1>15, <2>1 DEF EvaluateEssay, End
  <2>2. CASE /\ ex[req[r].att].score.shows # "estimate"
             /\ Do(r, [req[r] EXCEPT !.pc = "storeEstimate",
                                     !.score = ex[req[r].att].score])
    BY <1>15, <2>2 DEF EvaluateEssay, End
  <2> QED BY <1>15, <2>1, <2>2 DEF EvaluateEssay
<1>16. CASE StoreEstimate(r)
  BY <1>16 DEF StoreEstimate, End
<1>17. CASE SyncScore(r)
  BY <1>17 DEF SyncScore, End
<1>18. CASE Dies(r)
  BY <1>18 DEF Dies, End
<1> QED BY <1>1, <1>2, <1>3, <1>4, <1>5, <1>6, <1>7, <1>8, <1>9, <1>10, <1>11,
           <1>12, <1>13, <1>14, <1>15, <1>16, <1>17, <1>18 DEF Step

(* ... that an exercise being started is nobody else's,                    *)
LEMMA ApartStep ==
  ASSUME TypeOK, TypeOK', Submits, Apart, NEW r \in Reqs,
         AskStart(r) \/ AskSubmit(r) \/ Step(r) \/ Dies(r)
  PROVE  Apart'
<1> USE ActiveReq DEF At, Goto, Do, Submits, Apart, TypeOK, history,
        TalkSteps, TaskSteps, StartSteps, SubmitSteps, Starting, Busy, Idle
<1>1. CASE AskStart(r)
  BY <1>1 DEF AskStart, Ask, Fresh
<1>2. CASE AskSubmit(r)
  BY <1>2 DEF AskSubmit, Ask, Known
<1>3. CASE ReadPrior(r)
  BY <1>3 DEF ReadPrior
<1>4. CASE AbandonPrior(r)
  BY <1>4 DEF AbandonPrior, Abandoned, Running
<1>5. CASE AbandonTalks(r)
  BY <1>5 DEF AbandonTalks
<1>6. CASE InsertExercise(r)
  <2>1. CASE Skill[req[r].hub] = "speaking" /\ Goto(r, "findSlot")
    BY <1>6, <2>1 DEF InsertExercise, End, NoRow
  <2>2. CASE End(r)
    BY <1>6, <2>2 DEF InsertExercise, End, NoRow
  <2> QED BY <1>6, <2>1, <2>2 DEF InsertExercise
<1>7. CASE FindInSlot(r)
  <2>1. CASE Do(r, [req[r] EXCEPT !.pc = "freeSlot", !.prior = InSlot])
    BY <1>7, <2>1 DEF FindInSlot, InSlot, End
  <2>2. CASE Goto(r, "insertTalk")
    BY <1>7, <2>2 DEF FindInSlot, InSlot, End
  <2>3. CASE End(r)
    BY <1>7, <2>3 DEF FindInSlot, InSlot, End
  <2> QED BY <1>7, <2>1, <2>2, <2>3 DEF FindInSlot
<1>8. CASE FreeSlot(r)
  BY <1>8 DEF FreeSlot
<1>9. CASE InsertTalk(r)
  <2>1. CASE Goto(r, "link")
    BY <1>9, <2>1 DEF InsertTalk, End
  <2>2. CASE End(r) /\ UNCHANGED talk
    BY <1>9, <2>2 DEF InsertTalk, End
  <2>3. CASE /\ Do(r, [req[r] EXCEPT !.pc = "findSlot", !.again = TRUE])
             /\ UNCHANGED talk
    BY <1>9, <2>3 DEF InsertTalk, End
  <2> QED BY <1>9, <2>1, <2>2, <2>3 DEF InsertTalk
<1>10. CASE LinkTalk(r)
  BY <1>10 DEF LinkTalk, End
<1>11. CASE ReadExercise(r)
  <2>1. CASE End(r)
    BY <1>11, <2>1 DEF ReadExercise, End
  <2>2. CASE Skill[req[r].hub] = "speaking" /\ Goto(r, "reviewTalk")
    BY <1>11, <2>2 DEF ReadExercise, End
  <2>3. CASE /\ Skill[req[r].hub] # "speaking"
             /\ Do(r, [req[r] EXCEPT !.pc = "store",
                                     !.score = [shows |-> "pending",
                                                essay |-> r]])
    BY <1>11, <2>3 DEF ReadExercise, End
  <2> QED BY <1>11, <2>1, <2>2, <2>3 DEF ReadExercise
<1>12. CASE ReviewTalk(r)
  <2>1. CASE /\ review[req[r].att] # "none" /\ UNCHANGED <<talk, review>>
             /\ Do(r, [req[r] EXCEPT !.pc = "score",
                                     !.score.shows = review[req[r].att]])
    BY <1>12, <2>1 DEF ReviewTalk, End, Finalized
  <2>2. CASE /\ Finalized(req[r].att)
             /\ Do(r, [req[r] EXCEPT !.pc = "score",
                                     !.score.shows = "pending"])
    BY <1>12, <2>2 DEF ReviewTalk, End, Finalized
  <2>3. CASE End(r) /\ UNCHANGED <<talk, review>>
    BY <1>12, <2>3 DEF ReviewTalk, End, Finalized
  <2> QED BY <1>12, <2>1, <2>2, <2>3 DEF ReviewTalk
<1>13. CASE ScoreExercise(r)
  BY <1>13 DEF ScoreExercise
<1>14. CASE StoreExercise(r)
  <2>1. CASE Skill[req[r].hub] = "speaking" /\ End(r)
    BY <1>14, <2>1 DEF StoreExercise, End
  <2>2. CASE /\ Skill[req[r].hub] # "speaking"
             /\ Do(r, [req[r] EXCEPT !.pc = "readEssay", !.score = Unscored])
    BY <1>14, <2>2 DEF StoreExercise, End
  <2> QED BY <1>14, <2>1, <2>2 DEF StoreExercise
<1>15. CASE EvaluateEssay(r)
  <2>1. CASE End(r)
    BY <1>15, <2>1 DEF EvaluateEssay, End
  <2>2. CASE /\ ex[req[r].att].score.shows # "estimate"
             /\ Do(r, [req[r] EXCEPT !.pc = "storeEstimate",
                                     !.score = ex[req[r].att].score])
    BY <1>15, <2>2 DEF EvaluateEssay, End
  <2> QED BY <1>15, <2>1, <2>2 DEF EvaluateEssay
<1>16. CASE StoreEstimate(r)
  BY <1>16 DEF StoreEstimate, End
<1>17. CASE SyncScore(r)
  BY <1>17 DEF SyncScore, End
<1>18. CASE Dies(r)
  BY <1>18 DEF Dies, End
<1> QED BY <1>1, <1>2, <1>3, <1>4, <1>5, <1>6, <1>7, <1>8, <1>9, <1>10, <1>11,
           <1>12, <1>13, <1>14, <1>15, <1>16, <1>17, <1>18 DEF Step

(* ... what a submission has come to,                                      *)
LEMMA SubmitsStep ==
  ASSUME TypeOK, TypeOK', Rows, Starts, Apart, Submits, NEW r \in Reqs,
         AskStart(r) \/ AskSubmit(r) \/ Step(r) \/ Dies(r)
  PROVE  Submits'
<1> USE ActiveReq DEF At, Goto, Do, Rows, Starts, Submits, Apart, TypeOK,
        history, TalkSteps, TaskSteps, StartSteps, SubmitSteps, Starting,
        Busy, Idle
<1>1. CASE AskStart(r)
  BY <1>1 DEF AskStart, Ask, Fresh
<1>2. CASE AskSubmit(r)
  BY <1>2 DEF AskSubmit, Ask, Known
<1>3. CASE ReadPrior(r)
  BY <1>3 DEF ReadPrior
<1>4. CASE AbandonPrior(r)
  BY <1>4 DEF AbandonPrior, Abandoned, Running
<1>5. CASE AbandonTalks(r)
  BY <1>5 DEF AbandonTalks
<1>6. CASE InsertExercise(r)
  <2>1. CASE Skill[req[r].hub] = "speaking" /\ Goto(r, "findSlot")
    BY <1>6, <2>1 DEF InsertExercise, End, NoRow
  <2>2. CASE End(r)
    BY <1>6, <2>2 DEF InsertExercise, End, NoRow
  <2> QED BY <1>6, <2>1, <2>2 DEF InsertExercise
<1>7. CASE FindInSlot(r)
  <2>1. CASE Do(r, [req[r] EXCEPT !.pc = "freeSlot", !.prior = InSlot])
    BY <1>7, <2>1 DEF FindInSlot, InSlot, End
  <2>2. CASE Goto(r, "insertTalk")
    BY <1>7, <2>2 DEF FindInSlot, InSlot, End
  <2>3. CASE End(r)
    BY <1>7, <2>3 DEF FindInSlot, InSlot, End
  <2> QED BY <1>7, <2>1, <2>2, <2>3 DEF FindInSlot
<1>8. CASE FreeSlot(r)
  BY <1>8 DEF FreeSlot
<1>9. CASE InsertTalk(r)
  <2>1. CASE Goto(r, "link")
    BY <1>9, <2>1 DEF InsertTalk, End
  <2>2. CASE End(r) /\ UNCHANGED talk
    BY <1>9, <2>2 DEF InsertTalk, End
  <2>3. CASE /\ Do(r, [req[r] EXCEPT !.pc = "findSlot", !.again = TRUE])
             /\ UNCHANGED talk
    BY <1>9, <2>3 DEF InsertTalk, End
  <2> QED BY <1>9, <2>1, <2>2, <2>3 DEF InsertTalk
<1>10. CASE LinkTalk(r)
  BY <1>10 DEF LinkTalk, End
<1>11. CASE ReadExercise(r)
  <2>1. CASE End(r)
    BY <1>11, <2>1 DEF ReadExercise, End
  <2>2. CASE Skill[req[r].hub] = "speaking" /\ Goto(r, "reviewTalk")
    BY <1>11, <2>2 DEF ReadExercise, End
  <2>3. CASE /\ Skill[req[r].hub] # "speaking"
             /\ Do(r, [req[r] EXCEPT !.pc = "store",
                                     !.score = [shows |-> "pending",
                                                essay |-> r]])
    BY <1>11, <2>3 DEF ReadExercise, End
  <2> QED BY <1>11, <2>1, <2>2, <2>3 DEF ReadExercise
<1>12. CASE ReviewTalk(r)
  <2>1. CASE /\ review[req[r].att] # "none" /\ UNCHANGED <<talk, review>>
             /\ Do(r, [req[r] EXCEPT !.pc = "score",
                                     !.score.shows = review[req[r].att]])
    BY <1>12, <2>1 DEF ReviewTalk, End, Finalized
  <2>2. CASE /\ Finalized(req[r].att)
             /\ Do(r, [req[r] EXCEPT !.pc = "score",
                                     !.score.shows = "pending"])
    BY <1>12, <2>2 DEF ReviewTalk, End, Finalized
  <2>3. CASE End(r) /\ UNCHANGED <<talk, review>>
    BY <1>12, <2>3 DEF ReviewTalk, End, Finalized
  <2> QED BY <1>12, <2>1, <2>2, <2>3 DEF ReviewTalk
<1>13. CASE ScoreExercise(r)
  BY <1>13 DEF ScoreExercise
<1>14. CASE StoreExercise(r)
  <2>1. CASE Skill[req[r].hub] = "speaking" /\ End(r)
    BY <1>14, <2>1 DEF StoreExercise, End
  <2>2. CASE /\ Skill[req[r].hub] # "speaking"
             /\ Do(r, [req[r] EXCEPT !.pc = "readEssay", !.score = Unscored])
    BY <1>14, <2>2 DEF StoreExercise, End
  <2> QED BY <1>14, <2>1, <2>2 DEF StoreExercise
<1>15. CASE EvaluateEssay(r)
  <2>1. CASE End(r)
    BY <1>15, <2>1 DEF EvaluateEssay, End
  <2>2. CASE /\ ex[req[r].att].score.shows # "estimate"
             /\ Do(r, [req[r] EXCEPT !.pc = "storeEstimate",
                                     !.score = ex[req[r].att].score])
    BY <1>15, <2>2 DEF EvaluateEssay, End
  <2> QED BY <1>15, <2>1, <2>2 DEF EvaluateEssay
<1>16. CASE StoreEstimate(r)
  BY <1>16 DEF StoreEstimate, End
<1>17. CASE SyncScore(r)
  BY <1>17 DEF SyncScore, End
<1>18. CASE Dies(r)
  BY <1>18 DEF Dies, End
<1> QED BY <1>1, <1>2, <1>3, <1>4, <1>5, <1>6, <1>7, <1>8, <1>9, <1>10, <1>11,
           <1>12, <1>13, <1>14, <1>15, <1>16, <1>17, <1>18 DEF Step

(* ... and that only overlapping submissions make two tasks.               *)
LEMMA TasksStep ==
  ASSUME TypeOK, TypeOK', Starts, Apart, Submits, Tasks, NEW r \in Reqs,
         AskStart(r) \/ AskSubmit(r) \/ Step(r) \/ Dies(r)
  PROVE  Tasks'
<1> USE ActiveReq DEF At, Goto, Do, Starts, Submits, Apart, Tasks, TypeOK,
        history, TalkSteps, TaskSteps, StartSteps, SubmitSteps, Starting,
        Busy, Idle
<1>1. CASE AskStart(r)
  BY <1>1 DEF AskStart, Ask, Fresh
<1>2. CASE AskSubmit(r)
  BY <1>2 DEF AskSubmit, Ask, Known
<1>3. CASE ReadPrior(r)
  BY <1>3 DEF ReadPrior
<1>4. CASE AbandonPrior(r)
  BY <1>4 DEF AbandonPrior, Abandoned, Running
<1>5. CASE AbandonTalks(r)
  BY <1>5 DEF AbandonTalks
<1>6. CASE InsertExercise(r)
  <2>1. CASE Skill[req[r].hub] = "speaking" /\ Goto(r, "findSlot")
    BY <1>6, <2>1 DEF InsertExercise, End, NoRow
  <2>2. CASE End(r)
    BY <1>6, <2>2 DEF InsertExercise, End, NoRow
  <2> QED BY <1>6, <2>1, <2>2 DEF InsertExercise
<1>7. CASE FindInSlot(r)
  <2>1. CASE Do(r, [req[r] EXCEPT !.pc = "freeSlot", !.prior = InSlot])
    BY <1>7, <2>1 DEF FindInSlot, InSlot, End
  <2>2. CASE Goto(r, "insertTalk")
    BY <1>7, <2>2 DEF FindInSlot, InSlot, End
  <2>3. CASE End(r)
    BY <1>7, <2>3 DEF FindInSlot, InSlot, End
  <2> QED BY <1>7, <2>1, <2>2, <2>3 DEF FindInSlot
<1>8. CASE FreeSlot(r)
  BY <1>8 DEF FreeSlot
<1>9. CASE InsertTalk(r)
  <2>1. CASE Goto(r, "link")
    BY <1>9, <2>1 DEF InsertTalk, End
  <2>2. CASE End(r) /\ UNCHANGED talk
    BY <1>9, <2>2 DEF InsertTalk, End
  <2>3. CASE /\ Do(r, [req[r] EXCEPT !.pc = "findSlot", !.again = TRUE])
             /\ UNCHANGED talk
    BY <1>9, <2>3 DEF InsertTalk, End
  <2> QED BY <1>9, <2>1, <2>2, <2>3 DEF InsertTalk
<1>10. CASE LinkTalk(r)
  BY <1>10 DEF LinkTalk, End
<1>11. CASE ReadExercise(r)
  <2>1. CASE End(r)
    BY <1>11, <2>1 DEF ReadExercise, End
  <2>2. CASE Skill[req[r].hub] = "speaking" /\ Goto(r, "reviewTalk")
    BY <1>11, <2>2 DEF ReadExercise, End
  <2>3. CASE /\ Skill[req[r].hub] # "speaking"
             /\ Do(r, [req[r] EXCEPT !.pc = "store",
                                     !.score = [shows |-> "pending",
                                                essay |-> r]])
    BY <1>11, <2>3 DEF ReadExercise, End
  <2> QED BY <1>11, <2>1, <2>2, <2>3 DEF ReadExercise
<1>12. CASE ReviewTalk(r)
  <2>1. CASE /\ review[req[r].att] # "none" /\ UNCHANGED <<talk, review>>
             /\ Do(r, [req[r] EXCEPT !.pc = "score",
                                     !.score.shows = review[req[r].att]])
    BY <1>12, <2>1 DEF ReviewTalk, End, Finalized
  <2>2. CASE /\ Finalized(req[r].att)
             /\ Do(r, [req[r] EXCEPT !.pc = "score",
                                     !.score.shows = "pending"])
    BY <1>12, <2>2 DEF ReviewTalk, End, Finalized
  <2>3. CASE End(r) /\ UNCHANGED <<talk, review>>
    BY <1>12, <2>3 DEF ReviewTalk, End, Finalized
  <2> QED BY <1>12, <2>1, <2>2, <2>3 DEF ReviewTalk
<1>13. CASE ScoreExercise(r)
  BY <1>13 DEF ScoreExercise
<1>14. CASE StoreExercise(r)
  <2>1. CASE Skill[req[r].hub] = "speaking" /\ End(r)
    BY <1>14, <2>1 DEF StoreExercise, End
  <2>2. CASE /\ Skill[req[r].hub] # "speaking"
             /\ Do(r, [req[r] EXCEPT !.pc = "readEssay", !.score = Unscored])
    BY <1>14, <2>2 DEF StoreExercise, End
  <2> QED BY <1>14, <2>1, <2>2 DEF StoreExercise
<1>15. CASE EvaluateEssay(r)
  <2>1. CASE End(r)
    BY <1>15, <2>1 DEF EvaluateEssay, End
  <2>2. CASE /\ ex[req[r].att].score.shows # "estimate"
             /\ Do(r, [req[r] EXCEPT !.pc = "storeEstimate",
                                     !.score = ex[req[r].att].score])
    BY <1>15, <2>2 DEF EvaluateEssay, End
  <2> QED BY <1>15, <2>1, <2>2 DEF EvaluateEssay
<1>16. CASE StoreEstimate(r)
  BY <1>16 DEF StoreEstimate, End
<1>17. CASE SyncScore(r)
  BY <1>17 DEF SyncScore, End
<1>18. CASE Dies(r)
  BY <1>18 DEF Dies, End
<1> QED BY <1>1, <1>2, <1>3, <1>4, <1>5, <1>6, <1>7, <1>8, <1>9, <1>10, <1>11,
           <1>12, <1>13, <1>14, <1>15, <1>16, <1>17, <1>18 DEF Step

(* Looking at a review, and what becomes of a speaking attempt.            *)
LEMMA OutsideStep ==
  ASSUME IInv, NEW a \in Attempts,
         Finalize(a) \/ TalkEvaluated(a) \/ \E r \in Reqs : Look(r, a)
  PROVE  IInv'
<1> USE DEF IInv
<1>1. CASE Finalize(a)
  <2>1. TypeOK'
    BY <1>1 DEF Finalize, Finalized, TypeOK, history, Shown
  <2> QED BY <1>1, <2>1, ActiveReq
    DEF Finalize, Finalized, TypeOK, history, Rows, Starts, Apart, Starting,
        Submits, Tasks, SpokenIsReviewed
<1>2. CASE TalkEvaluated(a)
  <2>1. TypeOK'
    BY <1>2 DEF TalkEvaluated, TypeOK, history, Shown
  <2> QED BY <1>2, <2>1, ActiveReq
    DEF TalkEvaluated, TypeOK, history, Rows, Starts, Apart, Starting,
        Submits, Tasks, SpokenIsReviewed
<1>3. ASSUME NEW r \in Reqs, Look(r, a) PROVE IInv'
  <2>1. /\ ex[a].hub \in Hubs /\ ex[a].status # "none"
        /\ Skill[ex[a].hub] = "speaking" /\ ~Busy(a)
    BY <1>3 DEF Look, Known, Rows
  <2>2. [ex[a].score EXCEPT !.shows = review[a]] \in Score
    BY ScoreTypes DEF TypeOK, Exercise
  <2>3. TypeOK'
    BY <1>3, <2>1, <2>2, ReqTypes, DoType DEF Look, Ask, TypeOK, history
  <2> USE <1>3, <2>1, <2>3, ActiveReq
      DEF Look, Ask, Do, At, TypeOK, history, StartSteps, SubmitSteps,
          TalkSteps, TaskSteps
  <2>4. Rows' /\ SpokenIsReviewed'
    BY DEF Rows, SpokenIsReviewed
  <2>5. Starts'
    BY DEF Starts
  <2>6. Apart'
    BY DEF Apart, Busy, Starting
  <2>7. Submits' /\ Tasks'
    BY DEF Submits, Tasks
  <2> QED BY <2>4, <2>5, <2>6, <2>7
<1> QED BY <1>1, <1>2, <1>3

LEMMA InvCorrect == Spec => []IInv
<1>1. Init => IInv
  <2> SUFFICES ASSUME Init PROVE IInv
    OBVIOUS
  <2>1. TypeOK
    <3>1. ex \in [Attempts -> Exercise]
      BY ScoreTypes DEF Init
    <3>2. review \in [Attempts -> Shown]
      BY DEF Init, Shown
    <3>3. req \in [Reqs -> Req \cup {Idle}]
      BY DEF Init
    <3>4. faults \in 0..MaxFaults
      BY DEF Init
    <3> QED BY <3>1, <3>2, <3>3, <3>4 DEF Init, TypeOK
  <2>2. Rows /\ SpokenIsReviewed
    BY DEF Init, Rows, SpokenIsReviewed, NoRow
  <2>3. \A r \in Reqs : req[r].pc = "idle"
    BY DEF Init, Idle
  <2>4. Starts /\ Apart /\ Submits /\ Tasks
    BY <2>3 DEF Starts, Apart, Starting, Submits, Tasks, StartSteps,
                SubmitSteps, TalkSteps, TaskSteps
  <2> QED BY <2>1, <2>2, <2>4 DEF IInv
<1>2. IInv /\ [Next]_vars => IInv'
  <2> SUFFICES ASSUME IInv, [Next]_vars PROVE IInv'
    OBVIOUS
  <2>1. CASE UNCHANGED vars
    BY <2>1 DEF vars, history, IInv, TypeOK, Rows, Starts, Apart, Starting,
                Submits, Tasks, SpokenIsReviewed
  <2>2. ASSUME NEW r \in Reqs,
               AskStart(r) \/ AskSubmit(r) \/ Step(r) \/ Dies(r)
        PROVE  IInv'
    BY <2>2, TypeStep, RowsStep, StartsStep, ApartStep, SubmitsStep, TasksStep
    DEF IInv
  <2> QED BY <2>1, <2>2, OutsideStep DEF Next
<1> QED BY <1>1, <1>2, PTL DEF Spec

(* Types are kept: in particular a late write never leaves a score or a    *)
(* status the table does not know.                                         *)
THEOREM TypeCorrect == Spec => []TypeOK
<1>1. IInv => TypeOK
  BY DEF IInv
<1> QED BY <1>1, InvCorrect, PTL

(* However starts, submissions and looks overlap and die, an exercise that *)
(* was spoken is completed only with a review of what was said.            *)
THEOREM SpokenIsReviewedCorrect == Spec => []SpokenIsReviewed
<1>1. IInv => SpokenIsReviewed
  BY DEF IInv
<1> QED BY <1>1, InvCorrect, PTL

-----------------------------------------------------------------------------
(* A submitted exercise stays                                              *)

(* What CompletedStays says of one exercise.                               *)
Stays(a) ==
  a \notin twice' /\ ex[a].status = "completed" =>
    /\ [ex'[a] EXCEPT !.score = Unscored] = [ex[a] EXCEPT !.score = Unscored]
    /\ Skill[ex[a].hub] = "writing" /\ ex[a].score.shows = "estimate"
         => ex'[a] = ex[a]

(* A step of a request leaves a submitted exercise as it is.               *)
LEMMA StaysStep ==
  ASSUME IInv, NEW r \in Reqs, NEW a \in Attempts,
         AskStart(r) \/ AskSubmit(r) \/ Step(r) \/ Dies(r)
  PROVE  Stays(a)
<1> USE DEF IInv, TypeOK, Exercise, history, At, Stays
<1>1. CASE AskStart(r)
  BY <1>1 DEF AskStart
<1>2. CASE AskSubmit(r)
  BY <1>2 DEF AskSubmit
<1>3. CASE ReadPrior(r)
  BY <1>3 DEF ReadPrior
<1>4. CASE AbandonPrior(r)
  BY <1>4, ActiveReq DEF AbandonPrior, Abandoned, Running
<1>5. CASE AbandonTalks(r)
  BY <1>5 DEF AbandonTalks
<1>6. CASE InsertExercise(r)
  BY <1>6, ActiveReq DEF InsertExercise, Starts, StartSteps, TalkSteps
<1>7. CASE FindInSlot(r)
  BY <1>7 DEF FindInSlot
<1>8. CASE FreeSlot(r)
  BY <1>8 DEF FreeSlot
<1>9. CASE InsertTalk(r)
  BY <1>9 DEF InsertTalk
<1>10. CASE LinkTalk(r)
  BY <1>10, ActiveReq DEF LinkTalk, Starts, TalkSteps
<1>11. CASE ReadExercise(r)
  BY <1>11 DEF ReadExercise
<1>12. CASE ReviewTalk(r)
  BY <1>12 DEF ReviewTalk
<1>13. CASE ScoreExercise(r)
  BY <1>13, ActiveReq DEF ScoreExercise, Submits, SubmitSteps
<1>14. CASE StoreExercise(r)
  BY <1>14, ActiveReq DEF StoreExercise
<1>15. CASE EvaluateEssay(r)
  BY <1>15 DEF EvaluateEssay
<1>16. CASE StoreEstimate(r)
  <2>1. PICK score : ex' = [ex EXCEPT ![req[r].att].score = score]
    BY <1>16 DEF StoreEstimate
  <2>2. req[r].att \notin twice => ex[req[r].att].score.shows # "estimate"
    BY <1>16 DEF StoreEstimate, Tasks, TaskSteps
  <2> QED BY <1>16, <2>1, <2>2 DEF StoreEstimate
<1>17. CASE SyncScore(r)
  BY <1>17, ActiveReq DEF SyncScore, Submits, SubmitSteps
<1>18. CASE Dies(r)
  BY <1>18 DEF Dies
<1> QED BY <1>1, <1>2, <1>3, <1>4, <1>5, <1>6, <1>7, <1>8, <1>9, <1>10, <1>11,
           <1>12, <1>13, <1>14, <1>15, <1>16, <1>17, <1>18 DEF Step

(* A submitted exercise stays as it is but for its score, and its estimate *)
(* is not taken back, unless two submissions of it overlap.                *)
THEOREM CompletedStaysCorrect == Spec => CompletedStays
<1>1. IInv /\ [Next]_vars => [\A a \in Attempts : Stays(a)]_vars
  <2> SUFFICES ASSUME IInv, Next, NEW a \in Attempts PROVE Stays(a)
    OBVIOUS
  <2>1. ASSUME NEW b \in Attempts,
               Finalize(b) \/ TalkEvaluated(b) \/ \E r \in Reqs : Look(r, b)
        PROVE  Stays(a)
    BY <2>1 DEF Finalize, TalkEvaluated, Look, Stays
  <2> QED BY <2>1, StaysStep DEF Next
<1>2. (\A a \in Attempts : Stays(a)) =>
        \A a \in Attempts \ twice' : ex[a].status = "completed" =>
          /\ [ex'[a] EXCEPT !.score = Unscored]
               = [ex[a] EXCEPT !.score = Unscored]
          /\ Skill[ex[a].hub] = "writing" /\ ex[a].score.shows = "estimate"
               => ex'[a] = ex[a]
  BY DEF Stays
<1> QED BY <1>1, <1>2, InvCorrect, PTL DEF Spec, CompletedStays

HIDE HubAssumption
USE StudyAssumption

-----------------------------------------------------------------------------
(* The study plan: the n-th hub of a set                                   *)

(* A set of natural numbers that is not empty has a least element.         *)
LEMMA LeastNumber ==
  ASSUME NEW S \in SUBSET Nat, S # {}
  PROVE  \E m \in S : \A x \in S : m <= x
<1> DEFINE Upto(m) == {x \in S : x <= m}
           Cuts    == {Upto(m) : m \in S}
<1>1. Cuts \subseteq FiniteSubsetsOf(Nat) /\ Cuts # {}
  <2>1. \A m \in S : Upto(m) \in SUBSET Nat /\ IsFiniteSet(Upto(m))
    BY FS_BoundedSetOfNaturals
  <2>2. \A m \in S : Upto(m) \in FiniteSubsetsOf(Nat)
    BY <2>1 DEF FiniteSubsetsOf
  <2> HIDE DEF Upto
  <2> QED BY <2>2
<1>2. PICK C \in Cuts :
        \A D \in Cuts : <<D, C>> \notin StrictSubsetOrdering(Nat)
  BY <1>1, WFMin, FS_StrictSubsetOrderingWellFounded, Zenon
<1>3. PICK m \in S : C = Upto(m)
  OBVIOUS
<1>4. ASSUME NEW x \in S, x < m PROVE FALSE
  <2>1. x \in Nat /\ m \in Nat /\ x <= m /\ ~(m <= x)
    BY <1>4
  <2>2. \A y \in Nat : y <= x => y <= m
    BY <2>1
  <2>3. /\ Upto(x) \subseteq Upto(m)
        /\ m \notin Upto(x)
        /\ m \in Upto(m)
    <3>1. \A y \in S : y \in Nat
      OBVIOUS
    <3>2. m <= m
      BY <2>1
    <3> QED BY <2>1, <2>2, <3>1, <3>2
  <2>4. <<Upto(x), Upto(m)>> \in StrictSubsetOrdering(Nat)
    BY <2>3 DEF StrictSubsetOrdering
  <2> QED BY <1>2, <1>3, <2>4
<1> QED BY <1>4

LEMMA FiniteHubs ==
  ASSUME NEW S \in SUBSET BankHubs
  PROVE  IsFiniteSet(S) /\ Cardinality(S) \in Nat /\ S \subseteq Nat
<1>1. IsFiniteSet(BankHubs) /\ BankHubs \subseteq Nat
  BY FS_Interval DEF BankHubs
<1> QED BY <1>1, FS_Subset, FS_CardinalityType

(* Every rank below the number of hubs in a set is the rank of one of them.*)
LEMMA RankTaken ==
  ASSUME NEW S \in SUBSET BankHubs, NEW i \in Nat, i < Cardinality(S)
  PROVE  \E h \in S : Cardinality({g \in S : g < h}) = i
<1> DEFINE Lower(h) == {g \in S : g < h}
           Free     == {k \in Nat : /\ k < Cardinality(S)
                                    /\ \A h \in S : Cardinality(Lower(h)) # k}
<1>1. S \subseteq Nat /\ IsFiniteSet(S) /\ Cardinality(S) \in Nat
  BY FiniteHubs
<1>2. SUFFICES ASSUME Free # {} PROVE FALSE
  OBVIOUS
<1>3. PICK k \in Free : \A x \in Free : k <= x
  <2>1. Free \in SUBSET Nat
    OBVIOUS
  <2> HIDE DEF Free
  <2> QED BY <1>2, <2>1, LeastNumber
<1>4. k \in Nat /\ k < Cardinality(S) /\ \A h \in S : Cardinality(Lower(h)) # k
  OBVIOUS
<1>5. ASSUME k = 0 PROVE FALSE
  <2>1. S # {}
    BY <1>4, <1>5, FS_EmptySet
  <2>2. PICK h \in S : \A x \in S : h <= x
    BY <1>1, <2>1, LeastNumber
  <2>3. Lower(h) = {}
    <3>1. \A x \in S : ~(x < h)
      BY <1>1, <2>2
    <3> QED BY <3>1
  <2> QED BY <1>4, <1>5, <2>3, FS_EmptySet
<1>6. ASSUME k > 0 PROVE FALSE
  <2>1. k - 1 \in Nat /\ k - 1 < Cardinality(S) /\ ~(k <= k - 1)
    BY <1>1, <1>4, <1>6
  <2>2. PICK h \in S : Cardinality(Lower(h)) = k - 1
    <3>1. k - 1 \notin Free
      BY <1>3, <2>1
    <3> QED BY <2>1, <3>1
  <2> DEFINE Higher == {g \in S : h < g}
  <2>3. IsFiniteSet(Lower(h)) /\ h \notin Lower(h)
    <3>1. Lower(h) \subseteq S /\ ~(h < h)
      BY <1>1
    <3> QED BY <1>1, <3>1, FS_Subset
  <2>4. Cardinality(Lower(h) \cup {h}) = k
    <3> HIDE DEF Lower
    <3>1. Cardinality(Lower(h) \cup {h}) = Cardinality(Lower(h)) + 1
      BY <2>3, FS_AddElement
    <3> QED BY <1>4, <2>2, <3>1
  <2>5. Higher # {}
    <3>1. ASSUME Higher = {} PROVE FALSE
      <4>1. \A g \in S : g < h \/ g = h
        BY <1>1, <3>1
      <4>2. S = Lower(h) \cup {h}
        BY <4>1
      <4> QED BY <1>4, <2>4, <4>2
    <3> QED BY <3>1
  <2>6. PICK g \in Higher : \A x \in Higher : g <= x
    <3>1. Higher \in SUBSET Nat
      BY <1>1
    <3> HIDE DEF Higher
    <3> QED BY <2>5, <3>1, LeastNumber
  <2>7. g \in S /\ Lower(g) = Lower(h) \cup {h}
    <3>1. g \in S /\ h < g /\ g \in Nat /\ h \in Nat
      BY <1>1
    <3>2. \A x \in S : x < g <=> (x < h \/ x = h)
      <4> SUFFICES ASSUME NEW x \in S PROVE x < g <=> (x < h \/ x = h)
        OBVIOUS
      <4>1. x \in Nat
        BY <1>1
      <4>2. h < x => g <= x
        BY <2>6
      <4> QED BY <3>1, <4>1, <4>2
    <3> QED BY <3>1, <3>2
  <2> QED BY <1>4, <2>4, <2>7
<1> QED BY <1>4, <1>5, <1>6

LEMMA NthIn ==
  ASSUME NEW S \in SUBSET BankHubs, NEW i \in Nat, i < Cardinality(S)
  PROVE  /\ Nth(S, i) \in S
         /\ Cardinality({g \in S : g < Nth(S, i)}) = i
BY RankTaken DEF Nth

LEMMA LeastIn ==
  ASSUME NEW S \in SUBSET BankHubs, S # {}
  PROVE  Least(S) \in S
<1>1. 0 < Cardinality(S)
  BY FiniteHubs, FS_EmptySet
<1> QED BY <1>1, NthIn DEF Least

(* A repeat is one of the published hubs.                                  *)
LEMMA SoftRepeatIn ==
  ASSUME published \subseteq BankHubs, published # {}, NEW offset \in Nat,
         NEW last
  PROVE  SoftRepeat(offset, last) \in published
<1> DEFINE n == Cardinality(published)
<1>1. n \in Nat /\ n > 0
  BY FiniteHubs, FS_EmptySet
<1>2. \A k \in Nat : Nth(published, k % n) \in published
  <2> SUFFICES ASSUME NEW k \in Nat PROVE Nth(published, k % n) \in published
    OBVIOUS
  <2> HIDE DEF n
  <2>1. k % n \in Nat /\ k % n < n
    BY <1>1
  <2> QED BY <2>1, NthIn DEF n
<1>3. offset + 1 \in Nat
  OBVIOUS
<1> QED BY <1>2, <1>3 DEF SoftRepeat

(* The hubs a build hands out are unused ones, a different one each day.   *)
LEMMA Slots ==
  ASSUME published \subseteq BankHubs, NEW view, NEW start \in Days
  PROVE  /\ \A d \in Days : Slot(view, start, d) \in Unused(view) \cup {None}
         /\ \A d, e \in Days :
              d # e /\ Slot(view, start, d) = Slot(view, start, e)
                => Slot(view, start, d) = None
<1>1. Unused(view) \in SUBSET BankHubs /\ None \notin Unused(view)
  BY DEF Unused
<1>2. \A d \in Days : d \in Nat /\ start \in Nat
  BY DEF Days
<1>3. Cardinality(Unused(view)) \in Nat
  BY <1>1, FiniteHubs
<1>4. ASSUME NEW d \in Days, Slot(view, start, d) # None
      PROVE  /\ Slot(view, start, d) \in Unused(view)
             /\ d - start = Cardinality({g \in Unused(view) :
                                           g < Slot(view, start, d)})
  <2>1. d >= start /\ d - start < Cardinality(Unused(view))
    BY <1>4 DEF Slot
  <2>2. d - start \in Nat
    BY <1>2, <2>1
  <2>3. Slot(view, start, d) = Nth(Unused(view), d - start)
    BY <2>1 DEF Slot
  <2> QED BY <1>1, <2>1, <2>2, <2>3, NthIn
<1>5. ASSUME NEW d \in Days, NEW e \in Days, d # e,
             Slot(view, start, d) = Slot(view, start, e)
      PROVE  Slot(view, start, d) = None
  <2>1. ASSUME Slot(view, start, d) # None PROVE FALSE
    <3>1. d - start = e - start
      BY <1>4, <1>5, <2>1
    <3> QED BY <1>2, <1>5, <3>1
  <2> QED BY <2>1
<1> QED BY <1>4, <1>5

-----------------------------------------------------------------------------
(* The study plan: filling the days one after the other                    *)

(* The walk through the days is defined: each day follows the one before.  *)
LEMMA WalkSteps ==
  ASSUME NEW plan, NEW listed
  PROVE  \E walk :
           /\ walk[0] = WalkStart(plan, listed)
           /\ \A d \in Days : walk[d] = WalkDay(plan, walk[d - 1], d)
           /\ Walked(plan, listed) = walk[NumDays]
<1> DEFINE Day(w, d) == IF d = 0 THEN WalkStart(plan, listed)
                        ELSE WalkDay(plan, w[d - 1], d)
           Walks(w, n) == w = [d \in 0..n |-> Day(w, d)]
           Stuck == {n \in Nat : ~\E w : Walks(w, n)}
<1>1. \A n \in Nat : \E w : Walks(w, n)
  <2>1. SUFFICES ASSUME Stuck # {} PROVE FALSE
    OBVIOUS
  <2>2. PICK n \in Stuck : \A x \in Stuck : n <= x
    <3>1. Stuck \in SUBSET Nat
      OBVIOUS
    <3> HIDE DEF Stuck
    <3> QED BY <2>1, <3>1, LeastNumber
  <2>3. n \in Nat /\ ~\E w : Walks(w, n)
    OBVIOUS
  <2>4. ASSUME n = 0 PROVE FALSE
    <3> DEFINE w == [d \in 0..0 |-> WalkStart(plan, listed)]
    <3>1. \A d \in 0..0 : d = 0
      OBVIOUS
    <3>2. \A d \in 0..0 : Day(w, d) = WalkStart(plan, listed)
      BY <3>1
    <3> HIDE DEF Day
    <3>3. w = [d \in 0..0 |-> Day(w, d)]
      BY <3>2
    <3>4. Walks(w, n)
      BY <2>4, <3>3, Zenon
    <3> QED BY <2>3, <3>4
  <2>5. ASSUME n # 0 PROVE FALSE
    <3>1. n - 1 \in Nat /\ ~(n <= n - 1) /\ 0..n = 0..(n - 1) \cup {n}
          /\ n \notin 0..(n - 1)
      BY <2>3, <2>5
    <3>2. n - 1 \notin Stuck
      BY <2>2, <3>1
    <3>3. PICK v : Walks(v, n - 1)
      BY <3>1, <3>2
    <3> DEFINE w == [d \in 0..n |-> IF d = n THEN Day(v, n) ELSE v[d]]
    <3>4. \A d \in 0..(n - 1) : w[d] = v[d] /\ v[d] = Day(v, d)
      <4> SUFFICES ASSUME NEW d \in 0..(n - 1)
                   PROVE  w[d] = v[d] /\ v[d] = Day(v, d)
        OBVIOUS
      <4> HIDE DEF Day
      <4>1. d \in 0..n /\ d # n
        BY <3>1
      <4>2. v = [x \in 0..(n - 1) |-> Day(v, x)]
        BY <3>3
      <4> QED BY <4>1, <4>2
    <3>5. \A d \in 0..n : Day(w, d) = Day(v, d)
      <4> SUFFICES ASSUME NEW d \in 0..n, d # 0 PROVE w[d - 1] = v[d - 1]
        OBVIOUS
      <4>1. d - 1 \in 0..(n - 1)
        BY <2>3
      <4> QED BY <3>4, <4>1
    <3>6. \A d \in 0..n : w[d] = Day(w, d)
      <4> SUFFICES ASSUME NEW d \in 0..n PROVE w[d] = Day(v, d)
        BY <3>5
      <4> HIDE DEF Day
      <4>1. CASE d = n
        BY <4>1
      <4>2. CASE d # n
        BY <3>1, <3>4, <4>2
      <4> QED BY <4>1, <4>2
    <3>7. w = [d \in 0..n |-> Day(w, d)]
      <4> HIDE DEF Day
      <4> QED BY <3>6
    <3>8. Walks(w, n)
      BY <3>7, Zenon
    <3> QED BY <2>3, <3>8
  <2> QED BY <2>4, <2>5
<1> DEFINE walk == CHOOSE w : Walks(w, NumDays)
<1>2. NumDays \in Nat
  OBVIOUS
<1>3. Walks(walk, NumDays)
  <2>1. \E w : Walks(w, NumDays)
    BY <1>1, <1>2
  <2> HIDE DEF Walks
  <2> QED BY <2>1
<1>4. Walked(plan, listed) = walk[NumDays]
  BY DEF Walked
<1>5. walk[0] = WalkStart(plan, listed)
      /\ \A d \in Days : walk[d] = WalkDay(plan, walk[d - 1], d)
  <2> HIDE DEF walk
  <2>1. \A d \in 0..NumDays : walk[d] = Day(walk, d)
    <3> HIDE DEF Day
    <3>1. walk = [d \in 0..NumDays |-> Day(walk, d)]
      BY <1>3
    <3> QED BY <3>1
  <2>2. 0 \in 0..NumDays /\ \A d \in Days : d \in 0..NumDays /\ d # 0
    BY <1>2 DEF Days
  <2> QED BY <2>1, <2>2
<1> QED BY <1>4, <1>5

(* What holds of a plan with respect to the hubs that are known: it has no *)
(* other hub, and repeats one only if every steady hub is known.           *)
SoundIn(plan, L) ==
  /\ HubsOf(plan) \subseteq L
  /\ Repeats(plan) => Steady \subseteq L

(* The walk after n days.  L is what the ledger and the progress will   *)
(* hold, the claims of the walk apart.                                     *)
WalkTyped(s) ==
  /\ s.hub \in [Days -> BankHubs \cup {None}]
  /\ s.last \in BankHubs \cup {None} /\ s.filled \in BOOLEAN
  /\ s.claims \subseteq BankHubs /\ s.orphans \subseteq BankHubs
  /\ s.taken \subseteq BankHubs

WalkKnown(s, L) ==
  /\ s.orphans \subseteq L \cap published
  /\ s.claims \subseteq s.taken /\ s.taken \subseteq L \cup s.claims
  /\ HubsOf(s) \subseteq s.taken
  /\ s.orphans \cap HubsOf(s) = {}
  /\ Repeats(s) => Steady \subseteq L \cup s.claims

WalkKeeps(plan, s) ==
  \A d \in Days : d < plan.start \/ Preserved(plan, d) =>
                    s.hub[d] = plan.hub[d]

WalkOpen(plan, s, n) ==
  published # {} =>
    \A d \in Days : plan.start <= d /\ today <= d /\ d <= n =>
                      s.hub[d] \in published

WalkFresh(plan, s) ==
  /\ Used(HubsOf(plan)) \subseteq s.taken
  /\ s.claims \cap Used(HubsOf(plan)) = {} /\ s.claims \subseteq published

WalkInv(plan, s, n, L) ==
  /\ WalkTyped(s) /\ WalkKnown(s, L) /\ WalkKeeps(plan, s)
  /\ WalkOpen(plan, s, n) /\ WalkFresh(plan, s)
  /\ DOMAIN s = {"hub", "last", "filled", "claims", "orphans", "taken"}

(* The hub for an empty day: an orphan, else an unused hub, else a         *)
(* published one, else none.                                               *)
LEMMA PickedCases ==
  ASSUME PlanTypeOK, NEW plan \in Plan, NEW s, WalkTyped(s),
         NEW d \in Days, d >= plan.start, NEW free, free = published \ s.taken
  PROVE  \/ published = {} /\ Picked(plan, s, free, d) = None
         \/ Picked(plan, s, free, d) \in s.orphans
         \/ s.orphans = {} /\ Picked(plan, s, free, d) \in free
         \/ /\ s.orphans = {} /\ free = {}
            /\ Picked(plan, s, free, d) \in published
<1>1. published \subseteq BankHubs /\ free \in SUBSET BankHubs
      /\ s.orphans \in SUBSET BankHubs
  BY DEF PlanTypeOK, WalkTyped
<1>2. CASE s.orphans # {}
  BY <1>1, <1>2, LeastIn DEF Picked
<1>3. CASE s.orphans = {} /\ free # {}
  BY <1>1, <1>3, LeastIn DEF Picked
<1>4. CASE s.orphans = {} /\ free = {} /\ published # {}
  <2>1. d - plan.start \in Nat
    BY DEF Days, Plan
  <2>2. Picked(plan, s, free, d) = SoftRepeat(d - plan.start, s.last)
    BY <1>4 DEF Picked
  <2> QED BY <1>1, <1>4, <2>1, <2>2, SoftRepeatIn
<1>5. CASE s.orphans = {} /\ free = {} /\ published = {}
  BY <1>5 DEF Picked
<1> QED BY <1>2, <1>3, <1>4, <1>5

LEMMA WalkStarts ==
  ASSUME PlanTypeOK, NEW plan \in Plan, NEW listed \in SUBSET BankHubs,
         NEW L, ledger \cup progress \cup listed \subseteq L,
         HubsOf(plan) \subseteq listed, Repeats(plan) => Steady \subseteq L
  PROVE  WalkInv(plan, WalkStart(plan, listed), 0, L)
<1> DEFINE s == WalkStart(plan, listed)
<1>1. /\ s.hub = plan.hub /\ s.last = None /\ s.filled = FALSE
      /\ s.claims = {} /\ s.orphans = Orphans(listed)
      /\ s.taken = Used(listed)
      /\ DOMAIN s = {"hub", "last", "filled", "claims", "orphans", "taken"}
  BY DEF WalkStart
<1>2. /\ HubsOf(s) = HubsOf(plan) /\ Repeats(s) = Repeats(plan)
  BY <1>1 DEF HubsOf, Repeats
<1> HIDE DEF s
<1>3. WalkTyped(s)
  BY <1>1 DEF PlanTypeOK, Plan, WalkTyped, Orphans, Used
<1>4. WalkKnown(s, L)
  <2>1. s.orphans \subseteq L \cap published
    BY <1>1 DEF Orphans
  <2>2. s.claims \subseteq s.taken /\ s.taken \subseteq L \cup s.claims
    BY <1>1 DEF Used
  <2>3. HubsOf(s) \subseteq s.taken
    BY <1>1, <1>2 DEF Used
  <2>4. s.orphans \cap HubsOf(s) = {}
    BY <1>1, <1>2 DEF Orphans
  <2>5. Repeats(s) => Steady \subseteq L \cup s.claims
    BY <1>2
  <2> QED BY <2>1, <2>2, <2>3, <2>4, <2>5 DEF WalkKnown
<1>5. WalkKeeps(plan, s)
  BY <1>1 DEF WalkKeeps
<1>6. WalkOpen(plan, s, 0)
  BY DEF WalkOpen, Days
<1>7. WalkFresh(plan, s)
  BY <1>1 DEF WalkFresh, Used
<1> QED BY <1>1, <1>3, <1>4, <1>5, <1>6, <1>7 DEF WalkInv, s

(* Giving a day a hub.                                                     *)
LEMMA WalkFills ==
  ASSUME PlanTypeOK, Steady \subseteq published, NEW plan \in Plan, NEW L,
         NEW d \in Days, NEW s, WalkInv(plan, s, d - 1, L),
         ~(d < plan.start), ~Preserved(plan, d)
  PROVE  WalkInv(plan, WalkDay(plan, s, d), d, L)
<1>1. PICK free : free = published \ s.taken
  OBVIOUS
<1>2. PICK hub : hub = Picked(plan, s, free, d)
  OBVIOUS
<1>3. PICK t : t = WalkDay(plan, s, d)
  OBVIOUS
<1>4. t = [hub     |-> [s.hub EXCEPT ![d] = hub],
           last    |-> IF hub = None THEN s.last ELSE hub,
           filled  |-> s.filled \/ hub /= None,
           claims  |-> s.claims \cup Claims(free, hub),
           orphans |-> s.orphans \ {hub},
           taken   |-> s.taken \cup ({hub} \ {None})]
  BY <1>1, <1>2, <1>3 DEF WalkDay
<1>5. /\ t.hub = [s.hub EXCEPT ![d] = hub]
      /\ t.last = IF hub = None THEN s.last ELSE hub
      /\ t.claims = s.claims \cup (free \cap {hub})
      /\ t.orphans = s.orphans \ {hub}
      /\ t.taken = s.taken \cup ({hub} \ {None})
      /\ DOMAIN t = {"hub", "last", "filled", "claims", "orphans", "taken"}
  BY <1>4 DEF Claims
<1>6. t.filled \in BOOLEAN
  BY <1>4
<1>7. /\ WalkTyped(s) /\ WalkKnown(s, L) /\ WalkKeeps(plan, s)
      /\ WalkOpen(plan, s, d - 1)
  BY DEF WalkInv
<1>8. \/ published = {} /\ hub = None
      \/ hub \in s.orphans
      \/ s.orphans = {} /\ hub \in free
      \/ s.orphans = {} /\ free = {} /\ hub \in published
  <2>1. d >= plan.start
    BY DEF Plan, Days
  <2> QED BY <1>1, <1>2, <1>7, <2>1, PickedCases
<1>9. hub \in BankHubs \cup {None} /\ free \subseteq BankHubs
      /\ None \notin BankHubs
  BY <1>1, <1>7, <1>8 DEF WalkTyped, PlanTypeOK
<1>10. WalkTyped(t)
  BY <1>5, <1>6, <1>7, <1>9 DEF WalkTyped
<1>11. /\ s.hub \in [Days -> BankHubs \cup {None}]
       /\ t.hub[d] = hub /\ \A e \in Days : e # d => t.hub[e] = s.hub[e]
  BY <1>5, <1>7 DEF WalkTyped
<1>12. HubsOf(t) \subseteq HubsOf(s) \cup ({hub} \ {None})
  BY <1>11 DEF HubsOf
<1>13. hub \in published \cap s.taken \/ hub = None \/ hub \in free
  <2>1. s.orphans \subseteq published
    BY <1>7 DEF WalkKnown
  <2> QED BY <1>1, <1>8, <2>1
<1>14. WalkKnown(t, L)
  <2>1. /\ s.orphans \subseteq L \cap published
        /\ s.claims \subseteq s.taken /\ s.taken \subseteq L \cup s.claims
        /\ HubsOf(s) \subseteq s.taken
        /\ s.orphans \cap HubsOf(s) = {}
        /\ Repeats(s) => Steady \subseteq L \cup s.claims
    BY <1>7 DEF WalkKnown
  <2>2. t.orphans \subseteq L \cap published
    BY <1>5, <2>1
  <2>3. t.claims \subseteq t.taken
    BY <1>5, <1>9, <2>1
  <2>4. hub # None => hub \in L \cup t.claims
    <3>1. CASE hub \in s.orphans
      BY <2>1, <3>1
    <3>2. CASE hub \in free
      BY <1>5, <3>2
    <3>3. CASE free = {} /\ hub \in published
      <4>1. hub \in s.taken
        BY <1>1, <3>3
      <4> QED BY <1>5, <2>1, <4>1
    <3> QED BY <1>8, <3>1, <3>2, <3>3
  <2>5. t.taken \subseteq L \cup t.claims
    BY <1>5, <2>1, <2>4
  <2>6. HubsOf(t) \subseteq t.taken
    BY <1>5, <1>12, <2>1
  <2>7. t.orphans \cap HubsOf(t) = {}
    BY <1>5, <1>12, <2>1
  <2>8. ASSUME Repeats(t) PROVE Steady \subseteq L \cup t.claims
    <3>1. CASE Repeats(s)
      BY <1>5, <2>1, <3>1
    <3>2. CASE ~Repeats(s)
      <4>1. hub # None /\ hub \in HubsOf(s)
        <5>1. PICK x \in Days, y \in Days :
                x # y /\ t.hub[x] = t.hub[y] /\ t.hub[x] # None
          BY <2>8 DEF Repeats
        <5>2. x = d \/ y = d
          <6>1. ASSUME x # d, y # d PROVE FALSE
            <7>1. s.hub[x] = s.hub[y] /\ s.hub[x] # None
              BY <1>11, <5>1, <6>1
            <7> QED BY <3>2, <5>1, <7>1 DEF Repeats
          <6> QED BY <6>1
        <5>3. PICK z \in Days : z # d /\ s.hub[z] = hub /\ hub # None
          BY <1>11, <5>1, <5>2
        <5> QED BY <5>3 DEF HubsOf
      <4>2. hub \in s.taken /\ hub \notin s.orphans /\ hub \notin free
        BY <1>1, <2>1, <4>1
      <4>3. free = {}
        BY <1>8, <4>1, <4>2
      <4>4. published \subseteq s.taken
        BY <1>1, <4>3
      <4> QED BY <1>5, <2>1, <4>4
    <3> QED BY <3>1, <3>2
  <2> QED BY <2>2, <2>3, <2>5, <2>6, <2>7, <2>8 DEF WalkKnown
<1>15. WalkKeeps(plan, t)
  BY <1>7, <1>11 DEF WalkKeeps
<1>16. WalkOpen(plan, t, d)
  <2> SUFFICES ASSUME published # {}, NEW e \in Days, plan.start <= e,
                      today <= e, e <= d
               PROVE  t.hub[e] \in published
    BY DEF WalkOpen
  <2>1. CASE e = d
    <3>1. s.orphans \subseteq published /\ free \subseteq published
      BY <1>1, <1>7 DEF WalkKnown
    <3> QED BY <1>8, <1>11, <2>1, <3>1
  <2>2. CASE e # d
    <3>1. e <= d - 1
      BY <2>2 DEF Days
    <3> QED BY <1>7, <1>11, <2>2, <3>1 DEF WalkOpen
  <2> QED BY <2>1, <2>2
<1>17. WalkFresh(plan, t)
  <2>1. WalkFresh(plan, s)
    BY DEF WalkInv
  <2> QED BY <1>1, <1>5, <2>1 DEF WalkFresh
<1> QED BY <1>3, <1>5, <1>10, <1>14, <1>15, <1>16, <1>17 DEF WalkInv

LEMMA WalkGoesOn ==
  ASSUME PlanTypeOK, Steady \subseteq published, NEW plan \in Plan, NEW L,
         NEW d \in Days, NEW s, WalkInv(plan, s, d - 1, L)
  PROVE  WalkInv(plan, WalkDay(plan, s, d), d, L)
<1>1. CASE d < plan.start
  <2>1. WalkDay(plan, s, d) = s
    BY <1>1 DEF WalkDay
  <2>2. WalkOpen(plan, s, d)
    <3>1. \A e \in Days : ~(plan.start <= e /\ e <= d)
      BY <1>1 DEF Days, Plan
    <3> QED BY <3>1 DEF WalkOpen
  <2> QED BY <2>1, <2>2 DEF WalkInv
<1>2. CASE ~(d < plan.start) /\ Preserved(plan, d)
  <2>1. PICK t : t = WalkDay(plan, s, d)
    OBVIOUS
  <2>2. PICK hub : hub = plan.hub[d]
    OBVIOUS
  <2>3. t = [s EXCEPT !.last = IF hub = None THEN @ ELSE hub]
    BY <1>2, <2>1, <2>2 DEF WalkDay
  <2>4. hub \in BankHubs \cup {None}
    BY <2>2 DEF Plan
  <2>5. WalkTyped(s) /\ DOMAIN s = {"hub", "last", "filled", "claims",
                                    "orphans", "taken"}
    BY DEF WalkInv
  <2>6. /\ t.hub = s.hub /\ t.filled = s.filled /\ t.claims = s.claims
        /\ t.orphans = s.orphans /\ t.taken = s.taken
        /\ DOMAIN t = DOMAIN s
    BY <2>3
  <2>7. t.last \in BankHubs \cup {None}
    BY <2>3, <2>4, <2>5 DEF WalkTyped
  <2>8. WalkTyped(t)
    BY <2>5, <2>6, <2>7, Zenon DEF WalkTyped
  <2>9. HubsOf(t) = HubsOf(s) /\ (Repeats(t) => Repeats(s))
    BY <2>6 DEF HubsOf, Repeats
  <2>10. WalkKnown(t, L)
    <3>1. WalkKnown(s, L)
      BY DEF WalkInv
    <3> QED BY <2>6, <2>9, <3>1 DEF WalkKnown
  <2>11. WalkKeeps(plan, t)
    BY <2>6 DEF WalkInv, WalkKeeps
  <2>12. WalkOpen(plan, t, d)
    <3> SUFFICES ASSUME published # {}, NEW e \in Days, plan.start <= e,
                        today <= e, e <= d
                 PROVE  s.hub[e] \in published
      BY <2>6 DEF WalkOpen
    <3>1. WalkOpen(plan, s, d - 1) /\ WalkKeeps(plan, s)
      BY DEF WalkInv
    <3>2. CASE e = d
      <4>1. ~(d < today) /\ s.hub[d] = plan.hub[d]
        BY <1>2, <3>1, <3>2 DEF WalkKeeps, Days, PlanTypeOK
      <4> QED BY <1>2, <3>2, <4>1 DEF Preserved
    <3>3. CASE e # d
      <4>1. e <= d - 1
        BY <3>3 DEF Days
      <4> QED BY <3>1, <4>1 DEF WalkOpen
    <3> QED BY <3>2, <3>3
  <2>13. WalkFresh(plan, t)
    BY <2>6 DEF WalkInv, WalkFresh
  <2> QED BY <2>1, <2>5, <2>6, <2>8, <2>10, <2>11, <2>12, <2>13 DEF WalkInv
<1>3. CASE ~(d < plan.start) /\ ~Preserved(plan, d)
  BY <1>3, WalkFills
<1> QED BY <1>1, <1>2, <1>3

(* Filling a sound plan: what is claimed in the walk is added to what is   *)
(* known, the plan stays sound, no published hub leaves its day, and while *)
(* anything is published every day from today on gets a published hub.     *)
LEMMA WalkIsSound ==
  ASSUME PlanTypeOK, Steady \subseteq published, NEW plan \in Plan,
         NEW listed \in SUBSET BankHubs,
         NEW L, ledger \cup progress \cup listed \subseteq L,
         HubsOf(plan) \subseteq listed, Repeats(plan) => Steady \subseteq L
  PROVE  WalkInv(plan, Walked(plan, listed), NumDays, L)
<1>1. PICK walk :
        /\ walk[0] = WalkStart(plan, listed)
        /\ \A d \in Days : walk[d] = WalkDay(plan, walk[d - 1], d)
        /\ Walked(plan, listed) = walk[NumDays]
  BY WalkSteps
<1> DEFINE Bad == {d \in 0..NumDays : ~WalkInv(plan, walk[d], d, L)}
<1>2. SUFFICES ASSUME Bad # {} PROVE FALSE
  <2>1. NumDays \in 0..NumDays
    OBVIOUS
  <2> QED BY <1>1, <2>1
<1>3. PICK d \in Bad : \A x \in Bad : d <= x
  <2>1. Bad \in SUBSET Nat
    OBVIOUS
  <2> HIDE DEF Bad
  <2> QED BY <1>2, <2>1, LeastNumber
<1>4. d \in 0..NumDays /\ ~WalkInv(plan, walk[d], d, L)
  OBVIOUS
<1>5. ASSUME d = 0 PROVE FALSE
  BY <1>1, <1>4, <1>5, WalkStarts
<1>6. ASSUME d # 0 PROVE FALSE
  <2>1. d \in Days /\ d - 1 \in 0..NumDays /\ ~(d <= d - 1)
    BY <1>4, <1>6 DEF Days
  <2>2. WalkInv(plan, walk[d - 1], d - 1, L)
    <3>1. d - 1 \notin Bad
      BY <1>3, <2>1
    <3> QED BY <2>1, <3>1
  <2>3. WalkInv(plan, WalkDay(plan, walk[d - 1], d), d, L)
    BY <2>1, <2>2, WalkGoesOn
  <2> QED BY <1>1, <1>4, <2>1, <2>3
<1> QED BY <1>5, <1>6
(* A plan that is sound for what is known stays so when more is known.     *)
LEMMA SoundGrows ==
  ASSUME NEW plan, NEW L, NEW M, L \subseteq M, SoundIn(plan, L)
  PROVE  SoundIn(plan, M)
BY DEF SoundIn

(* Soundness of a plan is a matter of its hubs alone.                      *)
LEMMA SoundByHubs ==
  ASSUME NEW plan, NEW other, plan.hub = other.hub, NEW L,
         SoundIn(other, L)
  PROVE  SoundIn(plan, L)
BY DEF SoundIn, HubsOf, Repeats

-----------------------------------------------------------------------------
(* The study plan: what replan and generate build                          *)

LEMMA NewHubsAre ==
  ASSUME PlanTypeOK, NEW view, NEW start \in Days
  PROVE  /\ NewHubs(view, start) \subseteq Unused(view)
         /\ \A d \in Days : Slot(view, start, d) \in
                              NewHubs(view, start) \cup {None}
         /\ Unused(view) \in SUBSET BankHubs
         /\ Unused(view) \cap HubsOf(view) = {}
<1>1. published \subseteq BankHubs
  BY DEF PlanTypeOK
<1>2. \A d \in Days : Slot(view, start, d) \in Unused(view) \cup {None}
  BY <1>1, Slots
<1>3. NewHubs(view, start) \subseteq Unused(view)
  BY <1>2 DEF NewHubs
<1>4. \A d \in Days : Slot(view, start, d) \in NewHubs(view, start) \cup {None}
  BY DEF NewHubs
<1> QED BY <1>1, <1>3, <1>4 DEF Unused

LEMMA MergedIsSound ==
  ASSUME PlanTypeOK, NEW view \in Plan, NEW by \in 0..MaxBuilds,
         NEW L, SoundIn(view, L)
  PROVE  /\ Merged(view, by) \in Plan
         /\ Merged(view, by).done = view.done
         /\ SoundIn(Merged(view, by), L \cup NewHubs(view, view.start))
<1> DEFINE new == NewHubs(view, view.start)
<1>1. PICK plan : plan = Merged(view, by)
  OBVIOUS
<1>2. view.start \in Days
  BY DEF Plan
<1>3. /\ new \subseteq Unused(view) /\ Unused(view) \in SUBSET BankHubs
      /\ Unused(view) \cap HubsOf(view) = {}
      /\ \A d \in Days : Slot(view, view.start, d) \in new \cup {None}
  BY <1>2, NewHubsAre
<1>4. \A d, e \in Days :
        d # e /\ Slot(view, view.start, d) = Slot(view, view.start, e)
          => Slot(view, view.start, d) = None
  BY <1>2, Slots DEF PlanTypeOK
<1> HIDE DEF new
<1>5. plan.hub = [d \in Days |-> IF d < today THEN view.hub[d]
                                 ELSE Slot(view, view.start, d)]
      /\ plan.done = view.done
  BY <1>1 DEF Merged, Plan
<1>6. plan \in Plan
  <2>1. \A d \in Days : view.hub[d] \in BankHubs \cup {None}
                        /\ Slot(view, view.start, d) \in BankHubs \cup {None}
    BY <1>3 DEF Plan
  <2>2. plan.hub \in [Days -> BankHubs \cup {None}]
    BY <1>5, <2>1
  <2>3. /\ plan = [view EXCEPT !.hub = plan.hub, !.built = by, !.at = 0]
        /\ 0 \in 0..MaxVersions
    BY <1>1, <1>5 DEF Merged
  <2> QED BY <2>2, <2>3 DEF Plan
<1>7. HubsOf(plan) \subseteq HubsOf(view) \cup new
  BY <1>3, <1>5 DEF HubsOf
<1>8. ASSUME Repeats(plan) PROVE Repeats(view)
  <2>1. PICK d \in Days, e \in Days :
          d # e /\ plan.hub[d] = plan.hub[e] /\ plan.hub[d] # None
    BY <1>8 DEF Repeats
  <2>2. d < today /\ e < today
    <3>1. ASSUME NEW x \in Days, NEW y \in Days, x < today, ~(y < today),
                 plan.hub[x] = plan.hub[y], plan.hub[x] # None
          PROVE  FALSE
      <4>1. plan.hub[x] = view.hub[x]
            /\ plan.hub[y] = Slot(view, view.start, y)
        BY <1>5, <3>1
      <4>2. plan.hub[x] \in HubsOf(view)
        BY <3>1, <4>1 DEF HubsOf
      <4> QED BY <1>3, <3>1, <4>1, <4>2
    <3>2. ASSUME ~(d < today), ~(e < today) PROVE FALSE
      BY <1>4, <1>5, <2>1, <3>2
    <3> QED BY <2>1, <3>1, <3>2
  <2>3. plan.hub[d] = view.hub[d] /\ plan.hub[e] = view.hub[e]
    BY <1>5, <2>2
  <2> QED BY <2>1, <2>3 DEF Repeats
<1>9. SoundIn(plan, L \cup new)
  BY <1>7, <1>8 DEF SoundIn
<1> QED BY <1>1, <1>5, <1>6, <1>9 DEF new

LEMMA GeneratedIsSound ==
  ASSUME PlanTypeOK, NEW view \in Plan, NEW by \in 0..MaxBuilds
  PROVE  /\ Generated(view, by) \in Plan
         /\ SoundIn(Generated(view, by), NewHubs(view, today))
<1> DEFINE new == NewHubs(view, today)
<1>1. PICK plan : plan = Generated(view, by)
  OBVIOUS
<1>2. today \in Days
  BY DEF PlanTypeOK
<1>3. /\ new \subseteq Unused(view) /\ Unused(view) \in SUBSET BankHubs
      /\ \A d \in Days : Slot(view, today, d) \in new \cup {None}
  BY <1>2, NewHubsAre
<1>4. \A d, e \in Days :
        d # e /\ Slot(view, today, d) = Slot(view, today, e)
          => Slot(view, today, d) = None
  BY <1>2, Slots DEF PlanTypeOK
<1> HIDE DEF new
<1>5. plan.hub = [d \in Days |-> Slot(view, today, d)]
  BY <1>1 DEF Generated
<1>6. plan \in Plan
  <2>1. plan.hub \in [Days -> BankHubs \cup {None}]
    BY <1>3, <1>5
  <2>2. (IF view.start = today THEN view.done ELSE {}) \subseteq Days
    BY DEF Plan
  <2>3. /\ plan = [hub |-> plan.hub,
                   done |-> IF view.start = today THEN view.done ELSE {},
                   start |-> today, built |-> by, at |-> 0]
        /\ 0 \in 0..MaxVersions
    BY <1>1, <1>5 DEF Generated
  <2> QED BY <1>2, <2>1, <2>2, <2>3 DEF Plan
<1>7. HubsOf(plan) \subseteq new
  BY <1>3, <1>5 DEF HubsOf
<1>8. ~Repeats(plan)
  BY <1>4, <1>5 DEF Repeats
<1>9. SoundIn(plan, new)
  BY <1>7, <1>8 DEF SoundIn
<1> QED BY <1>1, <1>6, <1>9 DEF new

-----------------------------------------------------------------------------
(* The study plan: the inductive invariant                                 *)

(* The hubs that are spoken for.                                           *)
Taken == ledger \cup progress

(* What the steps before have left in the work of a process: the day of a  *)
(* tick, which operations fill and write, and that filling a view, or      *)
(* merging a plan not taken from the cache, has left the ticks alone, and  *)
(* filling a view the published hubs as well.                              *)
WorkOK(w) ==
  /\ w.op \in {"tick", "untick"} => w.day \in Days
  /\ w.pc \in {"fill", "cache"} => w.op \in {"view", "replan", "generate"}
  /\ w.pc = "write" => w.op \in {"replan", "generate"}
  /\ w.pc = "fill" => ~w.hit
  /\ w.pc \in {"fill", "cache", "write"} /\ w.op # "generate" /\ ~w.hit =>
       w.plan.done = w.view.done
  /\ w.pc = "fill" /\ w.op = "view" =>
       /\ w.plan.built = w.view.built
       /\ \A d \in Days :
            w.view.hub[d] \in Steady => w.plan.hub[d] = w.view.hub[d]

WorkIn(w, L) ==
  WorkOK(w) /\ SoundIn(w.view, L) /\ SoundIn(w.plan, L)

WorksOK ==
  \A p \in Procs :
    procs[p] # NoWork =>
      /\ WorkIn(procs[p], Taken)
      /\ p \in fresh => procs[p].view = row

PlansOK ==
  /\ SoundIn(row, Taken)
  /\ cache # NoPlan => SoundIn(cache, Taken)

PlanInv ==
  /\ PlanTypeOK
  /\ used["builds"] <= MaxBuilds
  /\ Steady \subseteq published
  /\ PlansOK /\ WorksOK

LEMMA WorkTyped ==
  ASSUME PlanTypeOK, NEW p \in Procs, procs[p] # NoWork
  PROVE  procs[p] \in Work
BY DEF PlanTypeOK

LEMMA IdleOrNot ==
  ASSUME PlanTypeOK, NEW p \in Procs
  PROVE  IsAt(p, "idle") <=> procs[p] = NoWork
<1>1. procs[p] \in Work \cup {NoWork}
  BY DEF PlanTypeOK
<1>2. \A w \in Work : w.pc # "idle"
  BY DEF Work
<1>3. NoWork.pc = "idle"
  BY DEF NoWork
<1> QED BY <1>1, <1>2, <1>3 DEF IsAt

(* A step of one process: the others keep their work, and what they have   *)
(* read is still the row if they are among the fresh.                      *)
LEMMA OneWorks ==
  ASSUME PlanInv, Taken \subseteq Taken', NEW p \in Procs, NEW w,
         procs' = [procs EXCEPT ![p] = w],
         \/ w = NoWork
         \/ /\ w \in Work /\ WorkIn(w, Taken')
            /\ p \in fresh' => w.view = row',
         \A q \in fresh' \ {p} : q \in fresh /\ row' = row
  PROVE  /\ procs' \in [Procs -> Work \cup {NoWork}]
         /\ WorksOK'
<1>1. procs \in [Procs -> Work \cup {NoWork}]
  BY DEF PlanInv, PlanTypeOK
<1>2. procs' \in [Procs -> Work \cup {NoWork}]
  BY <1>1
<1>3. ASSUME NEW q \in Procs, procs'[q] # NoWork
      PROVE  /\ WorkIn(procs'[q], Taken')
             /\ q \in fresh' => procs'[q].view = row'
  <2>1. CASE q = p
    <3>1. procs'[q] = w
      BY <1>1, <2>1
    <3> QED BY <1>3, <2>1, <3>1
  <2>2. CASE q # p
    <3>1. procs'[q] = procs[q]
      BY <1>1, <2>2
    <3>2. /\ WorkIn(procs[q], Taken)
          /\ q \in fresh => procs[q].view = row
      BY <1>3, <3>1 DEF PlanInv, WorksOK
    <3>3. WorkIn(procs[q], Taken')
      BY <3>2, SoundGrows DEF WorkIn
    <3> QED BY <2>2, <3>1, <3>2, <3>3
  <2> QED BY <2>1, <2>2
<1>4. WorksOK'
  BY <1>3 DEF WorksOK
<1> QED BY <1>2, <1>4

(* A step that leaves the operations alone.                                *)
LEMMA NoneWorks ==
  ASSUME PlanInv, Taken \subseteq Taken', UNCHANGED <<row, fresh, procs>>
  PROVE  WorksOK'
<1>1. ASSUME NEW q \in Procs, procs[q] # NoWork
      PROVE  /\ WorkIn(procs[q], Taken')
             /\ q \in fresh => procs[q].view = row
  <2>1. /\ WorkIn(procs[q], Taken)
        /\ q \in fresh => procs[q].view = row
    BY <1>1 DEF PlanInv, WorksOK
  <2> QED BY <2>1, SoundGrows DEF WorkIn
<1> QED BY <1>1 DEF WorksOK

(* A step that changes neither the row nor the cached plan, except that    *)
(* the entry may go.                                                       *)
LEMMA PlansStay ==
  ASSUME PlanInv, Taken \subseteq Taken', row' = row,
         cache' = cache \/ cache' = NoPlan
  PROVE  /\ PlansOK' /\ row' \in Plan /\ cache' \in Plan \cup {NoPlan}
<1>1. PlansOK /\ row \in Plan /\ cache \in Plan \cup {NoPlan}
  BY DEF PlanInv, PlanTypeOK
<1>2. SoundIn(row', Taken')
  BY <1>1, SoundGrows DEF PlansOK
<1>3. cache' # NoPlan => SoundIn(cache', Taken')
  BY <1>1, SoundGrows DEF PlansOK
<1> QED BY <1>1, <1>2, <1>3 DEF PlansOK

(* A step that writes a sound plan.                                        *)
LEMMA PlansWritten ==
  ASSUME PlanInv, Taken' = Taken, row' \in Plan, SoundIn(row', Taken),
         cache' = cache
  PROVE  PlansOK' /\ cache' \in Plan \cup {NoPlan}
<1>1. PlansOK /\ cache \in Plan \cup {NoPlan}
  BY DEF PlanInv, PlanTypeOK
<1> QED BY <1>1 DEF PlansOK

(* StepTo and Ends, as giving the process a new state of its work.         *)
LEMMA SteppedTo ==
  ASSUME PlanInv, NEW p \in Procs, procs[p] \in Work, NEW pc, StepTo(p, pc),
         pc \in {"read", "fill", "cache", "write", "written", "warm"}
  PROVE  \E w \in Work :
           /\ procs' = [procs EXCEPT ![p] = w] /\ procs'[p] = w
           /\ w = [procs[p] EXCEPT !.pc = pc]
           /\ w.pc = pc /\ w.op = procs[p].op /\ w.view = procs[p].view
           /\ w.plan = procs[p].plan /\ w.hit = procs[p].hit
           /\ w.day = procs[p].day
<1>1. PICK w : w = [procs[p] EXCEPT !.pc = pc]
  OBVIOUS
<1>2. procs \in [Procs -> Work \cup {NoWork}]
  BY DEF PlanInv, PlanTypeOK
<1>3. procs' = [procs EXCEPT ![p] = w]
  BY <1>1 DEF StepTo
<1>4. w \in Work
  BY <1>1 DEF Work
<1>5. /\ w.pc = pc /\ w.op = procs[p].op /\ w.view = procs[p].view
      /\ w.plan = procs[p].plan /\ w.hit = procs[p].hit
      /\ w.day = procs[p].day
  BY <1>1 DEF Work
<1> QED BY <1>1, <1>2, <1>3, <1>4, <1>5

(* Starting: the row is read.                                              *)
LEMMA ReadsRow ==
  ASSUME PlanInv, NEW p \in Procs,
         NEW op \in Ops, NEW day \in Days \cup {0},
         NEW hub \in BankHubs \cup {0},
         used'["builds"] \in 0..MaxBuilds, Start(p, op, day, hub)
  PROVE  \E w \in Work :
           /\ procs' = [procs EXCEPT ![p] = w] /\ fresh' = fresh \cup {p}
           /\ w.pc = "read" /\ w.view = row /\ w.plan = row
           /\ w.op = op /\ w.day = day
<1>1. PICK w :
        w = [pc |-> "read", op |-> op, day |-> day, hub |-> hub,
             by |-> used'["builds"], view |-> row, plan |-> row,
             key |-> PresentKey, hit |-> FALSE]
  OBVIOUS
<1>2. procs' = [procs EXCEPT ![p] = w] /\ fresh' = fresh \cup {p}
  BY <1>1, Zenon DEF Start
<1>3. PresentKey \in Key /\ row \in Plan
  BY DEF PlanInv, PlanTypeOK, PresentKey, Key
<1>4. w \in Work
  BY <1>1, <1>3 DEF Work
<1> QED BY <1>1, <1>2, <1>4

(* ... and the invariant holds, whatever else the step has done to the     *)
(* progress and the cache.                                                 *)
LEMMA StartKeeps ==
  ASSUME PlanInv, NEW p \in Procs,
         NEW op \in Ops, NEW day \in Days \cup {0},
         NEW hub \in BankHubs \cup {0},
         used' \in [{"asks", "builds"} -> Nat], used'["builds"] <= MaxBuilds,
         op \in {"tick", "untick"} => day \in Days,
         Start(p, op, day, hub),
         progress \subseteq progress', progress' \subseteq BankHubs,
         cache' = cache \/ cache' = NoPlan,
         UNCHANGED <<row, today, ledger, published, version>>
  PROVE  PlanInv'
<1>1. used'["builds"] \in 0..MaxBuilds
  <2>1. used'["builds"] \in Nat
    OBVIOUS
  <2> QED BY <2>1
<1>2. PICK w \in Work :
        /\ procs' = [procs EXCEPT ![p] = w] /\ fresh' = fresh \cup {p}
        /\ w.pc = "read" /\ w.view = row /\ w.plan = row
        /\ w.op = op /\ w.day = day
  BY <1>1, ReadsRow
<1>3. Taken \subseteq Taken'
  BY DEF Taken
<1>4. SoundIn(row, Taken')
  BY <1>3, SoundGrows DEF PlanInv, PlansOK
<1>5. WorkIn(w, Taken')
  BY <1>2, <1>4 DEF WorkIn, WorkOK
<1>6. procs' \in [Procs -> Work \cup {NoWork}] /\ WorksOK'
  <2>1. \A q \in fresh' \ {p} : q \in fresh /\ row' = row
    BY <1>2
  <2> QED BY <1>2, <1>3, <1>5, <2>1, OneWorks
<1>7. PlansOK' /\ row' \in Plan /\ cache' \in Plan \cup {NoPlan}
  BY <1>3, PlansStay
<1>8. fresh' \subseteq Procs
  BY <1>2 DEF PlanInv, PlanTypeOK
<1> QED BY <1>6, <1>7, <1>8 DEF PlanInv, PlanTypeOK

-----------------------------------------------------------------------------
(* The study plan: serving                                                 *)

(* What ServeFrom leaves for the process, given a plan that is sound for   *)
(* what is known together with what is claimed for it.                     *)
LEMMA Served ==
  ASSUME PlanInv, NEW p \in Procs, procs[p] \in Work,
         procs[p].op \in {"view", "replan", "generate"},
         SoundIn(procs[p].view, Taken),
         NEW plan \in Plan, NEW listed \in SUBSET BankHubs,
         NEW claimed \in SUBSET BankHubs,
         HubsOf(plan) \subseteq listed, listed \subseteq Taken \cup claimed,
         SoundIn(plan, Taken \cup claimed),
         procs[p].op = "view" => plan = procs[p].view,
         procs[p].op # "generate" => plan.done = procs[p].view.done,
         UNCHANGED <<row, fresh, today, progress, published, version, used>>,
         ServeFrom(p, plan, listed, claimed)
  PROVE  PlanInv'
<1>1. PICK walk : walk = Walked(plan, listed)
  OBVIOUS
<1>2. PICK filled : filled = [plan EXCEPT !.hub = walk.hub]
  OBVIOUS
<1> DEFINE L     == Taken \cup claimed
           after == IF procs[p].op = "view" THEN "idle" ELSE "write"
           w(pc, res, hit) == [procs[p] EXCEPT !.pc = pc, !.plan = res,
                                               !.hit = hit, !.key = PresentKey]
           Next1(pc, res, hit) ==
             procs' = [procs EXCEPT ![p] = IF pc = "idle" THEN NoWork
                                           ELSE w(pc, res, hit)]
<1>3. PlanTypeOK /\ Steady \subseteq published /\ PlansOK
      /\ (cache # NoPlan => SoundIn(cache, Taken))
  BY DEF PlanInv, PlansOK
<1>4. /\ WalkTyped(walk) /\ WalkKnown(walk, L) /\ WalkKeeps(plan, walk)
  <2>1. ledger \cup progress \cup listed \subseteq L
    BY DEF Taken
  <2>2. Repeats(plan) => Steady \subseteq L
    BY DEF SoundIn
  <2>3. WalkInv(plan, walk, NumDays, L)
    BY <1>1, <1>3, <2>1, <2>2, WalkIsSound
  <2> QED BY <2>3 DEF WalkInv
<1>5. /\ filled \in Plan /\ filled.hub = walk.hub /\ filled.done = plan.done
      /\ filled.built = plan.built
  BY <1>2, <1>4 DEF Plan, WalkTyped
<1>6. SoundIn(filled, L \cup walk.claims)
  <2>1. SoundIn(walk, L \cup walk.claims)
    <3>1. HubsOf(walk) \subseteq L \cup walk.claims
      BY <1>4 DEF WalkKnown
    <3>2. Repeats(walk) => Steady \subseteq L \cup walk.claims
      BY <1>4 DEF WalkKnown
    <3> QED BY <3>1, <3>2 DEF SoundIn
  <2> QED BY <1>5, <2>1, SoundByHubs
<1>7. PresentKey \in Key
  BY <1>3 DEF PlanTypeOK, PresentKey, Key
<1>8. \/ /\ cache # NoPlan /\ Next1(after, cache, TRUE)
         /\ ledger' = ledger \cup claimed /\ cache' = cache
      \/ /\ Next1(after, plan, FALSE) /\ cache' = plan
         /\ ledger' = ledger \cup claimed
      \/ /\ ledger' = ledger \cup claimed \cup walk.claims
         /\ Next1("fill", filled, FALSE) /\ cache' = cache
      \/ /\ ledger' = ledger \cup claimed \cup walk.claims
         /\ Next1(after, filled, FALSE) /\ cache' = filled
  BY <1>1, <1>2 DEF ServeFrom
<1>9. ledger' \subseteq BankHubs
      /\ Taken \subseteq Taken' /\ L \subseteq Taken'
      /\ (ledger' = ledger \cup claimed \cup walk.claims =>
            Taken' = L \cup walk.claims)
  BY <1>3, <1>4, <1>8 DEF PlanTypeOK, WalkTyped, Taken
<1>10. ASSUME NEW pc \in {"fill", "write"}, NEW res \in Plan,
              NEW hit \in BOOLEAN
       PROVE  /\ w(pc, res, hit) \in Work
              /\ w(pc, res, hit).pc = pc /\ w(pc, res, hit).plan = res
              /\ w(pc, res, hit).hit = hit
              /\ w(pc, res, hit).op = procs[p].op
              /\ w(pc, res, hit).view = procs[p].view
  BY <1>7 DEF Work
<1> HIDE DEF w
<1>11. ASSUME NEW res \in Plan, NEW hit \in BOOLEAN, NEW pc,
              Next1(pc, res, hit), SoundIn(res, Taken'),
              \/ pc = after /\ (hit \/ res.done = plan.done)
              \/ pc = "fill" /\ res = filled /\ ~hit
       PROVE  procs' \in [Procs -> Work \cup {NoWork}] /\ WorksOK'
  <2>1. SoundIn(procs[p].view, Taken')
    BY <1>9, SoundGrows
  <2>2. p \in fresh' => procs[p].view = row'
    <3>1. procs[p] # NoWork
      BY DEF Work, NoWork
    <3> QED BY <3>1 DEF PlanInv, WorksOK
  <2>3. \A q \in fresh' \ {p} : q \in fresh /\ row' = row
    OBVIOUS
  <2>4. CASE pc = "idle"
    <3>1. procs' = [procs EXCEPT ![p] = NoWork]
      BY <1>11, <2>4
    <3> QED BY <1>9, <2>3, <3>1, OneWorks
  <2>5. CASE pc # "idle"
    <3>1. PICK x : x = w(pc, res, hit)
      OBVIOUS
    <3>2. pc \in {"fill", "write"}
      BY <1>11, <2>5
    <3>3. procs' = [procs EXCEPT ![p] = x]
      BY <1>11, <2>5, <3>1
    <3>4. /\ x \in Work /\ x.pc = pc /\ x.plan = res /\ x.hit = hit
          /\ x.op = procs[p].op /\ x.view = procs[p].view
      BY <1>10, <3>1, <3>2
    <3>5. pc = "write" => procs[p].op # "view"
      BY <1>11
    <3>6. pc = "fill" => /\ res.done = plan.done /\ res.built = plan.built
                         /\ \A d \in Days : plan.hub[d] \in Steady =>
                                              res.hub[d] = plan.hub[d]
      <4>1. \A d \in Days : plan.hub[d] \in Steady => Preserved(plan, d)
        BY <1>3 DEF Preserved
      <4>2. \A d \in Days : plan.hub[d] \in Steady =>
                              walk.hub[d] = plan.hub[d]
        BY <1>4, <4>1 DEF WalkKeeps
      <4> QED BY <1>5, <1>11, <4>2
    <3>7. pc = "fill" => ~hit
      BY <1>11
    <3>8. ~hit => res.done = plan.done
      BY <1>5, <1>11
    <3>9. WorkOK(x)
      BY <3>2, <3>4, <3>5, <3>6, <3>7, <3>8 DEF WorkOK
    <3>10. WorkIn(x, Taken')
      BY <1>11, <2>1, <3>4, <3>9 DEF WorkIn
    <3> QED BY <1>9, <2>2, <2>3, <3>3, <3>4, <3>10, OneWorks
  <2> QED BY <2>4, <2>5
<1>12. ASSUME procs' \in [Procs -> Work \cup {NoWork}], WorksOK',
              cache' \in Plan \cup {NoPlan},
              cache' # NoPlan => SoundIn(cache', Taken')
       PROVE  PlanInv'
  <2>1. SoundIn(row', Taken')
    BY <1>3, <1>9, SoundGrows DEF PlansOK
  <2>2. PlansOK'
    BY <1>12, <2>1 DEF PlansOK
  <2> QED BY <1>9, <1>12, <2>2 DEF PlanInv, PlanTypeOK
<1>13. cache \in Plan \cup {NoPlan}
  BY <1>3 DEF PlanTypeOK
<1>14. SoundIn(plan, Taken')
  BY <1>9, SoundGrows
<1>15. CASE /\ cache # NoPlan /\ Next1(after, cache, TRUE)
            /\ ledger' = ledger \cup claimed /\ cache' = cache
  <2>1. cache \in Plan /\ SoundIn(cache, Taken')
    BY <1>3, <1>9, <1>13, <1>15, SoundGrows
  <2> HIDE DEF Next1, after
  <2>2. procs' \in [Procs -> Work \cup {NoWork}] /\ WorksOK'
    BY <1>11, <1>15, <2>1
  <2> QED BY <1>12, <1>15, <2>1, <2>2
<1>16. CASE /\ Next1(after, plan, FALSE) /\ cache' = plan
            /\ ledger' = ledger \cup claimed
  <2> HIDE DEF Next1, after
  <2>1. procs' \in [Procs -> Work \cup {NoWork}] /\ WorksOK'
    BY <1>11, <1>14, <1>16
  <2> QED BY <1>12, <1>14, <1>16, <2>1
<1>17. CASE /\ ledger' = ledger \cup claimed \cup walk.claims
            /\ Next1("fill", filled, FALSE) /\ cache' = cache
  <2> HIDE DEF Next1, after
  <2>1. SoundIn(filled, Taken')
    BY <1>6, <1>9, <1>17
  <2>2. procs' \in [Procs -> Work \cup {NoWork}] /\ WorksOK'
    BY <1>5, <1>11, <1>17, <2>1
  <2>3. cache # NoPlan => SoundIn(cache, Taken')
    BY <1>3, <1>9, SoundGrows
  <2> QED BY <1>12, <1>13, <1>17, <2>2, <2>3
<1>18. CASE /\ ledger' = ledger \cup claimed \cup walk.claims
            /\ Next1(after, filled, FALSE) /\ cache' = filled
  <2> HIDE DEF Next1, after
  <2>1. SoundIn(filled, Taken')
    BY <1>6, <1>9, <1>18
  <2>2. procs' \in [Procs -> Work \cup {NoWork}] /\ WorksOK'
    BY <1>5, <1>11, <1>18, <2>1
  <2> QED BY <1>5, <1>12, <1>18, <2>1, <2>2
<1> QED BY <1>8, <1>15, <1>16, <1>17, <1>18

-----------------------------------------------------------------------------
(* The study plan: every action keeps the invariant                        *)

(* An operation that goes on with a plan it has.                           *)
LEMMA GoesOn ==
  ASSUME PlanInv, NEW p \in Procs, procs[p] # NoWork, Taken \subseteq Taken',
         NEW pc \in {"cache", "write", "written", "warm"}, StepTo(p, pc),
         pc = "cache" => procs[p].pc = "fill",
         pc = "write" => /\ procs[p].pc \in {"fill", "cache"}
                         /\ procs[p].op # "view",
         \/ fresh' = fresh /\ row' = row
         \/ fresh' \subseteq {p} /\ (p \in fresh' => procs[p].view = row')
  PROVE  procs' \in [Procs -> Work \cup {NoWork}] /\ WorksOK'
<1>1. /\ procs[p] \in Work /\ WorkIn(procs[p], Taken)
      /\ p \in fresh => procs[p].view = row
  BY WorkTyped DEF PlanInv, WorksOK
<1>2. PICK w \in Work :
        /\ procs' = [procs EXCEPT ![p] = w]
        /\ w.pc = pc /\ w.op = procs[p].op /\ w.view = procs[p].view
        /\ w.plan = procs[p].plan /\ w.hit = procs[p].hit
        /\ w.day = procs[p].day
  BY <1>1, SteppedTo
<1>3. WorkOK(w)
  BY <1>1, <1>2 DEF WorkIn, WorkOK
<1>4. WorkIn(w, Taken')
  <2>1. SoundIn(procs[p].view, Taken') /\ SoundIn(procs[p].plan, Taken')
    BY <1>1, SoundGrows DEF WorkIn
  <2> QED BY <1>2, <1>3, <2>1 DEF WorkIn
<1>5. /\ p \in fresh' => w.view = row'
      /\ \A q \in fresh' \ {p} : q \in fresh /\ row' = row
  BY <1>1, <1>2
<1> QED BY <1>2, <1>4, <1>5, OneWorks

(* An operation that ends.                                                 *)
LEMMA EndsWell ==
  ASSUME PlanInv, NEW p \in Procs, Taken \subseteq Taken', Ends(p),
         UNCHANGED <<row, fresh>>
  PROVE  procs' \in [Procs -> Work \cup {NoWork}] /\ WorksOK'
BY OneWorks DEF Ends

(* A write of a sound plan, by an operation that goes on.                  *)
LEMMA WriteKeeps ==
  ASSUME PlanInv, NEW p \in Procs, procs[p] # NoWork,
         NEW pc \in {"cache", "written"}, StepTo(p, pc),
         pc = "cache" => procs[p].pc = "fill",
         row' \in Plan, SoundIn(row', Taken), fresh' \subseteq {p},
         p \in fresh' => procs[p].view = row',
         UNCHANGED <<today, ledger, progress, published, version, cache, used>>
  PROVE  PlanInv'
<1>1. Taken' = Taken
  BY DEF Taken
<1>2. procs' \in [Procs -> Work \cup {NoWork}] /\ WorksOK'
  BY <1>1, GoesOn
<1>3. PlansOK' /\ cache' \in Plan \cup {NoPlan}
  BY <1>1, PlansWritten
<1> QED BY <1>2, <1>3 DEF PlanInv, PlanTypeOK

(* A step that writes no plan: what is left to show is the work.           *)
LEMMA RestKeeps ==
  ASSUME PlanInv, procs' \in [Procs -> Work \cup {NoWork}], WorksOK',
         UNCHANGED <<row, fresh, used>>,
         cache' = cache \/ cache' = NoPlan,
         today' \in Days, version' \in 1..MaxVersions,
         ledger \subseteq ledger', ledger' \subseteq BankHubs,
         progress' = progress,
         Steady \subseteq published', published' \subseteq BankHubs
  PROVE  PlanInv'
<1>1. Taken \subseteq Taken'
  BY DEF Taken
<1>2. PlansOK' /\ row' \in Plan /\ cache' \in Plan \cup {NoPlan}
  BY <1>1, PlansStay
<1> QED BY <1>2 DEF PlanInv, PlanTypeOK

LEMMA Working ==
  ASSUME PlanInv, NEW p \in Procs, ~IsAt(p, "idle")
  PROVE  /\ procs[p] # NoWork /\ procs[p] \in Work
         /\ WorkIn(procs[p], Taken)
         /\ p \in fresh => procs[p].view = row
<1>1. procs[p] # NoWork
  BY IdleOrNot DEF PlanInv
<1> QED BY <1>1, WorkTyped DEF PlanInv, WorksOK

LEMMA AsksKeep ==
  ASSUME PlanInv, NEW p \in Procs,
         AskPlan(p) \/ AskTick(p) \/ AskComplete(p) \/ AskBuild(p) \/ Warm(p)
  PROVE  PlanInv'
<1>1. /\ used \in [{"asks", "builds"} -> Nat] /\ used["builds"] <= MaxBuilds
      /\ used["builds"] \in Nat /\ used["asks"] \in Nat
  BY DEF PlanInv, PlanTypeOK
<1>2. ASSUME NEW k \in {0, 1}, Asked(k), k = 1 => used["builds"] < MaxBuilds
      PROVE  /\ used' \in [{"asks", "builds"} -> Nat]
             /\ used'["builds"] <= MaxBuilds
  <2>1. used' = [used EXCEPT !["asks"] = @ + 1, !["builds"] = @ + k]
    BY <1>2 DEF Asked
  <2>2. used' \in [{"asks", "builds"} -> Nat]
        /\ used'["builds"] = used["builds"] + k
    BY <1>1, <2>1
  <2> QED BY <1>1, <1>2, <2>2
<1>3. CASE AskPlan(p)
  <2>1. PICK op \in {"view", "refresh"} : Start(p, op, 0, 0)
    BY <1>3 DEF AskPlan
  <2>2. op \in Ops /\ 0 \in Days \cup {0} /\ 0 \in BankHubs \cup {0}
    BY DEF Ops
  <2>3. /\ Asked(0) /\ progress' = progress
        /\ UNCHANGED <<row, today, ledger, published, version, cache>>
    BY <1>3 DEF AskPlan
  <2>4. progress' \subseteq BankHubs
    BY <2>3 DEF PlanInv, PlanTypeOK
  <2> QED BY <1>2, <2>1, <2>2, <2>3, <2>4, StartKeeps
<1>4. CASE AskTick(p)
  <2>1. PICK d \in Days, op \in {"tick", "untick"} : Start(p, op, d, 0)
    BY <1>4 DEF AskTick
  <2>2. op \in Ops /\ d \in Days \cup {0} /\ 0 \in BankHubs \cup {0}
    BY DEF Ops
  <2>3. /\ Asked(0) /\ progress' = progress
        /\ UNCHANGED <<row, today, ledger, published, version, cache>>
    BY <1>4 DEF AskTick
  <2>4. progress' \subseteq BankHubs
    BY <2>3 DEF PlanInv, PlanTypeOK
  <2> QED BY <1>2, <2>1, <2>2, <2>3, <2>4, StartKeeps
<1>5. CASE AskComplete(p)
  <2>1. PICK h \in published : /\ progress' = progress \cup {h}
                               /\ Start(p, "sync", 0, h)
    BY <1>5 DEF AskComplete
  <2>2. "sync" \in Ops /\ 0 \in Days \cup {0} /\ h \in BankHubs \cup {0}
    BY DEF Ops, PlanInv, PlanTypeOK
  <2>3. /\ Asked(0) /\ cache' = NoPlan
        /\ UNCHANGED <<row, today, ledger, published, version>>
    BY <1>5 DEF AskComplete
  <2>4. progress \subseteq progress' /\ progress' \subseteq BankHubs
    BY <2>1 DEF PlanInv, PlanTypeOK
  <2> QED BY <1>2, <2>1, <2>2, <2>3, <2>4, StartKeeps
<1>6. CASE AskBuild(p)
  <2>1. PICK op \in {"replan", "generate"} : Start(p, op, 0, 0)
    BY <1>6 DEF AskBuild
  <2>2. op \in Ops /\ 0 \in Days \cup {0} /\ 0 \in BankHubs \cup {0}
    BY DEF Ops
  <2>3. /\ Asked(1) /\ progress' = progress /\ used["builds"] < MaxBuilds
        /\ UNCHANGED <<row, today, ledger, published, version, cache>>
    BY <1>6 DEF AskBuild
  <2>4. progress' \subseteq BankHubs
    BY <2>3 DEF PlanInv, PlanTypeOK
  <2> QED BY <1>2, <2>1, <2>2, <2>3, <2>4, StartKeeps
<1>7. CASE Warm(p)
  <2>1. progress' = progress
        /\ UNCHANGED <<row, today, ledger, published, version, cache>>
    BY <1>7 DEF Warm
  <2>2. progress' \subseteq BankHubs
    BY <2>1 DEF PlanInv, PlanTypeOK
  <2>3. {"refresh", "replan"} \subseteq Ops /\ 0 \in Days \cup {0}
        /\ 0 \in BankHubs \cup {0}
    BY DEF Ops
  <2>4. CASE UNCHANGED used /\ Start(p, "refresh", 0, 0)
    BY <1>1, <2>1, <2>2, <2>3, <2>4, StartKeeps
  <2>5. CASE /\ used["builds"] < MaxBuilds
             /\ used' = [used EXCEPT !["builds"] = @ + 1]
             /\ Start(p, "replan", 0, 0)
    <3>1. used' \in [{"asks", "builds"} -> Nat]
          /\ used'["builds"] = used["builds"] + 1
      BY <1>1, <2>5
    <3>2. used'["builds"] <= MaxBuilds
      BY <1>1, <2>5, <3>1
    <3> QED BY <2>1, <2>2, <2>3, <2>5, <3>1, <3>2, StartKeeps
  <2> QED BY <1>7, <2>4, <2>5 DEF Warm
<1> QED BY <1>3, <1>4, <1>5, <1>6, <1>7

LEMMA ServesKeep ==
  ASSUME PlanInv, NEW p \in Procs, Serve(p) \/ Replan(p) \/ Generate(p)
  PROVE  PlanInv'
<1>1. IsAt(p, "read") /\ ~IsAt(p, "idle")
      /\ UNCHANGED <<row, fresh, today, progress, published, version, used>>
  BY DEF Serve, Replan, Generate, Doing, IsAt
<1>2. /\ procs[p] \in Work /\ WorkIn(procs[p], Taken) /\ PlanTypeOK
  BY <1>1, Working DEF PlanInv
<1>3. PICK view : view = procs[p].view
  OBVIOUS
<1>4. /\ view \in Plan /\ SoundIn(view, Taken)
      /\ procs[p].by \in 0..MaxBuilds
  BY <1>2, <1>3 DEF Work, WorkIn
<1>5. \A plan \in Plan : HubsOf(plan) \subseteq BankHubs
  BY DEF Plan, HubsOf
<1>6. ASSUME NEW start \in Days
      PROVE  NewHubs(view, start) \subseteq BankHubs
  BY <1>2, NewHubsAre
<1>7. CASE Serve(p)
  <2>1. ServeFrom(p, view, HubsOf(view), {}) /\ procs[p].op = "view"
    BY <1>3, <1>7 DEF Serve, Doing
  <2>2. HubsOf(view) \subseteq Taken \cup {} /\ SoundIn(view, Taken \cup {})
    BY <1>4 DEF SoundIn
  <2>3. HubsOf(view) \in SUBSET BankHubs /\ {} \in SUBSET BankHubs
    BY <1>4, <1>5
  <2> QED BY <1>1, <1>2, <1>3, <1>4, <2>1, <2>2, <2>3, Served
<1>8. CASE Replan(p)
  <2>1. PICK new : new = NewHubs(view, view.start)
    OBVIOUS
  <2>2. PICK plan : plan = Merged(view, procs[p].by)
    OBVIOUS
  <2>3. ServeFrom(p, plan, HubsOf(plan) \cup new, new)
        /\ procs[p].op = "replan"
    BY <1>3, <1>8, <2>1, <2>2 DEF Replan, Doing
  <2>4. /\ plan \in Plan /\ plan.done = view.done
        /\ SoundIn(plan, Taken \cup new)
    BY <1>2, <1>4, <2>1, <2>2, MergedIsSound
  <2>5. new \in SUBSET BankHubs
    BY <1>4, <1>6, <2>1 DEF Plan
  <2>6. /\ HubsOf(plan) \cup new \subseteq Taken \cup new
        /\ HubsOf(plan) \cup new \in SUBSET BankHubs
        /\ HubsOf(plan) \subseteq HubsOf(plan) \cup new
    BY <1>5, <2>4, <2>5 DEF SoundIn
  <2>7. procs[p].op \in {"view", "replan", "generate"}
        /\ procs[p].op # "view"
    BY <2>3
  <2>8. SoundIn(procs[p].view, Taken) /\ plan.done = procs[p].view.done
    BY <1>3, <1>4, <2>4
  <2> HIDE DEF PlanInv
  <2> QED BY <1>1, <1>2, <2>3, <2>4, <2>5, <2>6, <2>7, <2>8, Served
<1>9. CASE Generate(p)
  <2>1. PICK new : new = NewHubs(view, today)
    OBVIOUS
  <2>2. PICK plan : plan = Generated(view, procs[p].by)
    OBVIOUS
  <2>3. ServeFrom(p, plan, HubsOf(plan), new)
        /\ procs[p].op = "generate"
    BY <1>3, <1>9, <2>1, <2>2 DEF Generate, Doing
  <2>4. plan \in Plan /\ SoundIn(plan, new)
    BY <1>2, <1>4, <2>1, <2>2, GeneratedIsSound
  <2>5. SoundIn(plan, Taken \cup new)
    BY <2>4, SoundGrows
  <2>6. new \in SUBSET BankHubs
    BY <1>2, <1>6, <2>1 DEF PlanTypeOK
  <2>7. /\ HubsOf(plan) \subseteq Taken \cup new
        /\ HubsOf(plan) \in SUBSET BankHubs
    BY <1>5, <2>4, <2>5 DEF SoundIn
  <2>8. procs[p].op \in {"view", "replan", "generate"}
        /\ procs[p].op # "view"
    BY <2>3
  <2>9. SoundIn(procs[p].view, Taken)
    BY <1>3, <1>4
  <2> HIDE DEF PlanInv
  <2> QED BY <1>1, <1>2, <2>3, <2>4, <2>5, <2>6, <2>7, <2>8, <2>9, Served
<1> QED BY <1>7, <1>8, <1>9

LEMMA WritesKeep ==
  ASSUME PlanInv, NEW p \in Procs,
         \/ PersistFill(p) \/ PersistBuild(p) \/ CacheFill(p) \/ Refresh(p)
         \/ TickWrite(p) \/ SyncWrite(p) \/ WriteBuild(p)
  PROVE  PlanInv'
<1>1. ~IsAt(p, "idle")
  BY DEF PersistFill, PersistBuild, CacheFill, Refresh, TickWrite, SyncWrite,
         WriteBuild, Doing, IsAt
<1>2. PICK work : work = procs[p]
  OBVIOUS
<1>3. /\ procs[p] # NoWork /\ work \in Work
      /\ work.view \in Plan /\ work.plan \in Plan
      /\ SoundIn(work.view, Taken) /\ SoundIn(work.plan, Taken)
      /\ WorkOK(work)
      /\ p \in fresh => work.view = row
  BY <1>1, <1>2, Working DEF WorkIn, Work
<1>4. Taken \subseteq Taken' \/ ledger' # ledger \/ progress' # progress
  BY DEF Taken
<1>5. /\ cache \in Plan \cup {NoPlan} /\ today \in Days
      /\ version \in 1..MaxVersions /\ ledger \subseteq BankHubs
      /\ Steady \subseteq published /\ published \subseteq BankHubs
  BY DEF PlanInv, PlanTypeOK
<1>6. ASSUME Ends(p), UNCHANGED <<row, fresh>>,
             UNCHANGED <<today, ledger, progress, published, version, cache,
                         used>>
      PROVE  PlanInv'
  <2>1. procs' \in [Procs -> Work \cup {NoWork}] /\ WorksOK'
    BY <1>4, <1>6, EndsWell
  <2> QED BY <1>5, <1>6, <2>1, RestKeeps
<1>7. ASSUME NEW pc \in {"write", "written", "warm"}, StepTo(p, pc),
             pc = "write" => /\ work.pc \in {"fill", "cache"}
                             /\ work.op # "view",
             UNCHANGED <<row, fresh>>,
             UNCHANGED <<today, ledger, progress, published, version, cache,
                         used>>
      PROVE  PlanInv'
  <2>1. procs' \in [Procs -> Work \cup {NoWork}] /\ WorksOK'
    BY <1>2, <1>3, <1>4, <1>7, GoesOn
  <2> QED BY <1>5, <1>7, <2>1, RestKeeps
<1>8. CASE PersistFill(p)
  <2>1. work.pc = "fill"
        /\ UNCHANGED <<today, ledger, progress, published, version, cache,
                       used>>
    BY <1>2, <1>8 DEF PersistFill, IsAt
  <2>2. CASE Write(work.plan) /\ StepTo(p, "cache")
    <3>1. row' = work.plan /\ fresh' = {}
      BY <2>2 DEF Write
    <3> QED BY <1>2, <1>3, <2>1, <2>2, <3>1, WriteKeeps
  <2>3. CASE UNCHANGED <<row, fresh>> /\ Ends(p)
    BY <1>6, <2>1, <2>3
  <2> QED BY <1>2, <1>8, <2>2, <2>3 DEF PersistFill
<1>9. CASE PersistBuild(p)
  <2>1. work.pc = "fill" /\ work.op # "view"
        /\ UNCHANGED <<today, ledger, progress, published, version, cache,
                       used>>
    BY <1>2, <1>9 DEF PersistBuild, IsAt
  <2>2. CASE Write(work.plan) /\ StepTo(p, "cache")
    <3>1. row' = work.plan /\ fresh' = {}
      BY <2>2 DEF Write
    <3> QED BY <1>2, <1>3, <2>1, <2>2, <3>1, WriteKeeps
  <2>3. CASE UNCHANGED <<row, fresh>> /\ StepTo(p, "write")
    BY <1>7, <2>1, <2>3
  <2> QED BY <1>2, <1>9, <2>2, <2>3 DEF PersistBuild
<1>10. CASE CacheFill(p)
  <2>1. /\ work.pc = "cache" /\ cache' \in {cache, work.plan}
        /\ UNCHANGED <<row, fresh, today, ledger, progress, published,
                       version, used>>
    BY <1>2, <1>10 DEF CacheFill, Cached, IsAt
  <2>2. Taken' = Taken
    BY <2>1 DEF Taken
  <2>3. procs' \in [Procs -> Work \cup {NoWork}] /\ WorksOK'
    <3>1. CASE work.op = "view"
      <4>1. Ends(p)
        BY <1>2, <1>10, <3>1 DEF CacheFill
      <4> QED BY <2>1, <2>2, <4>1, EndsWell
    <3>2. CASE work.op # "view"
      <4>1. StepTo(p, "write")
        BY <1>2, <1>10, <3>2 DEF CacheFill
      <4> QED BY <1>2, <1>3, <2>1, <2>2, <3>2, <4>1, GoesOn
    <3> QED BY <3>1, <3>2
  <2>4. PlansOK' /\ cache' \in Plan \cup {NoPlan}
    BY <1>3, <1>5, <2>1, <2>2 DEF PlanInv, PlansOK
  <2> QED BY <2>1, <2>3, <2>4 DEF PlanInv, PlanTypeOK
<1>11. CASE Refresh(p)
  <2>1. /\ row' = work.view /\ fresh' = {p} /\ StepTo(p, "written")
        /\ UNCHANGED <<today, ledger, progress, published, version, cache,
                       used>>
    BY <1>2, <1>11 DEF Refresh
  <2> QED BY <1>2, <1>3, <2>1, WriteKeeps
<1>12. CASE TickWrite(p)
  <2>1. PICK op \in {"tick", "untick"} :
          Doing(p, op) /\ Write(Ticked(work.view, op, work.day))
    BY <1>2, <1>12 DEF TickWrite
  <2>2. /\ StepTo(p, "written")
        /\ UNCHANGED <<today, ledger, progress, published, version, cache,
                       used>>
    BY <1>12 DEF TickWrite
  <2>3. PICK done : done = IF op = "tick" THEN work.view.done \cup {work.day}
                           ELSE work.view.done \ {work.day}
    OBVIOUS
  <2>4. row' = [work.view EXCEPT !.done = done] /\ fresh' = {}
    BY <2>1, <2>3 DEF Write, Ticked
  <2>5. work.day \in Days
    BY <1>2, <1>3, <2>1 DEF WorkOK, Doing
  <2>6. row' \in Plan /\ row'.hub = work.view.hub
    <3>1. done \subseteq Days
      BY <1>3, <2>3, <2>5 DEF Plan
    <3> QED BY <1>3, <2>4, <3>1 DEF Plan
  <2>7. SoundIn(row', Taken)
    BY <1>3, <2>6, SoundByHubs
  <2> QED BY <1>2, <1>3, <2>2, <2>4, <2>6, <2>7, WriteKeeps
<1>13. CASE SyncWrite(p)
  <2> DEFINE todo == DaysOf(work.view, work.hub) \ work.view.done
  <2>1. /\ StepTo(p, "written")
        /\ UNCHANGED <<today, ledger, progress, published, version, cache,
                       used>>
    BY <1>13 DEF SyncWrite
  <2>2. todo \subseteq Days
    BY DEF DaysOf
  <2>3. \/ UNCHANGED <<row, fresh>>
        \/ Write([work.view EXCEPT !.done = @ \cup todo])
    BY <1>2, <1>13 DEF SyncWrite
  <2> HIDE DEF todo
  <2>4. CASE UNCHANGED <<row, fresh>>
    BY <1>7, <2>1, <2>4
  <2>5. CASE Write([work.view EXCEPT !.done = @ \cup todo])
    <3>1. row' = [work.view EXCEPT !.done = work.view.done \cup todo]
          /\ fresh' = {}
      BY <2>5 DEF Write
    <3>2. row' \in Plan /\ row'.hub = work.view.hub
      BY <1>3, <2>2, <3>1 DEF Plan
    <3>3. SoundIn(row', Taken)
      BY <1>3, <3>2, SoundByHubs
    <3> QED BY <1>2, <1>3, <2>1, <3>1, <3>2, <3>3, WriteKeeps
  <2> QED BY <2>3, <2>4, <2>5
<1>14. CASE WriteBuild(p)
  <2>1. /\ row' = [work.plan EXCEPT !.at = version] /\ fresh' = {}
        /\ StepTo(p, "written")
        /\ UNCHANGED <<today, ledger, progress, published, version, cache,
                       used>>
    BY <1>2, <1>14 DEF WriteBuild, Write
  <2>2. row' \in Plan /\ row'.hub = work.plan.hub
    <3>1. version \in 0..MaxVersions
      BY <1>5
    <3> QED BY <1>3, <2>1, <3>1 DEF Plan
  <2>3. SoundIn(row', Taken)
    BY <1>3, <2>2, SoundByHubs
  <2> QED BY <1>2, <1>3, <2>1, <2>2, <2>3, WriteKeeps
<1> QED BY <1>8, <1>9, <1>10, <1>11, <1>12, <1>13, <1>14

LEMMA OthersKeep ==
  ASSUME PlanInv,
         \/ \E p \in Procs : Invalidate(p) \/ WorkDies(p)
         \/ Publish \/ Withdraw \/ Tomorrow \/ Expire
  PROVE  PlanInv'
<1>1. /\ cache \in Plan \cup {NoPlan} /\ today \in Days
      /\ version \in 1..MaxVersions /\ ledger \subseteq BankHubs
      /\ Steady \subseteq published /\ published \subseteq BankHubs
      /\ procs \in [Procs -> Work \cup {NoWork}]
  BY DEF PlanInv, PlanTypeOK
<1>2. ASSUME NEW p \in Procs, Invalidate(p) PROVE PlanInv'
  <2>1. ~IsAt(p, "idle") /\ cache' = NoPlan
        /\ UNCHANGED <<row, fresh, today, progress, published, version, used>>
    BY <1>2 DEF Invalidate, IsAt
  <2>2. /\ procs[p] # NoWork /\ procs[p] \in Work /\ procs[p].plan \in Plan
        /\ WorkIn(procs[p], Taken)
        /\ p \in fresh => procs[p].view = row
    BY <2>1, Working DEF Work
  <2>3. ledger' \in {ledger, ledger \cup HubsOf(procs[p].plan)}
    BY <1>2 DEF Invalidate
  <2>4. HubsOf(procs[p].plan) \subseteq BankHubs
    BY <2>2 DEF HubsOf, Plan
  <2>5. /\ ledger \subseteq ledger' /\ ledger' \subseteq BankHubs
        /\ Taken \subseteq Taken'
    BY <1>1, <2>1, <2>3, <2>4 DEF Taken
  <2>6. procs' \in [Procs -> Work \cup {NoWork}] /\ WorksOK'
    <3>1. CASE StepTo(p, "warm")
      BY <2>1, <2>2, <2>5, <3>1, GoesOn
    <3>2. CASE Ends(p)
      BY <2>1, <2>5, <3>2, EndsWell
    <3>3. CASE procs' = [procs EXCEPT ![p].op = "view", ![p].pc = "read"]
      <4>1. PICK w : w = [procs[p] EXCEPT !.op = "view", !.pc = "read"]
        OBVIOUS
      <4>2. procs' = [procs EXCEPT ![p] = w]
        BY <1>1, <3>3, <4>1
      <4>3. /\ w \in Work /\ w.pc = "read" /\ w.op = "view"
            /\ w.view = procs[p].view
            /\ w.plan = procs[p].plan
        BY <2>2, <4>1 DEF Work, Ops
      <4>4. SoundIn(w.view, Taken') /\ SoundIn(w.plan, Taken')
        BY <2>2, <2>5, <4>3, SoundGrows DEF WorkIn
      <4>5. WorkIn(w, Taken')
        BY <4>3, <4>4 DEF WorkIn, WorkOK
      <4>6. /\ p \in fresh' => w.view = row'
            /\ \A q \in fresh' \ {p} : q \in fresh /\ row' = row
        BY <2>1, <2>2, <4>3
      <4> QED BY <2>5, <4>2, <4>3, <4>5, <4>6, OneWorks
    <3> QED BY <1>2, <3>1, <3>2, <3>3 DEF Invalidate
  <2> QED BY <1>1, <2>1, <2>5, <2>6, RestKeeps
<1>3. ASSUME NEW p \in Procs, WorkDies(p) PROVE PlanInv'
  <2>1. Ends(p) /\ UNCHANGED <<row, fresh, today, ledger, progress, published,
                               version, cache, used>>
    BY <1>3 DEF WorkDies
  <2>2. Taken \subseteq Taken'
    BY <2>1 DEF Taken
  <2>3. procs' \in [Procs -> Work \cup {NoWork}] /\ WorksOK'
    BY <2>1, <2>2, EndsWell
  <2> QED BY <1>1, <2>1, <2>3, RestKeeps
<1>4. ASSUME UNCHANGED <<row, fresh, ledger, progress, procs, used>>,
             cache' = cache \/ cache' = NoPlan,
             today' \in Days, version' \in 1..MaxVersions,
             Steady \subseteq published', published' \subseteq BankHubs
      PROVE  PlanInv'
  <2>1. Taken \subseteq Taken'
    BY <1>4 DEF Taken
  <2>2. procs' \in [Procs -> Work \cup {NoWork}] /\ WorksOK'
    BY <1>1, <1>4, <2>1, NoneWorks
  <2> QED BY <1>1, <1>4, <2>2, RestKeeps
<1>5. ASSUME NEW pool \in SUBSET BankHubs, Steady \subseteq pool,
             CatalogChanges(pool)
      PROVE  PlanInv'
  <2>1. version' \in 1..MaxVersions
    BY <1>1, <1>5 DEF CatalogChanges
  <2> QED BY <1>1, <1>4, <1>5, <2>1 DEF CatalogChanges
<1>6. CASE Publish
  <2>1. PICK h \in BankHubs \ published : CatalogChanges(published \cup {h})
    BY <1>6 DEF Publish
  <2> QED BY <1>1, <1>5, <2>1
<1>7. CASE Withdraw
  <2>1. PICK h \in published \ Steady : CatalogChanges(published \ {h})
    BY <1>7 DEF Withdraw
  <2> QED BY <1>1, <1>5, <2>1
<1>8. CASE Tomorrow
  <2>1. today' \in Days
    BY <1>1, <1>8 DEF Tomorrow, Days
  <2> QED BY <1>1, <1>4, <1>8, <2>1 DEF Tomorrow
<1>9. CASE Expire
  BY <1>1, <1>4, <1>9 DEF Expire
<1> QED BY <1>2, <1>3, <1>6, <1>7, <1>8, <1>9

LEMMA PlanInvInitially ==
  ASSUME PlanInit PROVE PlanInv
<1>1. row \in Plan /\ HubsOf(row) = {} /\ ~Repeats(row)
  <2>1. row = [hub |-> [d \in Days |-> None], done |-> {}, start |-> 1,
               built |-> 0, at |-> 0]
    BY DEF PlanInit
  <2>2. \A d \in Days : row.hub[d] = None
    BY <2>1
  <2>3. row \in Plan
    BY <2>1 DEF Plan, Days
  <2> QED BY <2>2, <2>3 DEF HubsOf, Repeats
<1>2. PlansOK
  BY <1>1 DEF PlansOK, SoundIn, PlanInit
<1>3. WorksOK
  BY DEF WorksOK, PlanInit
<1>4. PlanTypeOK
  BY <1>1 DEF PlanInit, PlanTypeOK, Days
<1>5. Steady \subseteq published /\ used["builds"] <= MaxBuilds
  BY DEF PlanInit
<1> QED BY <1>2, <1>3, <1>4, <1>5 DEF PlanInv

LEMMA PlanInvStays ==
  ASSUME PlanInv, [PlanNext]_planVars PROVE PlanInv'
<1>1. CASE UNCHANGED planVars
  <2>1. WorksOK'
    BY <1>1, NoneWorks DEF planVars, Taken
  <2>2. PlansOK'
    BY <1>1 DEF PlanInv, PlansOK, Taken, planVars
  <2> QED BY <1>1, <2>1, <2>2 DEF PlanInv, PlanTypeOK, planVars
<1>2. CASE PlanNext
  BY <1>2, AsksKeep, ServesKeep, WritesKeep, OthersKeep DEF PlanNext
<1> QED BY <1>1, <1>2

LEMMA PlanInvCorrect == PlanSpec => []PlanInv
BY PlanInvInitially, PlanInvStays, PTL DEF PlanSpec

-----------------------------------------------------------------------------
(* The study plan: what is proved of every behaviour                       *)

(* The profile, the plans, the caches and the requests keep their types.   *)
THEOREM PlanTypesCorrect == PlanSpec => []PlanTypeOK
<1>1. PlanInv => PlanTypeOK
  BY DEF PlanInv
<1> QED BY <1>1, PlanInvCorrect, PTL

(* plan_missing_from_ledger finds nothing: a hub on a plan, stored, cached *)
(* or about to be written, is claimed or was finished.                     *)
THEOREM PlannedIsClaimedCorrect == PlanSpec => []PlannedIsClaimed
<1>1. PlanInv => PlannedIsClaimed
  <2> SUFFICES ASSUME PlanInv PROVE PlannedIsClaimed
    OBVIOUS
  <2>1. HubsOf(row) \subseteq Taken
        /\ (cache # NoPlan => HubsOf(cache) \subseteq Taken)
    BY DEF PlanInv, PlansOK, SoundIn
  <2>2. ASSUME NEW p \in Procs, IsAt(p, "fill")
        PROVE  HubsOf(procs[p].plan) \subseteq Taken
    <3>1. ~IsAt(p, "idle")
      BY <2>2 DEF IsAt
    <3> QED BY <3>1, Working DEF WorkIn, SoundIn
  <2> QED BY <2>1, <2>2 DEF PlannedIsClaimed, Taken
<1> QED BY <1>1, PlanInvCorrect, PTL

(* Two days of the stored plan share a hub only when every hub that was    *)
(* published all along is claimed or finished.                             *)
THEOREM NoNeedlessRepeatCorrect == PlanSpec => []NoNeedlessRepeat
<1>1. PlanInv => NoNeedlessRepeat
  BY DEF PlanInv, PlansOK, SoundIn, NoNeedlessRepeat, Taken
<1> QED BY <1>1, PlanInvCorrect, PTL

(* Storing the fills of a view writes the plan it read with other hubs, and*)
(* the row still is that plan.                                             *)
LEMMA FillsOverTheRow ==
  ASSUME PlanInv, NEW p \in Procs, PersistFill(p)
  PROVE  /\ row'.done = row.done /\ row'.built = row.built
         /\ \A d \in Days : row.hub[d] \in Steady => row'.hub[d] = row.hub[d]
<1>1. IsAt(p, "fill") /\ ~IsAt(p, "idle") /\ procs[p].op = "view"
  BY DEF PersistFill, IsAt
<1>2. CASE row' = row
  BY <1>2
<1>3. CASE p \in fresh /\ row' = procs[p].plan
  <2>1. procs[p].view = row /\ WorkOK(procs[p])
    BY <1>1, <1>3, Working DEF WorkIn
  <2>2. /\ procs[p].plan.done = procs[p].view.done
        /\ procs[p].plan.built = procs[p].view.built
        /\ \A d \in Days : procs[p].view.hub[d] \in Steady =>
             procs[p].plan.hub[d] = procs[p].view.hub[d]
    BY <1>1, <2>1 DEF WorkOK, IsAt
  <2> QED BY <1>3, <2>1, <2>2
<1> QED BY <1>2, <1>3 DEF PersistFill, Write

(* Storing the fills undoes no tick, no build and no published hub.        *)
THEOREM FillsUndoNothingCorrect == PlanSpec => FillsUndoNothing
<1>1. PlanInv /\ [PlanNext]_planVars =>
        [\A p \in Procs : PersistFill(p) =>
           /\ row'.done = row.done /\ row'.built = row.built
           /\ \A d \in Days :
                row.hub[d] \in Steady => row'.hub[d] = row.hub[d]]_planVars
  BY FillsOverTheRow
<1> QED BY <1>1, PlanInvCorrect, PTL DEF PlanSpec, FillsUndoNothing

(* A process that writes a plan with fewer ticks than the row takes them   *)
(* back, starts a new plan or is overtaken.                                *)
LEMMA WriterLosesTicks ==
  ASSUME PlanInv, NEW p \in Procs, NEW pc, StepTo(p, pc),
         procs[p].pc # pc, ~IsAt(p, "idle"),
         \/ /\ row' = procs[p].view /\ procs[p].op = "refresh"
         \/ /\ procs[p].view.done \subseteq row'.done
            /\ procs[p].op \in {"tick", "sync"}
         \/ procs[p].op = "untick"
         \/ /\ procs[p].pc \in {"fill", "write"} /\ procs[p].op # "view"
            /\ row'.done = procs[p].plan.done
  PROVE  \/ row.done \subseteq row'.done
         \/ /\ procs[p] # procs'[p]
            /\ \/ procs[p].op \in {"untick", "generate"}
               \/ procs[p].op /= "view" /\ Overtaken(p)
<1>1. /\ procs[p] \in Work /\ WorkOK(procs[p])
      /\ p \in fresh => procs[p].view = row
  BY Working DEF WorkIn
<1>2. procs[p] # procs'[p]
  <2>1. procs'[p] = [procs[p] EXCEPT !.pc = pc]
    BY DEF StepTo, PlanInv, PlanTypeOK
  <2>2. procs'[p].pc = pc
    BY <1>1, <2>1 DEF Work
  <2> QED BY <2>2
<1>3. SUFFICES ASSUME p \in fresh, ~procs[p].hit,
                      procs[p].op \notin {"untick", "generate"},
                      procs[p].op # "view"
               PROVE  row.done \subseteq row'.done
  <2>1. procs[p].op # "view"
    OBVIOUS
  <2> QED BY <1>2, <2>1 DEF Overtaken
<1>4. procs[p].view = row
  BY <1>1, <1>3
<1>5. CASE procs[p].pc \in {"fill", "write"} /\ row'.done = procs[p].plan.done
  BY <1>1, <1>3, <1>4, <1>5 DEF WorkOK
<1> QED BY <1>3, <1>4, <1>5

LEMMA TicksKept ==
  ASSUME PlanInv, [PlanNext]_planVars
  PROVE  \/ row.done \subseteq row'.done
         \/ \E p \in Procs :
              /\ procs[p] # procs'[p]
              /\ \/ procs[p].op \in {"untick", "generate"}
                 \/ procs[p].op /= "view" /\ Overtaken(p)
<1>1. CASE row' = row
  BY <1>1
<1>2. CASE row' # row
  <2>1. PICK p \in Procs :
          \/ PersistFill(p) \/ PersistBuild(p) \/ Refresh(p)
          \/ TickWrite(p) \/ SyncWrite(p) \/ WriteBuild(p)
    BY <1>2 DEF PlanNext, planVars, AskPlan, AskTick, AskComplete, AskBuild,
       Warm, Serve, Replan, Generate, CacheFill, Invalidate, WorkDies,
       Publish, Withdraw, CatalogChanges, Tomorrow, Expire
  <2>2. CASE PersistFill(p)
    BY <2>2, FillsOverTheRow
  <2>3. CASE PersistBuild(p)
    <3>1. /\ row' = procs[p].plan /\ StepTo(p, "cache") /\ IsAt(p, "fill")
          /\ procs[p].op # "view"
      BY <1>2, <2>3 DEF PersistBuild, Write
    <3> QED BY <3>1, WriterLosesTicks DEF IsAt
  <2>4. CASE Refresh(p)
    BY <2>4, WriterLosesTicks DEF Refresh, Doing, IsAt
  <2>5. CASE TickWrite(p)
    <3>1. PICK op \in {"tick", "untick"} :
            /\ Doing(p, op)
            /\ row' = Ticked(procs[p].view, op, procs[p].day)
      BY <2>5 DEF TickWrite, Write
    <3>2. StepTo(p, "written") /\ procs[p].pc = "read" /\ procs[p].op = op
          /\ ~IsAt(p, "idle")
      BY <2>5, <3>1 DEF TickWrite, Doing, IsAt
    <3>3. op = "tick" => procs[p].view.done \subseteq row'.done
      <4>1. procs[p].view \in Plan
        BY <3>2, Working DEF Work
      <4> QED BY <3>1, <4>1 DEF Ticked, Plan
    <3> QED BY <3>2, <3>3, WriterLosesTicks
  <2>6. CASE SyncWrite(p)
    <3>1. PICK todo :
            row' = [procs[p].view EXCEPT !.done = @ \cup todo]
      BY <1>2, <2>6 DEF SyncWrite, Write
    <3>2. StepTo(p, "written") /\ procs[p].pc = "read"
          /\ procs[p].op = "sync" /\ ~IsAt(p, "idle")
      BY <2>6 DEF SyncWrite, Doing, IsAt
    <3>3. procs[p].view.done \subseteq row'.done
      <4>1. procs[p].view \in Plan
        BY <3>2, Working DEF Work
      <4> QED BY <3>1, <4>1 DEF Plan
    <3> QED BY <3>2, <3>3, WriterLosesTicks
  <2>7. CASE WriteBuild(p)
    <3>1. /\ row' = [procs[p].plan EXCEPT !.at = version]
          /\ StepTo(p, "written") /\ procs[p].pc = "write"
          /\ ~IsAt(p, "idle")
      BY <2>7 DEF WriteBuild, Write, IsAt
    <3>2. /\ procs[p].op # "view" /\ procs[p].plan \in Plan
      BY <3>1, Working DEF WorkIn, WorkOK, Work
    <3>3. row'.done = procs[p].plan.done
      BY <3>1, <3>2 DEF Plan
    <3> QED BY <3>1, <3>2, <3>3, WriterLosesTicks
  <2> QED BY <2>1, <2>2, <2>3, <2>4, <2>5, <2>6, <2>7
<1> QED BY <1>1, <1>2

(* A tick vanishes only when the user takes it back, when a new plan       *)
(* starts, or in a write of a request that was overtaken or served from    *)
(* the cache.                                                              *)
THEOREM TicksCorrect == PlanSpec => TicksLostOnlyToOverlap
<1>1. PlanInv /\ [PlanNext]_planVars =>
        [row.done \subseteq row'.done
         \/ \E p \in Procs : /\ procs[p] /= procs'[p]
                             /\ \/ procs[p].op \in {"untick", "generate"}
                                \/ procs[p].op /= "view"
                                   /\ Overtaken(p)]_planVars
  BY TicksKept
<1> QED BY <1>1, PlanInvCorrect, PTL DEF PlanSpec, TicksLostOnlyToOverlap

(* Whatever plan a request has read, shows, is about to write or has       *)
(* written: its hubs are claimed or finished, and two of its days share a  *)
(* hub only when every hub that stayed published is.                       *)
THEOREM ShownPlansAreSound ==
  PlanSpec => [](\A p \in Procs :
                   ~IsAt(p, "idle") =>
                     /\ HubsOf(procs[p].plan) \subseteq ledger \cup progress
                     /\ Repeats(procs[p].plan) =>
                          Steady \subseteq ledger \cup progress)
<1>1. PlanInv => \A p \in Procs :
                   ~IsAt(p, "idle") =>
                     /\ HubsOf(procs[p].plan) \subseteq ledger \cup progress
                     /\ Repeats(procs[p].plan) =>
                          Steady \subseteq ledger \cup progress
  BY Working DEF WorkIn, SoundIn, Taken
<1> QED BY <1>1, PlanInvCorrect, PTL

(* Filling a plan leaves no day open: while anything is published, every   *)
(* day of it from today on has a published hub, and the days that are past *)
(* or have a published hub already keep theirs.  What it claims is         *)
(* published, and the user never had it: it was not claimed, not finished  *)
(* and not on the plan.                                                    *)
THEOREM FillIsSound ==
  ASSUME PlanTypeOK, NEW plan \in Plan, NEW listed \in SUBSET BankHubs,
         HubsOf(plan) \subseteq listed, Steady \subseteq published,
         NEW d \in Days, plan.start <= d
  PROVE  LET filled == Walked(plan, listed).hub[d]
             claims == Walked(plan, listed).claims
         IN  /\ claims \subseteq published
             /\ claims \cap (ledger \cup progress \cup HubsOf(plan)) = {}
             /\ d < today => filled = plan.hub[d]
             /\ plan.hub[d] \in published => filled = plan.hub[d]
             /\ d >= today /\ published # {} => filled \in published
<1>1. PICK walk : walk = Walked(plan, listed)
  OBVIOUS
<1>2. /\ WalkKeeps(plan, walk) /\ WalkOpen(plan, walk, NumDays)
      /\ WalkFresh(plan, walk)
  <2> DEFINE L == Taken \cup listed \cup Steady
  <2>1. ledger \cup progress \cup listed \subseteq L /\ Steady \subseteq L
    BY DEF Taken
  <2> HIDE DEF L
  <2>2. WalkInv(plan, walk, NumDays, L)
    BY <1>1, <2>1, WalkIsSound
  <2> QED BY <2>2 DEF WalkInv
<1>3. d < today \/ plan.hub[d] \in published => walk.hub[d] = plan.hub[d]
  BY <1>2 DEF WalkKeeps, Preserved
<1>4. ASSUME d >= today, published # {} PROVE walk.hub[d] \in published
  <2>1. today <= d /\ d <= NumDays
    BY <1>4 DEF Days, PlanTypeOK
  <2> QED BY <1>2, <1>4, <2>1 DEF WalkOpen
<1>5. /\ walk.claims \subseteq published
      /\ walk.claims \cap (ledger \cup progress \cup HubsOf(plan)) = {}
  BY <1>2 DEF WalkFresh, Used
<1> QED BY <1>1, <1>3, <1>4, <1>5

=============================================================================
