--------------------------- MODULE ModuleExamProofs ---------------------------
(***************************************************************************)
(* Machine-checked proofs about ModuleExam, for every number of questions, *)
(* of overlapping requests, of submissions and of faults.                  *)
(***************************************************************************)
EXTENDS ModuleExam, TLAPS, FiniteSetTheorems

USE ModuleExamAssumption

-----------------------------------------------------------------------------
(* The inductive invariant *)

(* A request runs the steps of its module.                                 *)
StepsOfKind ==
  \A r \in Reqs : /\ req[r].pc \in ScoreSteps => kind # "writing"
                  /\ req[r].pc \in EssaySteps => kind = "writing"
                  /\ req[r].pc = "fill" => kind = "reading"

(* Submissions that have no review yet, but may still make one.            *)
Unreviewed == {r \in Reqs : req[r].pc \in {"essay", "review"}}

(* A submission makes one review at most, and closes with its own.         *)
Reviewed ==
  /\ Newest \in Nat
  /\ IsFiniteSet(Unreviewed) /\ Newest + Cardinality(Unreviewed) <= submits
  /\ \A r \in Reqs : req[r].pc = "close" => req[r].made \in DOMAIN review

TypeInv == TypeOK /\ StepsOfKind /\ Reviewed

(* Nobody else submits while the single writes of a submission run.        *)
Alone ==
  ~torn => \A r, s \in Reqs : Writing(r) /\ Submitting(s) => r = s

(* Once it has stored its answers, the marks are those it will count.      *)
MarksStand ==
  ~torn => \A r \in Reqs : req[r].pc \in {"mark", "score"} =>
    \A q \in Questions : answer[q].mark = "right" <=> req[r].given[q] = "good"

(* A reading submission has an answer wherever one was saved, unless       *)
(* answers were stored since it filled its blanks.                         *)
Filled ==
  kind = "reading" => \A r \in Reqs :
    req[r].pc \in {"persist", "read", "answers"} /\ ~req[r].stale =>
      \A q \in Questions :
        answer[q].text # "blank" => req[r].given[q] # "blank"

IInv == TypeInv /\ Alone /\ MarksStand /\ Filled /\ ScoreIsTheCount

-----------------------------------------------------------------------------
(* What a step does to the requests                                        *)

SubmitSteps == ScoreSteps \cup EssaySteps

(* Which step a request is at says what it carries.                        *)
LEMMA Carried ==
  ASSUME TypeOK, NEW r \in Reqs
  PROVE  /\ req[r].pc \in SubmitSteps =>
              /\ req[r] \in Submission
              /\ req[r].given \in [Questions -> Texts]
              /\ req[r].stale \in BOOLEAN /\ req[r].made \in 0..MaxSubmits
         /\ req[r].pc = "save" =>
              req[r].q \in Questions /\ req[r].text \in Texts
  BY DEF TypeOK, Req, Submission, Save, Idle, SubmitSteps, ScoreSteps,
     EssaySteps

(* Every change of a request keeps its type.                               *)
LEMMA ReqTypes ==
  /\ Submission \subseteq Req /\ Idle \in Req /\ [pc |-> "abandon"] \in Req
  /\ \A q \in Questions, t \in Texts :
       [pc |-> "save", q |-> q, text |-> t] \in Req
  /\ \A pc \in SubmitSteps, given \in [Questions -> Texts] :
       [pc |-> pc, given |-> given, stale |-> FALSE, made |-> 0]
         \in Submission
  /\ \A sub \in Submission :
       /\ [sub EXCEPT !.stale = TRUE] \in Submission
       /\ \A pc \in SubmitSteps :
            /\ [sub EXCEPT !.pc = pc] \in Submission
            /\ \A given \in [Questions -> Texts] :
                 [sub EXCEPT !.pc = pc, !.given = given] \in Submission
            /\ \A n \in 0..MaxSubmits :
                 [sub EXCEPT !.pc = pc, !.made = n] \in Submission
<1>1. 0 \in 0..MaxSubmits
  OBVIOUS
<1>2. /\ Submission \subseteq Req /\ Idle \in Req
      /\ [pc |-> "abandon"] \in Req
      /\ \A q \in Questions, t \in Texts :
           [pc |-> "save", q |-> q, text |-> t] \in Req
  BY DEF Req, Save
<1>3. \A pc \in SubmitSteps, given \in [Questions -> Texts] :
        [pc |-> pc, given |-> given, stale |-> FALSE, made |-> 0]
          \in Submission
  BY <1>1 DEF Submission, SubmitSteps
<1>4. \A sub \in Submission : [sub EXCEPT !.stale = TRUE] \in Submission
  BY DEF Submission
<1>5. \A sub \in Submission, pc \in SubmitSteps :
        /\ [sub EXCEPT !.pc = pc] \in Submission
        /\ \A given \in [Questions -> Texts] :
             [sub EXCEPT !.pc = pc, !.given = given] \in Submission
        /\ \A n \in 0..MaxSubmits :
             [sub EXCEPT !.pc = pc, !.made = n] \in Submission
  BY DEF Submission, SubmitSteps
<1> QED BY <1>2, <1>3, <1>4, <1>5

(* r goes on as `new'; of the others, submissions may become stale.        *)
Changes(r, new) ==
  /\ new \in Req /\ req' \in [Reqs -> Req] /\ req'[r] = new
  /\ \A s \in Reqs \ {r} :
       /\ req'[s].pc = req[s].pc
       /\ req'[s].pc \in SubmitSteps =>
            /\ req'[s].given = req[s].given /\ req'[s].made = req[s].made
            /\ req[s].stale => req'[s].stale

LEMMA DoChanges ==
  ASSUME TypeOK, NEW r \in Reqs, NEW new \in Req, Do(r, new)
  PROVE  Changes(r, new)
  BY DEF TypeOK, Do, Changes

LEMMA OvertakeChanges ==
  ASSUME TypeOK, NEW r \in Reqs, NEW new \in Req, Overtake(r, new)
  PROVE  /\ Changes(r, new)
         /\ \A s \in Reqs \ {r} : Submitting(s) => req'[s].stale
<1>1. /\ req'[r] = new
      /\ \A s \in Reqs \ {r} :
           IF Submitting(s) THEN req'[s] = [req[s] EXCEPT !.stale = TRUE]
                            ELSE req'[s] = req[s]
  BY DEF Overtake
<1>2. ASSUME NEW s \in Reqs \ {r}, Submitting(s)
      PROVE  /\ req'[s] \in Req /\ req'[s].pc = req[s].pc
             /\ req'[s].given = req[s].given /\ req'[s].made = req[s].made
             /\ req'[s].stale
  <2>1. req[s] \in Submission
    BY <1>2, Carried DEF Submitting, SubmitSteps
  <2>2. req'[s] = [req[s] EXCEPT !.stale = TRUE]
    BY <1>1, <1>2
  <2>3. req'[s] \in Req
    BY <2>1, <2>2, ReqTypes
  <2> QED BY <2>1, <2>2, <2>3 DEF Submission
<1>3. \A s \in Reqs \ {r} : ~Submitting(s) => req'[s] = req[s]
  BY <1>1
<1>4. \A s \in Reqs : req'[s] \in Req
  BY <1>1, <1>2, <1>3 DEF TypeOK
<1>5. req' \in [Reqs -> Req]
  BY <1>4 DEF Overtake
<1> QED BY <1>1, <1>2, <1>3, <1>5 DEF Changes

(* A submission goes on to another of its steps.                           *)
LEMMA GotoChanges ==
  ASSUME TypeOK, NEW r \in Reqs, req[r].pc \in SubmitSteps,
         NEW pc \in SubmitSteps, Goto(r, pc)
  PROVE  /\ Changes(r, [req[r] EXCEPT !.pc = pc])
         /\ req'[r].pc = pc /\ req'[r].given = req[r].given
         /\ req'[r].stale = req[r].stale /\ req'[r].made = req[r].made
<1>1. req[r] \in Submission
  BY Carried
<1>2. PICK new \in Req : new = [req[r] EXCEPT !.pc = pc]
  BY <1>1, ReqTypes
<1>3. Do(r, new)
  BY <1>2 DEF Goto, Do, TypeOK
<1>4. Changes(r, new)
  BY <1>3, DoChanges
<1> QED BY <1>1, <1>2, <1>4 DEF Changes, Submission

LEMMA DoneChanges ==
  ASSUME TypeOK, NEW r \in Reqs, Done(r)
  PROVE  Changes(r, Idle) /\ req'[r].pc = "idle"
<1>1. Changes(r, Idle)
  BY DoChanges, ReqTypes DEF Done
<1> QED BY <1>1 DEF Changes, Idle

-----------------------------------------------------------------------------
(* Marks and counts                                                        *)

(* The right answers of a part.                                            *)
Right(answers) == Cardinality({q \in Questions : answers[q].mark = "right"})

LEMMA Questioned ==
  1 \in Questions /\ Asked \subseteq Questions
  BY DEF Questions, Asked

(* Marking gives every question a mark, and the count is that of the marks.*)
LEMMA MarkedCounts ==
  ASSUME NEW given \in [Questions -> Texts]
  PROVE  /\ Marked(given) \in [Questions -> Answer]
         /\ \A q \in Questions : /\ Marked(given)[q].text = given[q]
                                 /\ Marked(given)[q].mark = "right"
                                      <=> given[q] = "good"
         /\ Count(given) \in 0..NumQuestions
         /\ Right(Marked(given)) = Count(given)
<1>1. /\ Marked(given) \in [Questions -> Answer]
      /\ \A q \in Questions : /\ Marked(given)[q].text = given[q]
                              /\ Marked(given)[q].mark = "right"
                                   <=> given[q] = "good"
  BY DEF Marked, Answer
<1>2. IsFiniteSet(Questions) /\ Cardinality(Questions) = NumQuestions
  BY FS_Interval DEF Questions
<1>3. {q \in Questions : given[q] = "good"} \in SUBSET Questions
  OBVIOUS
<1>4. Count(given) \in 0..NumQuestions
  BY <1>2, <1>3, FS_Subset, FS_CardinalityType DEF Count
<1>5. {q \in Questions : Marked(given)[q].mark = "right"}
        = {q \in Questions : given[q] = "good"}
  BY <1>1
<1> QED BY <1>1, <1>4, <1>5 DEF Right, Count

(* Answers with the same marks have as many right ones.                    *)
LEMMA SameMarks ==
  ASSUME NEW answers, NEW others,
         \A q \in Questions : answers[q].mark = "right"
                               <=> others[q].mark = "right"
  PROVE  Right(answers) = Right(others)
<1>1. {q \in Questions : answers[q].mark = "right"}
        = {q \in Questions : others[q].mark = "right"}
  OBVIOUS
<1> QED BY <1>1 DEF Right

(* A saved text leaves the marks alone.                                    *)
LEMMA StoredMarks ==
  ASSUME TypeOK, NEW q \in Questions, NEW text \in Texts,
         answer' = Stored(q, text)
  PROVE  /\ answer' \in [Questions -> Answer]
         /\ \A k \in Questions : answer'[k].mark = answer[k].mark
  BY DEF TypeOK, Stored, Answer

-----------------------------------------------------------------------------
(* What a step has to do for each part of the invariant                    *)

LEMMA StepsOfKindKept ==
  ASSUME TypeInv, NEW r \in Reqs, NEW new, Changes(r, new), kind' = kind,
         new.pc \in ScoreSteps => kind # "writing",
         new.pc \in EssaySteps => kind = "writing",
         new.pc = "fill" => kind = "reading"
  PROVE  StepsOfKind'
<1>1. \A s \in Reqs \ {r} : req'[s].pc = req[s].pc
  BY DEF Changes
<1>2. req'[r] = new
  BY DEF Changes
<1> QED BY <1>1, <1>2 DEF TypeInv, StepsOfKind

LEMMA UnreviewedGrows ==
  ASSUME TypeInv, NEW r \in Reqs, NEW new, Changes(r, new)
  PROVE  /\ Unreviewed' \subseteq Unreviewed \cup {r}
         /\ new.pc \notin {"essay", "review"} => Unreviewed' = Unreviewed \ {r}
         /\ IsFiniteSet(Unreviewed')
<1>1. /\ Unreviewed' \subseteq Unreviewed \cup {r}
      /\ new.pc \notin {"essay", "review"} => Unreviewed' = Unreviewed \ {r}
  BY DEF Changes, Unreviewed
<1>2. IsFiniteSet(Unreviewed \cup {r})
  BY FS_AddElement DEF TypeInv, Reviewed
<1>3. IsFiniteSet(Unreviewed')
  BY <1>1, <1>2, FS_Subset
<1> QED BY <1>1, <1>3

LEMMA ReviewedKept ==
  ASSUME TypeInv, NEW r \in Reqs, NEW new, Changes(r, new),
         review' = review, submits' = submits,
         new.pc \in {"essay", "review"} => r \in Unreviewed,
         new.pc = "close" => new.made \in DOMAIN review
  PROVE  Reviewed'
<1>1. Unreviewed' \subseteq Unreviewed
  BY DEF Changes, Unreviewed
<1>2. /\ IsFiniteSet(Unreviewed')
      /\ Cardinality(Unreviewed') <= Cardinality(Unreviewed)
      /\ Cardinality(Unreviewed') \in Nat /\ Cardinality(Unreviewed) \in Nat
  BY <1>1, FS_Subset, FS_CardinalityType DEF TypeInv, Reviewed
<1>3. Newest' = Newest /\ Newest \in Nat
  BY DEF Newest, TypeInv, Reviewed
<1>4. submits \in Nat /\ Newest + Cardinality(Unreviewed) <= submits
  BY DEF TypeInv, Reviewed, TypeOK
<1>5. Newest' + Cardinality(Unreviewed') <= submits'
  BY <1>2, <1>3, <1>4
<1>6. \A s \in Reqs : req'[s].pc = "close" => req'[s].made \in DOMAIN review'
  BY DEF Changes, SubmitSteps, EssaySteps, TypeInv, Reviewed
<1> QED BY <1>2, <1>3, <1>5, <1>6 DEF Reviewed

LEMMA AloneKept ==
  ASSUME IInv, NEW r \in Reqs, NEW new, Changes(r, new),
         torn => torn',
         new.pc \in {"answers", "mark", "score"} => Writing(r),
         new.pc \in ScoreSteps => Submitting(r)
  PROVE  Alone'
<1>1. /\ req'[r] = new
      /\ \A s \in Reqs \ {r} : req'[s].pc = req[s].pc
  BY DEF Changes
<1>2. \A s \in Reqs : /\ Writing(s)' => Writing(s)
                      /\ Submitting(s)' => Submitting(s)
  BY <1>1 DEF Writing, Submitting
<1> QED BY <1>2 DEF IInv, Alone

LEMMA MarksKept ==
  ASSUME IInv, NEW r \in Reqs, NEW new, Changes(r, new),
         torn => torn',
         \A q \in Questions : answer'[q].mark = answer[q].mark,
         new.pc \in {"mark", "score"} =>
           req[r].pc \in {"mark", "score"} /\ new.given = req[r].given
  PROVE  MarksStand'
<1>1. /\ req'[r] = new
      /\ \A s \in Reqs \ {r} : req'[s].pc = req[s].pc
      /\ \A s \in Reqs \ {r} : req'[s].pc \in {"mark", "score"} =>
                               req'[s].given = req[s].given
  BY DEF Changes, SubmitSteps, ScoreSteps
<1>2. ASSUME NEW s \in Reqs, req'[s].pc \in {"mark", "score"}
      PROVE  /\ req[s].pc \in {"mark", "score"}
             /\ req'[s].given = req[s].given
  BY <1>1, <1>2
<1> QED BY <1>2 DEF IInv, MarksStand

LEMMA FilledKept ==
  ASSUME IInv, NEW r \in Reqs, NEW new, Changes(r, new),
         kind' = kind,
         \/ answer' = answer
         \/ \A s \in Reqs \ {r} : Submitting(s) => req'[s].stale,
         kind = "reading" /\ new.pc \in {"persist", "read", "answers"}
           /\ ~new.stale =>
             \A q \in Questions :
               answer'[q].text # "blank" => new.given[q] # "blank"
  PROVE  Filled'
<1> SUFFICES ASSUME kind = "reading", NEW s \in Reqs,
                    req'[s].pc \in {"persist", "read", "answers"},
                    ~req'[s].stale, NEW q \in Questions,
                    answer'[q].text # "blank"
             PROVE  req'[s].given[q] # "blank"
  BY DEF Filled
<1>1. CASE s = r
  BY <1>1 DEF Changes
<1>2. CASE s # r
  <2>1. /\ req[s].pc \in {"persist", "read", "answers"}
        /\ req'[s].given = req[s].given /\ ~req[s].stale
    BY <1>2 DEF Changes, SubmitSteps, ScoreSteps
  <2>2. answer' = answer
    BY <1>2, <2>1 DEF Submitting, ScoreSteps
  <2> QED BY <2>1, <2>2 DEF IInv, Filled
<1> QED BY <1>1, <1>2

LEMMA ScoreKept ==
  ASSUME IInv, NEW r \in Reqs, NEW new, Changes(r, new), kind' = kind,
         torn => torn',
         attempt' = "completed" => attempt = "completed",
         score' = score,
         \A q \in Questions : answer'[q].mark = answer[q].mark,
         Writing(r) => torn' \/ new.pc \in {"answers", "mark", "score"}
  PROVE  ScoreIsTheCount'
<1> SUFFICES ASSUME kind # "writing", attempt' = "completed", Settled'
             PROVE  score' = Right(answer')
  BY DEF ScoreIsTheCount, Right
<1>1. Settled
  BY DEF Settled, Writing, Changes
<1>2. score = Right(answer)
  BY <1>1 DEF IInv, ScoreIsTheCount, Right
<1> QED BY <1>2, SameMarks

-----------------------------------------------------------------------------
(* The steps of a request                                                  *)

(* A request that ends, or does not submit, has nothing to keep.           *)
LEMMA Leaves ==
  ASSUME IInv, NEW r \in Reqs, NEW new, Changes(r, new),
         new.pc \in {"idle", "save", "abandon"},
         UNCHANGED <<kind, answer, score, review, submits>>,
         torn => torn', Writing(r) => torn',
         attempt' = "completed" => attempt = "completed" \/ kind = "writing",
         TypeOK'
  PROVE  IInv'
<1>0. /\ TypeInv
      /\ new.pc \notin ScoreSteps /\ new.pc \notin EssaySteps
      /\ new.pc \notin {"fill", "essay", "review", "close", "answers", "mark",
                        "score", "persist", "read"}
  BY DEF IInv, ScoreSteps, EssaySteps
<1>1. StepsOfKind'
  BY <1>0, StepsOfKindKept
<1>2. Reviewed'
  BY <1>0, ReviewedKept
<1>3. Alone'
  BY <1>0, AloneKept
<1>4. MarksStand'
  BY <1>0, MarksKept
<1>5. Filled'
  BY <1>0, FilledKept
<1>6. ScoreIsTheCount'
  <2>1. CASE kind = "writing"
    BY <2>1 DEF ScoreIsTheCount
  <2>2. CASE kind # "writing"
    BY <2>2, ScoreKept
  <2> QED BY <2>1, <2>2
<1> QED BY <1>1, <1>2, <1>3, <1>4, <1>5, <1>6 DEF IInv, TypeInv

LEMMA AskSaveStep == ASSUME IInv, NEW r \in Reqs, AskSave(r) PROVE IInv'
<1>1. PICK q \in Questions, text \in Texts :
        Do(r, [pc |-> "save", q |-> q, text |-> text])
  BY Questioned DEF AskSave
<1>2. PICK new \in Req : new = [pc |-> "save", q |-> q, text |-> text]
  BY ReqTypes
<1>3. Changes(r, new) /\ new.pc = "save" /\ TypeOK
  BY <1>1, <1>2, DoChanges DEF IInv, TypeInv
<1>4. TypeOK' /\ ~Writing(r)
  BY <1>3 DEF AskSave, At, exam, TypeOK, Changes, Writing
<1> QED BY <1>3, <1>4, Leaves DEF AskSave, exam

LEMMA AskAbandonStep == ASSUME IInv, NEW r \in Reqs, AskAbandon(r) PROVE IInv'
<1>1. PICK new \in Req : new = [pc |-> "abandon"]
  BY ReqTypes
<1>2. Changes(r, new) /\ new.pc = "abandon" /\ TypeOK
  BY <1>1, DoChanges DEF AskAbandon, IInv, TypeInv
<1>3. TypeOK' /\ ~Writing(r)
  BY <1>2 DEF AskAbandon, At, exam, TypeOK, Changes, Writing
<1> QED BY <1>2, <1>3, Leaves DEF AskAbandon, exam

LEMMA AbandonStep == ASSUME IInv, NEW r \in Reqs, Abandon(r) PROVE IInv'
<1>1. Changes(r, Idle) /\ Idle.pc = "idle" /\ TypeOK
  BY DoneChanges DEF Abandon, IInv, TypeInv, Idle
<1>2. TypeOK' /\ ~Writing(r)
  BY <1>1 DEF Abandon, At, TypeOK, Changes, Writing
<1> QED BY <1>1, <1>2, Leaves DEF Abandon

LEMMA FailsStep == ASSUME IInv, NEW r \in Reqs, Fails(r) PROVE IInv'
<1>1. Changes(r, Idle) /\ Idle.pc = "idle" /\ TypeOK
  BY DoneChanges DEF Fails, IInv, TypeInv, Idle
<1>2. /\ torn' \in BOOLEAN /\ faults' \in 0..MaxFaults
      /\ torn => torn' /\ (Writing(r) => torn')
  BY <1>1 DEF Fails, TypeOK, Writing
<1>3. TypeOK'
  BY <1>1, <1>2 DEF Fails, exam, TypeOK, Changes
<1> QED BY <1>1, <1>2, <1>3, Leaves DEF Fails, exam

LEMMA SaveStep == ASSUME IInv, NEW r \in Reqs, SaveAnswer(r) PROVE IInv'
<1>0. /\ TypeInv /\ TypeOK
      /\ req[r].pc = "save" /\ ~Writing(r) /\ Idle.pc = "idle"
  BY DEF SaveAnswer, At, Writing, IInv, TypeInv, Idle
<1>1. /\ Changes(r, Idle)
      /\ \A s \in Reqs \ {r} : Submitting(s) => req'[s].stale
  BY <1>0, OvertakeChanges, ReqTypes DEF SaveAnswer
<1>2. /\ answer' \in [Questions -> Answer]
      /\ \A q \in Questions : answer'[q].mark = answer[q].mark
  BY <1>0, Carried, StoredMarks DEF SaveAnswer
<1>3. TypeOK'
  BY <1>0, <1>1, <1>2 DEF SaveAnswer, TypeOK, Changes
<1>4. /\ UNCHANGED <<kind, attempt, score, review, submits, torn>>
      /\ Idle.pc \notin ScoreSteps /\ Idle.pc \notin EssaySteps
  BY <1>0 DEF SaveAnswer, ScoreSteps, EssaySteps
<1>5. StepsOfKind' /\ Reviewed'
  BY <1>0, <1>1, <1>4, StepsOfKindKept, ReviewedKept
<1>6. Alone' /\ MarksStand'
  BY <1>0, <1>1, <1>2, <1>4, AloneKept, MarksKept
<1>7. Filled' /\ ScoreIsTheCount'
  BY <1>0, <1>1, <1>2, <1>4, FilledKept, ScoreKept
<1> QED BY <1>3, <1>5, <1>6, <1>7 DEF IInv, TypeInv

(* A submission that starts finds no single writes, or tears.              *)
LEMMA AskSubmitStep == ASSUME IInv, NEW r \in Reqs, AskSubmit(r) PROVE IInv'
<1> DEFINE first == CASE kind = "reading"   -> "fill"
                      [] kind = "listening" -> "persist"
                      [] kind = "writing"   -> "essay"
<1>0. /\ TypeInv /\ TypeOK
      /\ req[r].pc = "idle" /\ ~Writing(r) /\ attempt = "in_progress"
      /\ UNCHANGED <<kind, attempt, answer, score, review, tasks, work,
                     faults>>
  BY DEF AskSubmit, At, Writing, exam, IInv, TypeInv
<1>1. /\ first \in {"fill", "persist", "essay"} /\ first \in SubmitSteps
      /\ first \in ScoreSteps => kind # "writing"
      /\ first \in EssaySteps => kind = "writing"
      /\ first = "fill" => kind = "reading"
      /\ kind = "reading" => first = "fill"
  BY <1>0 DEF TypeOK, SubmitSteps, ScoreSteps, EssaySteps
<1>2. PICK given \in [Questions -> Texts] :
        Do(r, [pc |-> first, given |-> given, stale |-> FALSE, made |-> 0])
  BY DEF AskSubmit
<1> HIDE DEF first
<1>3. PICK new \in Submission :
        new = [pc |-> first, given |-> given, stale |-> FALSE, made |-> 0]
  BY <1>1, ReqTypes
<1>4. Changes(r, new) /\ new.pc = first
  BY <1>0, <1>2, <1>3, DoChanges, ReqTypes
<1>5. /\ submits' = submits + 1 /\ submits' \in 0..MaxSubmits
      /\ torn' = (torn \/ \E s \in Reqs : Writing(s))
  BY <1>0 DEF AskSubmit, TypeOK
<1>6. torn' \in BOOLEAN /\ (torn => torn')
  BY <1>0, <1>5 DEF TypeOK
<1>7. TypeOK'
  BY <1>0, <1>4, <1>5, <1>6 DEF TypeOK, Changes
<1>8. StepsOfKind'
  BY <1>0, <1>1, <1>4, StepsOfKindKept
<1>9. Reviewed'
  <2>1. /\ Unreviewed' \subseteq Unreviewed \cup {r}
        /\ IsFiniteSet(Unreviewed') /\ IsFiniteSet(Unreviewed)
        /\ Newest + Cardinality(Unreviewed) <= submits
        /\ Newest \in Nat /\ Newest' = Newest /\ submits \in Nat
    BY <1>0, <1>4, UnreviewedGrows DEF TypeInv, TypeOK, Reviewed, Newest
  <2>2. /\ Cardinality(Unreviewed) \in Nat /\ Cardinality(Unreviewed') \in Nat
        /\ Cardinality(Unreviewed') <= Cardinality(Unreviewed \cup {r})
        /\ Cardinality(Unreviewed \cup {r}) <= Cardinality(Unreviewed) + 1
    BY <2>1, FS_AddElement, FS_Subset, FS_CardinalityType
  <2>3. Newest' + Cardinality(Unreviewed') <= submits'
    <3>1. Cardinality(Unreviewed \cup {r}) \in Nat
      BY <2>1, FS_AddElement, FS_CardinalityType
    <3> QED BY <1>5, <2>1, <2>2, <3>1
  <2>4. \A s \in Reqs : req'[s].pc = "close" => req'[s].made \in DOMAIN review'
    BY <1>0, <1>1, <1>4 DEF Changes, SubmitSteps, EssaySteps, TypeInv, Reviewed
  <2> QED BY <2>1, <2>3, <2>4 DEF Reviewed
<1>10. Alone'
  <2> SUFFICES ASSUME ~torn' PROVE \A s \in Reqs : ~Writing(s)'
    BY DEF Alone
  <2>1. \A s \in Reqs : ~Writing(s)
    BY <1>5
  <2> QED BY <1>1, <1>4, <2>1 DEF Changes, Writing
<1>11. MarksStand' /\ Filled' /\ ScoreIsTheCount'
  BY <1>0, <1>1, <1>4, <1>6, MarksKept, FilledKept, ScoreKept
<1> QED BY <1>7, <1>8, <1>9, <1>10, <1>11 DEF IInv, TypeInv

LEMMA FillStep == ASSUME IInv, NEW r \in Reqs, FillBlanks(r) PROVE IInv'
<1>0. /\ TypeInv /\ TypeOK
      /\ req[r].pc = "fill" /\ ~Writing(r) /\ Submitting(r)
      /\ kind = "reading"
      /\ UNCHANGED <<kind, attempt, answer, score, review, tasks, work,
                     submits, faults, torn>>
  BY DEF FillBlanks, At, Writing, Submitting, ScoreSteps, exam, IInv, TypeInv,
         StepsOfKind
<1>1. req[r] \in Submission /\ req[r].given \in [Questions -> Texts]
  BY <1>0, Carried DEF SubmitSteps, ScoreSteps
<1>2. PICK given \in [Questions -> Texts] :
        given = [q \in Questions |-> IF req[r].given[q] = "blank"
                                     THEN answer[q].text ELSE req[r].given[q]]
  BY <1>0, <1>1 DEF TypeOK, Answer
<1>3. PICK new \in Submission :
        new = [req[r] EXCEPT !.pc = "persist", !.given = given]
  BY <1>1, ReqTypes DEF SubmitSteps, ScoreSteps
<1>4. Do(r, new)
  BY <1>1, <1>2, <1>3 DEF FillBlanks, Submission
<1>5. Changes(r, new) /\ new.pc = "persist" /\ new.given = given
  BY <1>0, <1>1, <1>3, <1>4, DoChanges, ReqTypes DEF Submission
<1>6. \A q \in Questions : answer[q].text # "blank" => new.given[q] # "blank"
  BY <1>2, <1>5
<1>7. TypeOK'
  BY <1>0, <1>5 DEF TypeOK, Changes
<1>8. StepsOfKind' /\ Reviewed'
  BY <1>0, <1>5, StepsOfKindKept, ReviewedKept DEF EssaySteps
<1>9. Alone' /\ MarksStand' /\ ScoreIsTheCount'
  BY <1>0, <1>5, AloneKept, MarksKept, ScoreKept
<1>10. Filled'
  BY <1>0, <1>5, <1>6, FilledKept
<1> QED BY <1>7, <1>8, <1>9, <1>10 DEF IInv, TypeInv

(* The transaction marks, completes and counts at once.                    *)
LEMMA CommitStep ==
  ASSUME IInv, NEW r \in Reqs, req[r].pc = "persist", NEW new \in Req,
         new.pc = "idle" \/ /\ new.pc \in {"persist", "read"}
                            /\ new.given = req[r].given,
         Committed(r, new), faults' \in 0..MaxFaults,
         UNCHANGED <<kind, review, tasks, work, submits, torn>>
  PROVE  IInv'
<1>0. /\ TypeInv /\ TypeOK /\ ~Writing(r) /\ Submitting(r) /\ kind # "writing"
      /\ new.pc \notin EssaySteps /\ new.pc # "fill"
      /\ new.pc \notin {"answers", "mark", "score", "essay", "review", "close"}
  BY DEF IInv, TypeInv, StepsOfKind, Writing, Submitting, ScoreSteps,
     EssaySteps
<1>1. /\ Changes(r, new)
      /\ \A s \in Reqs \ {r} : Submitting(s) => req'[s].stale
  BY <1>0, OvertakeChanges DEF Committed
<1>2. req[r].given \in [Questions -> Texts]
  BY <1>0, Carried DEF SubmitSteps, ScoreSteps
<1>3. /\ answer' \in [Questions -> Answer] /\ score' \in 0..NumQuestions
      /\ score' = Right(answer')
      /\ \A q \in Questions : answer'[q].text = req[r].given[q]
  BY <1>2, MarkedCounts DEF Committed
<1>4. TypeOK'
  BY <1>0, <1>1, <1>3 DEF Committed, TypeOK, Changes
<1>5. StepsOfKind' /\ Reviewed'
  BY <1>0, <1>1, StepsOfKindKept, ReviewedKept
<1>6. Alone'
  BY <1>0, <1>1, AloneKept
<1>7. MarksStand'
  <2> SUFFICES ASSUME ~torn, NEW s \in Reqs, req'[s].pc \in {"mark", "score"}
               PROVE  FALSE
    BY DEF MarksStand
  <2>1. s # r /\ Writing(s)
    BY <1>0, <1>1 DEF Changes, Writing
  <2> QED BY <1>0, <2>1 DEF IInv, Alone
<1>8. Filled'
  BY <1>0, <1>1, <1>3, FilledKept
<1>9. ScoreIsTheCount'
  BY <1>3 DEF ScoreIsTheCount, Right
<1> QED BY <1>4, <1>5, <1>6, <1>7, <1>8, <1>9 DEF IInv, TypeInv

(* A step of a submission that writes nothing and does not begin to write. *)
LEMMA GoesOn ==
  ASSUME IInv, NEW r \in Reqs, req[r].pc = "persist",
         NEW pc \in {"persist", "read"}, Goto(r, pc), faults' \in 0..MaxFaults,
         UNCHANGED <<kind, exam, tasks, work, submits, torn>>
  PROVE  IInv'
<1>0. /\ TypeInv /\ TypeOK /\ ~Writing(r) /\ Submitting(r) /\ kind # "writing"
      /\ pc \notin {"fill", "answers", "mark", "score", "essay", "review",
                    "close"}
      /\ pc \in SubmitSteps /\ req[r].pc \in SubmitSteps
      /\ pc \notin EssaySteps
      /\ UNCHANGED <<attempt, answer, score, review>>
  BY DEF IInv, TypeInv, StepsOfKind, Writing, Submitting, ScoreSteps,
         EssaySteps, SubmitSteps, exam
<1>1. PICK new : new = [req[r] EXCEPT !.pc = pc]
  OBVIOUS
<1>2. /\ Changes(r, new)
      /\ new.pc = pc /\ new.given = req[r].given /\ new.stale = req[r].stale
  BY <1>0, <1>1, GotoChanges DEF Changes
<1>3. TypeOK'
  BY <1>0, <1>2 DEF TypeOK, Changes
<1>4. StepsOfKind' /\ Reviewed'
  BY <1>0, <1>2, StepsOfKindKept, ReviewedKept
<1>5. Alone' /\ MarksStand'
  BY <1>0, <1>2, AloneKept, MarksKept
<1>6. Filled'
  BY <1>0, <1>2, FilledKept DEF IInv, Filled
<1>7. ScoreIsTheCount'
  BY <1>0, <1>2, ScoreKept
<1> QED BY <1>3, <1>4, <1>5, <1>6, <1>7 DEF IInv, TypeInv

(* Without the transaction, the request ends.                              *)
LEMMA EndsIdle ==
  ASSUME IInv, NEW r \in Reqs, ~Writing(r), Done(r), faults' \in 0..MaxFaults,
         UNCHANGED <<kind, exam, tasks, work, submits, torn>>
  PROVE  IInv'
<1>1. Changes(r, Idle) /\ Idle.pc = "idle" /\ TypeOK
  BY DoneChanges DEF IInv, TypeInv, Idle
<1>2. TypeOK'
  BY <1>1 DEF exam, TypeOK, Changes
<1> QED BY <1>1, <1>2, Leaves DEF exam

LEMMA PersistStep ==
  ASSUME IInv, NEW r \in Reqs, Persist(r) \/ PersistUnanswered(r)
  PROVE  IInv'
<1>0. /\ TypeOK /\ req[r].pc = "persist" /\ ~Writing(r)
      /\ faults' \in 0..MaxFaults
      /\ UNCHANGED <<kind, review, tasks, work, submits, torn>>
  BY DEF Persist, PersistUnanswered, At, Writing, IInv, TypeInv, TypeOK
<1>1. CASE Transaction(r, Idle)
  <2>1. CASE Committed(r, Idle)
    BY <1>0, <2>1, CommitStep, ReqTypes DEF Idle
  <2>2. CASE Do(r, Idle) /\ UNCHANGED <<attempt, answer, score>>
    BY <1>0, <2>2, EndsIdle DEF Done, exam
  <2> QED BY <1>1, <2>1, <2>2 DEF Transaction
<1>2. ASSUME NEW next \in {"persist", "read"},
             \/ Transaction(r, [req[r] EXCEPT !.pc = next])
             \/ Goto(r, next) /\ UNCHANGED <<attempt, answer, score>>
      PROVE  IInv'
  <2>1. req[r] \in Submission /\ next \in SubmitSteps
    BY <1>0, Carried DEF SubmitSteps, ScoreSteps
  <2>2. PICK new \in Req : new = [req[r] EXCEPT !.pc = next]
    BY <2>1, ReqTypes
  <2>3. new.pc = next /\ new.given = req[r].given
    BY <2>1, <2>2 DEF Submission
  <2>4. CASE Committed(r, new)
    BY <1>0, <2>3, <2>4, CommitStep
  <2>5. CASE Goto(r, next) /\ UNCHANGED <<attempt, answer, score>>
    BY <1>0, <2>5, GoesOn DEF exam
  <2>6. Do(r, new) => Goto(r, next)
    BY <1>0, <2>2 DEF Do, Goto, TypeOK
  <2> QED BY <1>2, <2>2, <2>4, <2>5, <2>6 DEF Transaction
<1> QED BY <1>1, <1>2 DEF Persist, PersistUnanswered

(* The single writes are begun by a request that submits alone, or tears.  *)
LEMMA ReadStep == ASSUME IInv, NEW r \in Reqs, ReadStatus(r) PROVE IInv'
<1>0. /\ TypeInv /\ TypeOK /\ ~Writing(r) /\ Submitting(r) /\ kind # "writing"
      /\ req[r].pc = "read" /\ req[r].pc \in SubmitSteps
      /\ UNCHANGED <<kind, exam, tasks, work, submits, faults>>
  BY DEF ReadStatus, At, IInv, TypeInv, StepsOfKind, Writing, Submitting,
         ScoreSteps, SubmitSteps
<1>1. CASE Done(r) /\ UNCHANGED torn
  BY <1>0, <1>1, EndsIdle DEF TypeOK
<1>2. CASE /\ attempt = "in_progress" /\ Goto(r, "answers")
           /\ torn' = (torn \/ \E s \in Reqs \ {r} : Submitting(s))
  <2>0. /\ UNCHANGED <<attempt, answer, score, review>>
        /\ "answers" \in SubmitSteps /\ "answers" \notin EssaySteps
        /\ torn' \in BOOLEAN /\ (torn => torn')
    BY <1>0, <1>2 DEF exam, SubmitSteps, ScoreSteps, EssaySteps, TypeOK
  <2>1. PICK new : new = [req[r] EXCEPT !.pc = "answers"]
    OBVIOUS
  <2>2. /\ Changes(r, new) /\ new.pc = "answers"
        /\ new.given = req[r].given /\ new.stale = req[r].stale
    BY <1>0, <1>2, <2>0, <2>1, GotoChanges DEF Changes
  <2>3. TypeOK'
    BY <1>0, <2>0, <2>2 DEF TypeOK, Changes
  <2>4. StepsOfKind' /\ Reviewed'
    BY <1>0, <2>0, <2>2, StepsOfKindKept, ReviewedKept
  <2>5. Alone'
    <3> SUFFICES ASSUME ~torn', NEW s \in Reqs, Submitting(s)' PROVE s = r
      BY DEF Alone, Writing, Submitting, ScoreSteps
    <3>1. s # r => Submitting(s)
      BY <2>2 DEF Changes, Submitting
    <3> QED BY <1>2, <3>1
  <2>6. MarksStand' /\ Filled'
    BY <1>0, <2>0, <2>2, MarksKept, FilledKept DEF IInv, Filled
  <2>7. ScoreIsTheCount'
    BY <1>2, <2>0 DEF ScoreIsTheCount
  <2> QED BY <2>3, <2>4, <2>5, <2>6, <2>7 DEF IInv, TypeInv
<1> QED BY <1>1, <1>2 DEF ReadStatus

LEMMA StoreAnswersStep ==
  ASSUME IInv, NEW r \in Reqs, StoreAnswers(r) PROVE IInv'
<1>0. /\ TypeInv /\ TypeOK /\ Writing(r) /\ Submitting(r) /\ kind # "writing"
      /\ req[r].pc = "answers" /\ "mark" \in SubmitSteps
      /\ "mark" \notin EssaySteps
      /\ UNCHANGED <<kind, attempt, score, review, tasks, work, submits,
                     faults, torn>>
  BY DEF StoreAnswers, At, IInv, TypeInv, StepsOfKind, Writing, Submitting,
         ScoreSteps, EssaySteps, SubmitSteps
<1>1. req[r] \in Submission /\ req[r].given \in [Questions -> Texts]
  BY <1>0, Carried DEF SubmitSteps, ScoreSteps
<1>2. PICK new \in Req : new = [req[r] EXCEPT !.pc = "mark"]
  BY <1>0, <1>1, ReqTypes
<1>3. new.pc = "mark" /\ new.given = req[r].given
  BY <1>1, <1>2 DEF Submission
<1>4. /\ Changes(r, new)
      /\ \A s \in Reqs \ {r} : Submitting(s) => req'[s].stale
  BY <1>0, <1>2, OvertakeChanges DEF StoreAnswers
<1>5. /\ answer' \in [Questions -> Answer]
      /\ \A q \in Questions :
           answer'[q].mark = "right" <=> req[r].given[q] = "good"
  BY <1>1, MarkedCounts DEF StoreAnswers
<1>6. TypeOK'
  BY <1>0, <1>4, <1>5 DEF TypeOK, Changes
<1>7. StepsOfKind' /\ Reviewed'
  BY <1>0, <1>3, <1>4, StepsOfKindKept, ReviewedKept
<1>8. Alone'
  BY <1>0, <1>3, <1>4, AloneKept
<1>9. MarksStand'
  <2> SUFFICES ASSUME ~torn, NEW s \in Reqs, req'[s].pc \in {"mark", "score"}
               PROVE  \A q \in Questions :
                        answer'[q].mark = "right" <=> req'[s].given[q] = "good"
    BY <1>0 DEF MarksStand
  <2>1. s # r => Writing(s)
    BY <1>4 DEF Changes, Writing
  <2>2. s = r
    BY <1>0, <2>1 DEF IInv, Alone
  <2> QED BY <1>3, <1>4, <1>5, <2>2 DEF Changes
<1>10. Filled'
  BY <1>0, <1>3, <1>4, FilledKept
<1>11. ScoreIsTheCount'
  BY <1>3, <1>4 DEF Changes, ScoreIsTheCount, Settled, Writing
<1> QED BY <1>6, <1>7, <1>8, <1>9, <1>10, <1>11 DEF IInv, TypeInv

LEMMA MarkStep == ASSUME IInv, NEW r \in Reqs, MarkCompleted(r) PROVE IInv'
<1>0. /\ TypeInv /\ TypeOK /\ Writing(r) /\ Submitting(r) /\ kind # "writing"
      /\ req[r].pc = "mark" /\ req[r].pc \in SubmitSteps
      /\ "score" \in SubmitSteps /\ "score" \notin EssaySteps
      /\ UNCHANGED <<kind, answer, score, review, tasks, work, submits,
                     faults, torn>>
  BY DEF MarkCompleted, At, IInv, TypeInv, StepsOfKind, Writing, Submitting,
         ScoreSteps, EssaySteps, SubmitSteps
<1>1. PICK new : new = [req[r] EXCEPT !.pc = "score"]
  OBVIOUS
<1>2. Changes(r, new) /\ new.pc = "score" /\ new.given = req[r].given
  BY <1>0, <1>1, GotoChanges DEF MarkCompleted, Changes
<1>3. TypeOK'
  BY <1>0, <1>2 DEF MarkCompleted, TypeOK, Changes
<1>4. StepsOfKind' /\ Reviewed'
  BY <1>0, <1>2, StepsOfKindKept, ReviewedKept
<1>5. Alone' /\ MarksStand' /\ Filled'
  BY <1>0, <1>2, AloneKept, MarksKept, FilledKept
<1>6. ScoreIsTheCount'
  BY <1>2 DEF Changes, ScoreIsTheCount, Settled, Writing
<1> QED BY <1>3, <1>4, <1>5, <1>6 DEF IInv, TypeInv

(* The last single write counts the answers the first one stored.          *)
LEMMA StoreScoreStep == ASSUME IInv, NEW r \in Reqs, StoreScore(r) PROVE IInv'
<1>0. /\ TypeInv /\ TypeOK /\ Writing(r) /\ Submitting(r) /\ kind # "writing"
      /\ req[r].pc = "score" /\ req[r].pc \in SubmitSteps
      /\ Idle.pc \notin SubmitSteps /\ Idle.pc = "idle"
      /\ UNCHANGED <<kind, attempt, answer, review, tasks, work,
                     submits, faults, torn>>
  BY DEF StoreScore, At, IInv, TypeInv, StepsOfKind, Writing, Submitting,
         ScoreSteps, EssaySteps, SubmitSteps, Idle
<1>1. Changes(r, Idle)
  BY <1>0, DoneChanges DEF StoreScore
<1>2. score' \in 0..NumQuestions
  BY <1>0, Carried, MarkedCounts DEF StoreScore
<1>3. TypeOK'
  BY <1>0, <1>1, <1>2 DEF TypeOK, Changes
<1>4. StepsOfKind' /\ Reviewed'
  BY <1>0, <1>1, StepsOfKindKept, ReviewedKept DEF SubmitSteps
<1>5. Alone' /\ MarksStand' /\ Filled'
  BY <1>0, <1>1, AloneKept, MarksKept, FilledKept DEF SubmitSteps
<1>6. ScoreIsTheCount'
  <2> SUFFICES ASSUME ~torn PROVE score' = Right(answer)
    BY <1>0 DEF ScoreIsTheCount, Settled, Right
  <2>1. {q \in Questions : answer[q].mark = "right"}
          = {q \in Questions : req[r].given[q] = "good"}
    BY <1>0 DEF IInv, MarksStand
  <2> QED BY <2>1 DEF StoreScore, Count, Right
<1> QED BY <1>3, <1>4, <1>5, <1>6 DEF IInv, TypeInv

(* The steps of an essay leave marks and score alone.                      *)
LEMMA EssayKeeps ==
  ASSUME IInv, NEW r \in Reqs, req[r].pc \in EssaySteps,
         NEW pc \in {"idle", "review", "close"},
         \A s \in Reqs \ {r} : req'[s] = req[s],
         req'[r].pc = pc, UNCHANGED <<kind, torn>>
  PROVE  /\ kind = "writing"
         /\ StepsOfKind' /\ Alone' /\ MarksStand' /\ Filled'
         /\ ScoreIsTheCount'
<1>0. /\ kind = "writing" /\ kind # "reading"
      /\ pc \notin ScoreSteps /\ pc # "fill"
      /\ \A s \in Reqs : req[s].pc \notin ScoreSteps
  BY DEF IInv, TypeInv, StepsOfKind, ScoreSteps, EssaySteps
<1>1. \A s \in Reqs : req'[s].pc \notin ScoreSteps
  BY <1>0
<1>2. StepsOfKind'
  BY <1>0, <1>1 DEF StepsOfKind, ScoreSteps
<1>3. Alone' /\ MarksStand'
  BY <1>1 DEF Alone, MarksStand, Submitting, ScoreSteps
<1>4. Filled' /\ ScoreIsTheCount'
  BY <1>0 DEF Filled, ScoreIsTheCount
<1> QED BY <1>0, <1>2, <1>3, <1>4

LEMMA StoreEssayStep == ASSUME IInv, NEW r \in Reqs, StoreEssay(r) PROVE IInv'
<1>0. /\ TypeInv /\ TypeOK /\ req[r].pc = "essay"
      /\ req[r].pc \in EssaySteps /\ req[r].pc \in SubmitSteps
      /\ "review" \in SubmitSteps
      /\ UNCHANGED <<kind, attempt, score, review, tasks, work, submits,
                     faults, torn>>
  BY DEF StoreEssay, At, IInv, TypeInv, EssaySteps, SubmitSteps
<1>1. PICK new : new = [req[r] EXCEPT !.pc = "review"]
  OBVIOUS
<1>2. /\ Changes(r, new) /\ new.pc = "review"
      /\ \A s \in Reqs \ {r} : req'[s] = req[s]
  BY <1>0, <1>1, GotoChanges DEF StoreEssay, Goto, Changes, TypeOK
<1>3. answer' \in [Questions -> Answer]
  BY <1>0, Carried, StoredMarks, Questioned DEF StoreEssay
<1>4. TypeOK'
  BY <1>0, <1>2, <1>3 DEF TypeOK, Changes
<1>5. Reviewed'
  BY <1>0, <1>2, ReviewedKept DEF Unreviewed
<1>6. StepsOfKind' /\ Alone' /\ MarksStand' /\ Filled' /\ ScoreIsTheCount'
  BY <1>0, <1>2, EssayKeeps DEF Changes
<1> QED BY <1>4, <1>5, <1>6 DEF IInv, TypeInv

(* There is room for the review of a submission that has none.             *)
LEMMA InsertReviewStep ==
  ASSUME IInv, NEW r \in Reqs, InsertReview(r) PROVE IInv'
<1>0. /\ TypeInv /\ TypeOK /\ req[r].pc = "review" /\ r \in Unreviewed
      /\ req[r].pc \in EssaySteps /\ req[r].pc \in SubmitSteps
      /\ "close" \in SubmitSteps
      /\ UNCHANGED <<kind, attempt, answer, score, tasks, work, submits,
                     faults, torn>>
  BY DEF InsertReview, At, IInv, TypeInv, EssaySteps, SubmitSteps, Unreviewed
<1>1. /\ Newest \in Nat /\ submits \in 0..MaxSubmits
      /\ IsFiniteSet(Unreviewed) /\ Newest + Cardinality(Unreviewed) <= submits
      /\ DOMAIN review = 1..Newest
  BY <1>0 DEF TypeInv, Reviewed, TypeOK, Newest
<1>2. /\ IsFiniteSet(Unreviewed \ {r})
      /\ Cardinality(Unreviewed \ {r}) = Cardinality(Unreviewed) - 1
      /\ Cardinality(Unreviewed) \in Nat
      /\ Cardinality(Unreviewed \ {r}) \in Nat
  BY <1>0, <1>1, FS_RemoveElement, FS_CardinalityType
<1>3. Newest + 1 \in 0..MaxSubmits
  BY <1>1, <1>2
<1>4. /\ DOMAIN review' = 1..(Newest + 1) /\ Newest' = Newest + 1
      /\ \A k \in 1..(Newest + 1) : review'[k] \in Terminal \cup {"pending"}
  <2>1. /\ DOMAIN review' = 1..(Newest + 1)
        /\ \A k \in 1..(Newest + 1) : review'[k] = Reviews(k)
    BY DEF InsertReview
  <2>2. Cardinality(1..(Newest + 1)) = Newest + 1
    BY <1>1, FS_Interval
  <2>3. \A k \in 1..(Newest + 1) : k <= Newest => k \in DOMAIN review
    BY <1>1
  <2> QED BY <1>0, <2>1, <2>2, <2>3 DEF Reviews, TypeOK, Newest
<1>5. DOMAIN review \subseteq DOMAIN review'
  BY <1>1, <1>4
<1>6. req[r] \in Submission
  BY <1>0, Carried
<1>7. PICK new \in Submission :
        new = [req[r] EXCEPT !.pc = "close", !.made = Newest + 1]
  BY <1>0, <1>3, <1>6, ReqTypes
<1>8. /\ Changes(r, new) /\ new.pc = "close" /\ new.made = Newest + 1
      /\ \A s \in Reqs \ {r} : req'[s] = req[s]
  <2>1. Do(r, new)
    BY <1>7 DEF InsertReview
  <2>2. Changes(r, new)
    BY <1>0, <2>1, DoChanges, ReqTypes
  <2>3. new.pc = "close" /\ new.made = Newest + 1
    BY <1>6, <1>7 DEF Submission
  <2>4. \A s \in Reqs \ {r} : req'[s] = req[s]
    BY <1>0, <2>1 DEF Do, TypeOK
  <2> QED BY <2>2, <2>3, <2>4
<1>9. TypeOK'
  <2>1. DOMAIN review' = 1..Cardinality(DOMAIN review')
    BY <1>4 DEF Newest
  <2>2. tasks' \subseteq DOMAIN review'
        /\ work' \in [Workers -> {0} \cup DOMAIN review']
    BY <1>0, <1>5 DEF TypeOK
  <2>3. \A k \in DOMAIN review' : review'[k] \in Terminal \cup {"pending"}
    BY <1>4
  <2>4. req' \in [Reqs -> Req]
    BY <1>8 DEF Changes
  <2> QED BY <1>0, <2>1, <2>2, <2>3, <2>4 DEF TypeOK
<1>10. Reviewed'
  <2>1. Unreviewed' = Unreviewed \ {r}
    BY <1>0, <1>8, UnreviewedGrows
  <2>2. Newest' + Cardinality(Unreviewed') <= submits'
    BY <1>0, <1>1, <1>2, <1>4, <2>1
  <2>3. ASSUME NEW s \in Reqs, req'[s].pc = "close"
        PROVE  req'[s].made \in DOMAIN review'
    <3>1. CASE s = r
      BY <1>1, <1>4, <1>8, <3>1 DEF Changes
    <3>2. CASE s # r
      BY <1>0, <1>5, <1>8, <2>3, <3>2 DEF TypeInv, Reviewed
    <3> QED BY <3>1, <3>2
  <2>4. Newest' \in Nat
    BY <1>1, <1>4
  <2> QED BY <1>2, <2>1, <2>2, <2>3, <2>4 DEF Reviewed
<1>11. StepsOfKind' /\ Alone' /\ MarksStand' /\ Filled' /\ ScoreIsTheCount'
  BY <1>0, <1>8, EssayKeeps DEF Changes
<1> QED BY <1>9, <1>10, <1>11 DEF IInv, TypeInv

LEMMA CloseStep == ASSUME IInv, NEW r \in Reqs, CloseAttempt(r) PROVE IInv'
<1>0. /\ TypeInv /\ TypeOK /\ req[r].pc = "close" /\ kind = "writing"
      /\ ~Writing(r) /\ req[r].made \in DOMAIN review
      /\ UNCHANGED <<kind, answer, score, review, work, submits, faults, torn>>
  BY DEF CloseAttempt, At, IInv, TypeInv, StepsOfKind, EssaySteps, Writing,
         Reviewed
<1>1. Changes(r, Idle) /\ Idle.pc = "idle"
  BY <1>0, DoneChanges DEF CloseAttempt, Idle
<1>2. TypeOK'
  BY <1>0, <1>1 DEF CloseAttempt, TypeOK, Changes
<1> QED BY <1>0, <1>1, <1>2, Leaves

-----------------------------------------------------------------------------
(* The steps of an evaluation                                              *)

(* No evaluation touches a request, an answer, a mark or the score.        *)
LEMMA Aside ==
  ASSUME IInv, TypeOK', DOMAIN review' = DOMAIN review,
         UNCHANGED <<kind, attempt, answer, score, req, submits, torn>>
  PROVE  IInv'
<1>1. TypeInv'
  BY DEF IInv, TypeInv, StepsOfKind, Reviewed, Newest, Unreviewed
<1>2. Alone' /\ MarksStand' /\ Filled' /\ ScoreIsTheCount'
  BY DEF IInv, Alone, MarksStand, Filled, ScoreIsTheCount, Settled, Writing,
         Submitting
<1> QED BY <1>1, <1>2 DEF IInv

LEMMA EvaluationStep ==
  ASSUME IInv,
         \/ \E w \in Workers : Begin(w) \/ Evaluate(w) \/ EvaluationFails(w)
         \/ OpenReview \/ LoseTasks
  PROVE  IInv'
<1>0. TypeOK
  BY DEF IInv, TypeInv
<1>1. ASSUME NEW w \in Workers, Begin(w) PROVE IInv'
  <2>1. TypeOK' /\ review' = review
    BY <1>0, <1>1 DEF Begin, exam, TypeOK
  <2> QED BY <1>1, <2>1, Aside DEF Begin, exam
<1>2. ASSUME NEW w \in Workers, Evaluate(w) PROVE IInv'
  <2>1. PICK status \in Terminal :
          review' = [review EXCEPT ![work[w]] = status]
    BY <1>2 DEF Evaluate
  <2>2. /\ DOMAIN review' = DOMAIN review
        /\ \A k \in DOMAIN review : review'[k] \in Terminal \cup {"pending"}
    BY <1>0, <2>1 DEF TypeOK
  <2>3. TypeOK'
    BY <1>0, <1>2, <2>2 DEF Evaluate, TypeOK
  <2> QED BY <1>2, <2>2, <2>3, Aside DEF Evaluate
<1>3. ASSUME NEW w \in Workers, EvaluationFails(w) PROVE IInv'
  <2>1. TypeOK' /\ review' = review
    BY <1>0, <1>3 DEF EvaluationFails, exam, TypeOK
  <2> QED BY <1>3, <2>1, Aside DEF EvaluationFails, exam
<1>4. CASE OpenReview
  <2>1. Newest \in DOMAIN review
    <3>1. Newest \in Nat /\ Newest # 0 /\ DOMAIN review = 1..Newest
      BY <1>0, <1>4 DEF OpenReview, IInv, TypeInv, Reviewed, TypeOK, Newest
    <3> QED BY <3>1
  <2>2. TypeOK' /\ review' = review
    BY <1>0, <1>4, <2>1 DEF OpenReview, exam, TypeOK
  <2> QED BY <1>4, <2>2, Aside DEF OpenReview, exam
<1>5. CASE LoseTasks
  <2>1. TypeOK' /\ review' = review
    BY <1>0, <1>5 DEF LoseTasks, exam, TypeOK
  <2> QED BY <1>5, <2>1, Aside DEF LoseTasks, exam
<1> QED BY <1>1, <1>2, <1>3, <1>4, <1>5

-----------------------------------------------------------------------------
(* The theorems                                                            *)

LEMMA RequestStep ==
  ASSUME IInv, NEW r \in Reqs,
         AskSave(r) \/ AskSubmit(r) \/ AskAbandon(r) \/ ReqStep(r) \/ Fails(r)
  PROVE  IInv'
  BY AskSaveStep, AskSubmitStep, AskAbandonStep, FailsStep, SaveStep, FillStep,
     PersistStep, ReadStep, StoreAnswersStep, MarkStep, StoreScoreStep,
     StoreEssayStep, InsertReviewStep, CloseStep, AbandonStep DEF ReqStep

LEMMA InvCorrect == Spec => []IInv
<1>1. Init => IInv
  <2> SUFFICES ASSUME Init PROVE IInv
    OBVIOUS
  <2>1. Newest = 0 /\ DOMAIN review = {} /\ 1..0 = {}
    BY FS_EmptySet DEF Init, Newest
  <2>2. TypeOK
    <3>1. req \in [Reqs -> Req]
      BY ReqTypes DEF Init
    <3>2. answer \in [Questions -> Answer]
      BY DEF Init, Answer, Texts
    <3>3. score \in {NoScore} \cup 0..NumQuestions
      BY DEF Init
    <3>4. submits \in 0..MaxSubmits /\ faults \in 0..MaxFaults
      BY DEF Init
    <3>5. /\ DOMAIN review = 1..Cardinality(DOMAIN review)
          /\ \A k \in DOMAIN review : review[k] \in Terminal \cup {"pending"}
          /\ tasks \subseteq DOMAIN review
          /\ work \in [Workers -> {0} \cup DOMAIN review]
      BY <2>1 DEF Init, Newest
    <3> QED BY <3>1, <3>2, <3>3, <3>4, <3>5 DEF Init, TypeOK
  <2>3. Unreviewed = {} /\ Cardinality(Unreviewed) = 0
    BY FS_EmptySet DEF Init, Idle, Unreviewed
  <2>4. TypeInv
    BY <2>1, <2>2, <2>3, FS_EmptySet
       DEF Init, Idle, TypeInv, StepsOfKind, Reviewed, ScoreSteps, EssaySteps
  <2>5. Alone /\ MarksStand /\ Filled /\ ScoreIsTheCount
    BY DEF Init, Idle, Alone, MarksStand, Filled, ScoreIsTheCount, Writing
  <2> QED BY <2>4, <2>5 DEF IInv
<1>2. IInv /\ [Next]_vars => IInv'
  <2> SUFFICES ASSUME IInv, [Next]_vars PROVE IInv'
    OBVIOUS
  <2>1. CASE UNCHANGED vars
    <3>1. TypeOK'
      BY <2>1 DEF vars, exam, IInv, TypeInv, TypeOK
    <3> QED BY <2>1, <3>1, Aside DEF vars, exam
  <2> QED BY <2>1, RequestStep, EvaluationStep DEF Next
<1> QED BY <1>1, <1>2, PTL DEF Spec

(* The variables have their types: in particular every submission makes    *)
(* one review at most, and an evaluation is of a review that exists.       *)
THEOREM TypeCorrect == Spec => []TypeOK
<1>1. IInv => TypeOK
  BY DEF IInv, TypeInv
<1> QED BY <1>1, InvCorrect, PTL

(* The score of a finished part counts its right answers, whatever late    *)
(* saves, lost calls and other submissions there were.                     *)
THEOREM ScoreIsTheCountCorrect == Spec => []ScoreIsTheCount
<1>1. IInv => ScoreIsTheCount
  BY DEF IInv
<1> QED BY <1>1, InvCorrect, PTL

(* What was submitted stays: no step of a finished part whose single       *)
(* writes are over changes its marks or its score, or opens it again.      *)
THEOREM SubmittedStaysCorrect == Spec => SubmittedStays
<1> DEFINE Stays == kind # "writing" /\ attempt = "completed" /\ Settled =>
             /\ score' = score
             /\ \A q \in Questions : answer'[q].mark = answer[q].mark
             /\ attempt' # "in_progress"
<1>1. IInv /\ [Next]_vars => [Stays]_vars
  <2> SUFFICES ASSUME IInv, Next, kind # "writing", attempt = "completed",
                      Settled
               PROVE  /\ score' = score
                      /\ \A q \in Questions : answer'[q].mark = answer[q].mark
                      /\ attempt' # "in_progress"
    OBVIOUS
  <2>0. TypeOK
    BY DEF IInv, TypeInv
  <2>1. ASSUME NEW r \in Reqs
        PROVE  req[r].pc \notin {"answers", "mark", "score", "essay", "review",
                                 "close"}
    BY DEF IInv, TypeInv, StepsOfKind, EssaySteps, Settled, Writing
  <2>2. ASSUME NEW r \in Reqs, SaveAnswer(r)
        PROVE  \A q \in Questions : answer'[q].mark = answer[q].mark
    BY <2>0, <2>2, Carried, StoredMarks DEF SaveAnswer, At
  <2>3. ASSUME NEW r \in Reqs, Persist(r) \/ PersistUnanswered(r)
        PROVE  UNCHANGED <<attempt, answer, score>>
    BY <2>3 DEF Persist, PersistUnanswered, Transaction
  <2>4. ASSUME NEW r \in Reqs,
               \/ AskSave(r) \/ AskSubmit(r) \/ AskAbandon(r) \/ Fails(r)
               \/ FillBlanks(r) \/ ReadStatus(r)
        PROVE  UNCHANGED <<attempt, answer, score>>
    BY <2>4 DEF AskSave, AskSubmit, AskAbandon, Fails, FillBlanks, ReadStatus,
                exam
  <2>5. ASSUME \/ \E w \in Workers :
                    Begin(w) \/ Evaluate(w) \/ EvaluationFails(w)
               \/ OpenReview \/ LoseTasks
        PROVE  UNCHANGED <<attempt, answer, score>>
    BY <2>5 DEF Begin, Evaluate, EvaluationFails, OpenReview, LoseTasks, exam
  <2>6. ASSUME NEW r \in Reqs, SaveAnswer(r) \/ Abandon(r)
        PROVE  score' = score /\ attempt' # "in_progress"
    BY <2>6 DEF SaveAnswer, Abandon
  <2>7. ASSUME NEW r \in Reqs, Abandon(r) PROVE answer' = answer
    BY <2>7 DEF Abandon
  <2>8. ASSUME NEW r \in Reqs,
               \/ StoreAnswers(r) \/ MarkCompleted(r) \/ StoreScore(r)
               \/ StoreEssay(r) \/ InsertReview(r) \/ CloseAttempt(r)
        PROVE  FALSE
    BY <2>1, <2>8 DEF StoreAnswers, MarkCompleted, StoreScore, StoreEssay,
                      InsertReview, CloseAttempt, At
  <2> QED BY <2>2, <2>3, <2>4, <2>5, <2>6, <2>7, <2>8 DEF Next, ReqStep
<1> QED BY <1>1, InvCorrect, PTL DEF Spec, SubmittedStays

(* The transaction of a submission, or its first single write, leaves no   *)
(* blank where an answer was, if the submission is up to date.             *)
LEMMA KeepsSaved ==
  ASSUME IInv, NEW r \in Reqs, kind = "reading",
         req[r].pc \in {"persist", "answers"}, ~req[r].stale,
         answer' = answer \/ answer' = Marked(req[r].given),
         NEW q \in Questions, answer[q].text # "blank"
  PROVE  answer'[q].text # "blank"
<1>1. req[r].given[q] # "blank"
  BY DEF IInv, Filled
<1>2. req[r].given \in [Questions -> Texts]
  BY Carried DEF IInv, TypeInv, SubmitSteps, ScoreSteps
<1> QED BY <1>1, <1>2, MarkedCounts

(* A reading submission loses no saved answer to a blank of its payload.   *)
THEOREM SavedIsKeptCorrect == Spec => SavedIsKept
<1> DEFINE Keeps == \A r \in Reqs :
             /\ kind = "reading" /\ req[r].pc \in {"persist", "answers"}
             /\ ~req[r].stale /\ req'[r].pc # req[r].pc
             => \A q \in Questions :
                  answer[q].text # "blank" => answer'[q].text # "blank"
<1>1. IInv /\ [Next]_vars => [Keeps]_vars
  <2> SUFFICES ASSUME IInv, Next, NEW r \in Reqs, kind = "reading",
                      req[r].pc \in {"persist", "answers"}, ~req[r].stale,
                      req'[r].pc # req[r].pc
               PROVE  answer' = answer \/ answer' = Marked(req[r].given)
    BY KeepsSaved
  <2>0. TypeOK /\ TypeInv
    BY DEF IInv, TypeInv
  <2>1. ASSUME NEW s \in Reqs \ {r}, NEW new, Do(s, new) \/ Overtake(s, new)
        PROVE  FALSE
    <3>1. CASE Do(s, new)
      BY <2>0, <2>1, <3>1 DEF Do, TypeOK
    <3>2. CASE Overtake(s, new)
      <4>1. req'[r] = req[r] \/ req'[r] = [req[r] EXCEPT !.stale = TRUE]
        BY <2>0, <3>2 DEF Overtake, TypeOK
      <4>2. req[r] \in Submission
        BY <2>0, Carried DEF SubmitSteps, ScoreSteps
      <4> QED BY <4>1, <4>2 DEF Submission
    <3> QED BY <2>1, <3>1, <3>2
  <2>2. ASSUME NEW s \in Reqs,
               \/ AskSave(s) \/ AskSubmit(s) \/ AskAbandon(s) \/ Fails(s)
               \/ FillBlanks(s) \/ ReadStatus(s) \/ MarkCompleted(s)
               \/ StoreScore(s) \/ InsertReview(s) \/ CloseAttempt(s)
               \/ Abandon(s)
        PROVE  answer' = answer
    BY <2>2 DEF AskSave, AskSubmit, AskAbandon, Fails, FillBlanks, ReadStatus,
                MarkCompleted, StoreScore, InsertReview, CloseAttempt, Abandon,
                exam
  <2>3. ASSUME \/ \E w \in Workers :
                    Begin(w) \/ Evaluate(w) \/ EvaluationFails(w)
               \/ OpenReview \/ LoseTasks
        PROVE  answer' = answer
    BY <2>3 DEF Begin, Evaluate, EvaluationFails, OpenReview, LoseTasks, exam
  <2>4. ASSUME NEW s \in Reqs, Persist(s) \/ PersistUnanswered(s)
        PROVE  answer' = answer \/ answer' = Marked(req[r].given)
    <3>1. CASE s = r
      BY <2>4, <3>1 DEF Persist, PersistUnanswered, Transaction, Committed
    <3>2. CASE s # r
      BY <2>1, <2>4, <3>2 DEF Persist, PersistUnanswered, Transaction,
         Committed
    <3> QED BY <3>1, <3>2
  <2>5. ASSUME NEW s \in Reqs, SaveAnswer(s) \/ StoreEssay(s) PROVE FALSE
    <3>1. CASE SaveAnswer(s)
      BY <2>1, <3>1 DEF SaveAnswer, At
    <3>2. CASE StoreEssay(s)
      BY <2>0, <3>2 DEF StoreEssay, At, TypeInv, StepsOfKind, EssaySteps
    <3> QED BY <2>5, <3>1, <3>2
  <2>6. ASSUME NEW s \in Reqs, StoreAnswers(s)
        PROVE  answer' = Marked(req[r].given)
    BY <2>1, <2>6 DEF StoreAnswers
  <2> QED BY <2>2, <2>3, <2>4, <2>5, <2>6 DEF Next, ReqStep
<1> QED BY <1>1, InvCorrect, PTL DEF Spec, SavedIsKept

=============================================================================
