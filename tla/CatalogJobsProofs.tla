-------------------------- MODULE CatalogJobsProofs --------------------------
(***************************************************************************)
(* Machine-checked proofs about CatalogJobs, for every number of users,    *)
(* days and workers, every size of a page and every number of faults.      *)
(***************************************************************************)
EXTENDS CatalogJobs, TLAPS, FiniteSetTheorems, WellFoundedInduction

USE CatalogAssumption

-----------------------------------------------------------------------------
(* Sets of numbers                                                         *)

(* A set of natural numbers that is not empty has a least element ...      *)
LEMMA Least ==
  ASSUME NEW S \in SUBSET Nat, S # {}
  PROVE  \E m \in S : \A x \in S : m <= x
<1> DEFINE Below(m) == {x \in S : x <= m}
           Cuts     == {Below(m) : m \in S}
<1>1. Cuts \subseteq FiniteSubsetsOf(Nat) /\ Cuts # {}
  <2>1. \A m \in S : Below(m) \in SUBSET Nat /\ IsFiniteSet(Below(m))
    BY FS_BoundedSetOfNaturals
  <2>2. \A m \in S : Below(m) \in FiniteSubsetsOf(Nat)
    BY <2>1 DEF FiniteSubsetsOf
  <2> HIDE DEF Below
  <2> QED BY <2>2
<1>2. PICK C \in Cuts :
        \A D \in Cuts : <<D, C>> \notin StrictSubsetOrdering(Nat)
  BY <1>1, WFMin, FS_StrictSubsetOrderingWellFounded, Zenon
<1>3. PICK m \in S : C = Below(m)
  OBVIOUS
<1>4. ASSUME NEW x \in S, x < m PROVE FALSE
  <2>1. x \in Nat /\ m \in Nat /\ x <= m /\ ~(m <= x)
    BY <1>4
  <2>2. \A y \in Nat : y <= x => y <= m
    BY <2>1
  <2>3. /\ Below(x) \subseteq Below(m)
        /\ m \notin Below(x)
        /\ m \in Below(m)
    <3>1. \A y \in S : y \in Nat
      OBVIOUS
    <3>2. m <= m
      BY <2>1
    <3> QED BY <2>1, <2>2, <3>1, <3>2
  <2>4. <<Below(x), Below(m)>> \in StrictSubsetOrdering(Nat)
    BY <2>3 DEF StrictSubsetOrdering
  <2> QED BY <1>2, <1>3, <2>4
<1> QED BY <1>4

(* ... and, if it is bounded, a greatest.                                  *)
LEMMA Greatest ==
  ASSUME NEW n \in Nat, NEW S \in SUBSET (0..n), S # {}
  PROVE  \E m \in S : \A x \in S : x <= m
<1> DEFINE T == {n - x : x \in S}
<1>1. T \subseteq Nat /\ T # {}
  <2>1. \A x \in 0..n : n - x \in Nat
    OBVIOUS
  <2>2. \A x \in S : n - x \in T /\ n - x \in Nat
    BY <2>1
  <2> QED BY <2>2
<1>2. PICK k \in T : \A y \in T : k <= y
  BY <1>1, Least
<1>3. PICK m \in S : k = n - m
  OBVIOUS
<1>4. \A x \in S : n - m <= n - x
  BY <1>2, <1>3
<1> QED BY <1>4

LEMMA UsersAreNumbers ==
  ASSUME TypeOK, NEW a PROVE active \subseteq Users /\ Later(a) \subseteq Nat
<1>1. active \subseteq Users
  BY DEF TypeOK
<1>2. Users \subseteq Nat
  BY DEF Users
<1> QED BY <1>1, <1>2 DEF Later

LEMMA FiniteUsers ==
  /\ IsFiniteSet(Users)
  /\ \A S \in SUBSET Users : IsFiniteSet(S) /\ Cardinality(S) \in Nat
<1>1. IsFiniteSet(Users)
  BY FS_Interval DEF Users
<1> QED BY <1>1, FS_Subset, FS_CardinalityType

(* The users after a, and how many of them are not after u.                *)
UpTo(a, u) == {v \in Later(a) : v <= u}

LEMMA UpToFinite ==
  ASSUME TypeOK, NEW a, NEW u
  PROVE  /\ IsFiniteSet(Later(a)) /\ IsFiniteSet(UpTo(a, u))
         /\ Cardinality(UpTo(a, u)) \in Nat
<1>1. Later(a) \subseteq Users /\ UpTo(a, u) \subseteq Users
  BY DEF TypeOK, Later, UpTo
<1> QED BY <1>1, FiniteUsers

(* The keyset page after a is a beginning of the users after a; it is      *)
(* empty only if there are none, and a short page has them all.            *)
PageAfter(a) == {u \in Later(a) : Cardinality(UpTo(a, u)) <= PageSize}

LEMMA PageIsBeginning ==
  ASSUME TypeOK, NEW a \in 0..NumUsers, NEW u \in PageAfter(a),
         NEW v \in Later(a), v <= u
  PROVE  v \in PageAfter(a)
<1>1. u \in Users /\ v \in Users
  BY DEF PageAfter, Later, TypeOK
<1>2. UpTo(a, v) \subseteq UpTo(a, u)
  BY <1>1, UsersAreNumbers DEF UpTo, Users
<1>3. Cardinality(UpTo(a, v)) <= Cardinality(UpTo(a, u))
  BY <1>2, UpToFinite, FS_Subset
<1> QED BY <1>3, UpToFinite DEF PageAfter

LEMMA PageIsNotEmpty ==
  ASSUME TypeOK, NEW a \in 0..NumUsers, PageAfter(a) = {}
  PROVE  Later(a) = {}
<1> SUFFICES ASSUME Later(a) # {} PROVE FALSE
  OBVIOUS
<1>1. Later(a) \subseteq Nat
  BY UsersAreNumbers
<1>2. PICK m \in Later(a) : \A x \in Later(a) : m <= x
  BY <1>1, Least
<1>3. UpTo(a, m) = {m}
  BY <1>1, <1>2 DEF UpTo
<1>4. Cardinality(UpTo(a, m)) = 1
  BY <1>3, FS_Singleton
<1> QED BY <1>2, <1>4 DEF PageAfter

LEMMA ShortPageIsAll ==
  ASSUME TypeOK, NEW a \in 0..NumUsers, Cardinality(PageAfter(a)) < PageSize
  PROVE  Later(a) \subseteq PageAfter(a)
<1> DEFINE Rest == Later(a) \ PageAfter(a)
<1> SUFFICES ASSUME Rest # {} PROVE FALSE
  OBVIOUS
<1>1. Later(a) \subseteq Nat
  BY UsersAreNumbers
<1>2. PICK m \in Rest : \A x \in Rest : m <= x
  BY <1>1, Least
<1>3. UpTo(a, m) \subseteq PageAfter(a) \cup {m}
  BY <1>1, <1>2 DEF UpTo
<1>4. IsFiniteSet(PageAfter(a)) /\ Cardinality(PageAfter(a)) \in Nat
  BY UpToFinite, FS_Subset, FS_CardinalityType DEF PageAfter
<1>5. /\ IsFiniteSet(PageAfter(a) \cup {m})
      /\ Cardinality(PageAfter(a) \cup {m}) = Cardinality(PageAfter(a)) + 1
  BY <1>2, <1>4, FS_AddElement
<1>6. Cardinality(UpTo(a, m)) <= Cardinality(PageAfter(a)) + 1
  BY <1>3, <1>5, FS_Subset
<1>7. Cardinality(UpTo(a, m)) <= PageSize
  BY <1>4, <1>6, UpToFinite
<1> QED BY <1>2, <1>7 DEF PageAfter

-----------------------------------------------------------------------------
(* The inductive invariant *)

OfferSteps == {"offer", "claim", "reread", "persist"}

(* A worker that makes an offer has a user to make it to.                  *)
TypeInv ==
  /\ TypeOK
  /\ \A w \in Workers : work[w].pc \in OfferSteps => work[w].user \in Users

(* A plan as PlacedOnce wants it: no set twice, none that is not claimed.  *)
Good(claimed, plan) ==
  /\ \A s \in Sets : OnPlan(plan, s) => s \in claimed
  /\ \A d, e \in Days :
       plan.hub[d] \in Sets /\ plan.hub[d] = plan.hub[e] => d = e

(* The plans of the table, of requests and of workers; what a worker will  *)
(* write was claimed, is not on the plan it has read, and has an empty day.*)
Plans ==
  /\ \A u \in Users :
       /\ Good(ledger[u], row[u])
       /\ edit[u] # Asleep => Good(ledger[u], edit[u].view)
  /\ \A w \in Workers :
       /\ work[w].pc \in {"reread", "persist"} =>
            work[w].set \in ledger[work[w].user]
       /\ work[w].pc = "persist" =>
            /\ Good(ledger[work[w].user], work[w].view)
            /\ ~OnPlan(work[w].view, work[w].set)
            /\ EmptyDays(work[w].view) # {}

(* Whoever may still write has read the row as it is.                      *)
FreshIsCurrent ==
  \A w \in Workers :
    w \in fresh /\ work[w].pc = "persist" => row[work[w].user] = work[w].view

(* While its holder runs without a failure, a job has settled every user   *)
(* but those of the rest of the page, the user of the moment and those     *)
(* after the page; at its end it has settled all.                          *)
Covers(w) ==
  /\ work[w].pc # "idle" /\ Leased(w) /\ ~work[w].failed
  /\ work[w].set \in published \ missed
  => /\ \A u \in active :
          \/ u \in offered[work[w].set]
          \/ u \in work[w].page
          \/ u = work[w].user /\ work[w].pc \in OfferSteps
          \/ u > work[w].after /\ ~work[w].last
     /\ work[w].pc = "finish" => active \subseteq offered[work[w].set]

Covering == \A w \in Workers : Covers(w)

IInv == TypeInv /\ Plans /\ FreshIsCurrent /\ Covering /\ DoneIsOffered

-----------------------------------------------------------------------------
(* Type correctness                                                        *)

Steps == {"check", "scan", "finish"} \cup OfferSteps

(* A worker that has a job is well typed.                                  *)
LEMMA BusyWorker ==
  ASSUME TypeInv, NEW w \in Workers, work[w].pc # "idle"
  PROVE  /\ work[w] \in Work /\ work[w].pc \in Steps
         /\ work[w].set \in Sets /\ work[w].page \subseteq Users
         /\ work[w].after \in 0..NumUsers /\ work[w].last \in BOOLEAN
         /\ work[w].tries \in 0..PersistAttempts
         /\ work[w].failed \in BOOLEAN /\ work[w].view \in Plan
         /\ work[w].pc \in OfferSteps => work[w].user \in Users
  BY DEF TypeInv, TypeOK, Work, Idle, Steps, OfferSteps

(* Every change of a plan, of a job and of a worker keeps its type.        *)
LEMMA PlanTypes ==
  /\ \A plan \in Plan :
       /\ \A d \in Days, s \in Sets : Filled(plan, d, s) \in Plan
       /\ \A d \in Days : [plan EXCEPT !.done = @ \cup {d}] \in Plan
  /\ [hub |-> [d \in Days |-> None], done |-> {}] \in Plan
  /\ \A room : NewPlan(room) \in Plan
  BY DEF Plan, Filled, NewPlan

LEMMA JobTypes ==
  /\ NoJob \in Job /\ [NoJob EXCEPT !.status = "queued"] \in Job
  /\ \A j \in Job : /\ j.status \in JobStatus /\ j.attempts \in 0..MaxAttempts
                    /\ [j EXCEPT !.expired = TRUE] \in Job
                    /\ [j EXCEPT !.status = "done"] \in Job
                    /\ [j EXCEPT !.status = "retry", !.holder = Nobody] \in Job
  /\ \A w \in Workers, n \in 0..MaxAttempts :
       [status |-> "processing", holder |-> w, expired |-> FALSE,
        attempts |-> n] \in Job
<1>0. 0 \in 0..MaxAttempts
  OBVIOUS
<1>1. NoJob \in Job /\ [NoJob EXCEPT !.status = "queued"] \in Job
  <2>1. NoJob \in Job
    BY <1>0 DEF NoJob, Job, JobStatus
  <2> QED BY <2>1 DEF Job, JobStatus
<1>2. \A j \in Job : /\ j.status \in JobStatus /\ j.attempts \in 0..MaxAttempts
                     /\ [j EXCEPT !.expired = TRUE] \in Job
  BY DEF Job
<1>3. \A j \in Job :
        /\ [j EXCEPT !.status = "done"] \in Job
        /\ [j EXCEPT !.status = "retry", !.holder = Nobody] \in Job
  BY DEF Job, JobStatus
<1>4. \A w \in Workers, n \in 0..MaxAttempts :
        [status |-> "processing", holder |-> w, expired |-> FALSE,
         attempts |-> n] \in Job
  BY DEF Job, JobStatus
<1> QED BY <1>1, <1>2, <1>3, <1>4

LEMMA WorkTypes ==
  /\ \A s \in Sets : Started(s) \in Work
  /\ \A q \in Work, pc \in Steps :
       /\ [q EXCEPT !.pc = pc] \in Work
       /\ [q EXCEPT !.pc = pc, !.failed = TRUE] \in Work
       /\ \A plan \in Plan : [q EXCEPT !.pc = pc, !.view = plan] \in Work
       /\ \A n \in 0..PersistAttempts :
            [q EXCEPT !.pc = pc, !.tries = n] \in Work
       /\ \A u \in Users :
            [q EXCEPT !.pc = pc, !.user = u, !.tries = 0,
                      !.page = @ \ {u}] \in Work
  /\ \A q \in Work, page \in SUBSET Users, a \in 0..NumUsers,
        last \in BOOLEAN :
       [q EXCEPT !.page = page, !.after = a, !.last = last] \in Work
<1>1. \A s \in Sets : Started(s) \in Work
  BY PlanTypes DEF Started, Work
<1>2. Steps = {"check", "scan", "offer", "claim", "reread", "persist",
               "finish"}
  BY DEF Steps, OfferSteps
<1>3. \A q \in Work, pc \in Steps :
        /\ [q EXCEPT !.pc = pc] \in Work
        /\ [q EXCEPT !.pc = pc, !.failed = TRUE] \in Work
        /\ \A plan \in Plan : [q EXCEPT !.pc = pc, !.view = plan] \in Work
  BY <1>2 DEF Work
<1>4. \A q \in Work, pc \in Steps : \A n \in 0..PersistAttempts :
        [q EXCEPT !.pc = pc, !.tries = n] \in Work
  BY <1>2 DEF Work
<1>5. ASSUME NEW q \in Work, NEW pc \in Steps, NEW u \in Users
      PROVE  [q EXCEPT !.pc = pc, !.user = u, !.tries = 0,
                       !.page = @ \ {u}] \in Work
  <2>1. u \in 0..NumUsers /\ 0 \in 0..PersistAttempts
        /\ q.page \ {u} \in SUBSET Users
    BY DEF Work, Users
  <2> QED BY <1>2, <2>1 DEF Work
<1>6. \A q \in Work, page \in SUBSET Users, a \in 0..NumUsers,
         last \in BOOLEAN :
        [q EXCEPT !.page = page, !.after = a, !.last = last] \in Work
  BY DEF Work
<1> QED BY <1>1, <1>3, <1>4, <1>5, <1>6

LEMMA WorkWrite ==
  ASSUME TypeOK, NEW w \in Workers, NEW q \in Work \cup {Idle},
         work' = [work EXCEPT ![w] = q]
  PROVE  work' \in [Workers -> Work \cup {Idle}]
  BY DEF TypeOK

LEMMA SpendType ==
  ASSUME TypeOK, NEW k \in {"changes", "edits", "faults"}, NEW n, Spend(k, n)
  PROVE  used' \in [{"changes", "edits", "faults"} -> Nat]
  BY DEF TypeOK, Spend

(* The page a worker reads next, and the user it turns to next.            *)
LEMMA PageTaken ==
  ASSUME TypeInv, NEW w \in Workers, NextPage(w)
  PROVE  \/ /\ work' = [work EXCEPT ![w].pc = "finish"]
            /\ work[w].last \/ Later(work[w].after) = {}
         \/ \E page \in SUBSET Users :
              /\ ~work[w].last /\ page = PageAfter(work[w].after)
              /\ \E a \in page :
                   /\ \A v \in page : v <= a
                   /\ work' = [work EXCEPT ![w].page = page, ![w].after = a,
                                 ![w].last = Cardinality(page) < PageSize]
<1>1. work[w].after \in 0..NumUsers
  BY BusyWorker DEF NextPage, At
<1>2. PageAfter(work[w].after) =
        {u \in Later(work[w].after) :
           Cardinality({v \in Later(work[w].after) : v <= u}) <= PageSize}
  BY DEF PageAfter, UpTo
<1>3. CASE work[w].last \/ PageAfter(work[w].after) = {}
  BY <1>1, <1>2, <1>3, PageIsNotEmpty DEF NextPage, Goto, TypeInv
<1>4. CASE ~(work[w].last \/ PageAfter(work[w].after) = {})
  <2> DEFINE page == PageAfter(work[w].after)
             a    == CHOOSE u \in page : \A v \in page : v <= u
  <2>1. page \subseteq Users
    BY UsersAreNumbers DEF PageAfter, Later, TypeInv
  <2>2. \E u \in page : \A v \in page : v <= u
    <3>1. page \in SUBSET (0..NumUsers)
      BY <2>1 DEF Users
    <3> HIDE DEF page
    <3> QED BY <1>4, <3>1, Greatest DEF page
  <2>3. a \in page /\ \A v \in page : v <= a
    BY <2>2
  <2>4. work' = [work EXCEPT ![w].page = page, ![w].after = a,
                   ![w].last = Cardinality(page) < PageSize]
    BY <1>2, <1>4 DEF NextPage
  <2> QED BY <1>4, <2>1, <2>3, <2>4
<1> QED BY <1>3, <1>4

LEMMA UserTaken ==
  ASSUME TypeInv, NEW w \in Workers, NextUser(w)
  PROVE  \E u \in work[w].page :
           /\ u \in Users
           /\ work' = [work EXCEPT ![w].pc = "offer", ![w].user = u,
                         ![w].tries = 0, ![w].page = @ \ {u}]
<1>1. work[w].page \subseteq Users /\ work[w].page # {}
  BY BusyWorker DEF NextUser, At
<1>2. \E u \in work[w].page : \A v \in work[w].page : u <= v
  <2>1. work[w].page \in SUBSET Nat
    BY <1>1 DEF Users
  <2> QED BY <1>1, <2>1, Least
<1> QED BY <1>1, <1>2 DEF NextUser

(* What that leaves of the job the worker is in.                           *)
LEMMA PageEffect ==
  ASSUME TypeInv, NEW w \in Workers, NextPage(w)
  PROVE  /\ \A v \in Workers \ {w} : work'[v] = work[v]
         /\ work'[w].set = work[w].set /\ work'[w].failed = work[w].failed
         /\ \/ /\ work'[w].pc = "finish" /\ work'[w].page = {}
               /\ work[w].last \/ Later(work[w].after) = {}
            \/ /\ work'[w].pc = "scan" /\ ~work[w].last
               /\ work'[w].page = PageAfter(work[w].after)
               /\ work'[w].after \in work'[w].page
               /\ \A v \in work'[w].page : v <= work'[w].after
               /\ work'[w].last = (Cardinality(work'[w].page) < PageSize)
<1>0. work[w] \in Work /\ work[w].pc = "scan" /\ work[w].page = {}
  BY BusyWorker DEF NextPage, At
<1>1. CASE /\ work' = [work EXCEPT ![w].pc = "finish"]
           /\ work[w].last \/ Later(work[w].after) = {}
  <2>1. /\ work'[w] = [work[w] EXCEPT !.pc = "finish"]
        /\ \A v \in Workers \ {w} : work'[v] = work[v]
    BY <1>1 DEF TypeInv, TypeOK
  <2>2. /\ work'[w].pc = "finish" /\ work'[w].page = {}
        /\ work'[w].set = work[w].set /\ work'[w].failed = work[w].failed
    BY <1>0, <2>1 DEF Work
  <2> QED BY <1>1, <2>1, <2>2
<1>2. ASSUME NEW page \in SUBSET Users, NEW a \in page,
             ~work[w].last, page = PageAfter(work[w].after),
             \A v \in page : v <= a,
             work' = [work EXCEPT ![w].page = page, ![w].after = a,
                        ![w].last = Cardinality(page) < PageSize]
      PROVE  /\ \A v \in Workers \ {w} : work'[v] = work[v]
             /\ work'[w].set = work[w].set /\ work'[w].failed = work[w].failed
             /\ work'[w].pc = "scan"
             /\ work'[w].page = page /\ work'[w].after = a
             /\ work'[w].last = (Cardinality(page) < PageSize)
  <2>1. /\ work'[w] = [work[w] EXCEPT !.page = page, !.after = a,
                         !.last = Cardinality(page) < PageSize]
        /\ \A v \in Workers \ {w} : work'[v] = work[v]
    BY <1>2 DEF TypeInv, TypeOK
  <2> DEFINE short == Cardinality(page) < PageSize
  <2>2. work'[w] = [work[w] EXCEPT !.page = page, !.after = a, !.last = short]
    BY <2>1
  <2> HIDE DEF short
  <2>3. /\ work'[w].set = work[w].set /\ work'[w].failed = work[w].failed
        /\ work'[w].pc = "scan"
        /\ work'[w].page = page /\ work'[w].after = a
        /\ work'[w].last = short
    BY <1>0, <2>2 DEF Work
  <2> QED BY <2>1, <2>3 DEF short
<1>3. CASE \E page \in SUBSET Users :
             /\ ~work[w].last /\ page = PageAfter(work[w].after)
             /\ \E a \in page :
                  /\ \A v \in page : v <= a
                  /\ work' = [work EXCEPT ![w].page = page, ![w].after = a,
                                ![w].last = Cardinality(page) < PageSize]
  <2>1. PICK page \in SUBSET Users :
          /\ ~work[w].last /\ page = PageAfter(work[w].after)
          /\ \E a \in page :
               /\ \A v \in page : v <= a
               /\ work' = [work EXCEPT ![w].page = page, ![w].after = a,
                             ![w].last = Cardinality(page) < PageSize]
    BY <1>3
  <2>2. PICK a \in page :
          /\ \A v \in page : v <= a
          /\ work' = [work EXCEPT ![w].page = page, ![w].after = a,
                        ![w].last = Cardinality(page) < PageSize]
    BY <2>1
  <2>3. /\ \A v \in Workers \ {w} : work'[v] = work[v]
        /\ work'[w].set = work[w].set /\ work'[w].failed = work[w].failed
        /\ work'[w].pc = "scan"
        /\ work'[w].page = page /\ work'[w].after = a
        /\ work'[w].last = (Cardinality(page) < PageSize)
    BY <1>2, <2>1, <2>2
  <2>4. /\ work'[w].last = (Cardinality(work'[w].page) < PageSize)
        /\ work'[w].page = PageAfter(work[w].after)
    BY <2>1, <2>3, Zenon
  <2>5. /\ work'[w].after \in work'[w].page
        /\ \A v \in work'[w].page : v <= work'[w].after
    BY <2>2, <2>3, Zenon
  <2> QED BY <2>1, <2>3, <2>4, <2>5, Zenon
<1> QED BY <1>1, <1>3, PageTaken, Zenon

LEMMA UserEffect ==
  ASSUME TypeInv, NEW w \in Workers, NextUser(w)
  PROVE  /\ \A v \in Workers \ {w} : work'[v] = work[v]
         /\ work'[w].set = work[w].set /\ work'[w].failed = work[w].failed
         /\ work'[w].after = work[w].after /\ work'[w].last = work[w].last
         /\ work'[w].pc = "offer"
         /\ work'[w].page = work[w].page \ {work'[w].user}
<1>0. work[w] \in Work
  BY BusyWorker DEF NextUser, At
<1>1. PICK u \in Users :
        work' = [work EXCEPT ![w].pc = "offer", ![w].user = u,
                   ![w].tries = 0, ![w].page = @ \ {u}]
  BY UserTaken
<1>2. /\ work'[w] = [work[w] EXCEPT !.pc = "offer", !.user = u, !.tries = 0,
                       !.page = @ \ {u}]
      /\ \A v \in Workers \ {w} : work'[v] = work[v]
  BY <1>1 DEF TypeInv, TypeOK
<1> QED BY <1>0, <1>2 DEF Work

(* The earliest empty day is an empty day.                                 *)
LEMMA FirstEmptyDay ==
  ASSUME NEW plan \in Plan, EmptyDays(plan) # {}
  PROVE  FirstEmpty(plan) \in EmptyDays(plan)
<1>1. EmptyDays(plan) \subseteq Nat
  BY DEF EmptyDays, Days
<1> QED BY <1>1, Least DEF FirstEmpty

WorkOK ==
  /\ work \in [Workers -> Work \cup {Idle}]
  /\ \A w \in Workers : work[w].pc \in OfferSteps => work[w].user \in Users

(* A move of a worker within its job keeps its type.                       *)
LEMMA Moves ==
  ASSUME TypeInv, NEW w \in Workers, NEW q \in Work,
         q.pc \in OfferSteps => q.user \in Users,
         work' = [work EXCEPT ![w] = q]
  PROVE  WorkOK'
  BY WorkWrite DEF TypeInv, TypeOK, WorkOK

LEMMA Goes ==
  ASSUME TypeInv, NEW w \in Workers, work[w].pc # "idle", NEW pc \in Steps,
         pc \in OfferSteps => work[w].user \in Users, Goto(w, pc)
  PROVE  WorkOK'
<1>1. work[w] \in Work /\ [work[w] EXCEPT !.pc = pc] \in Work
  BY BusyWorker, WorkTypes
<1>2. /\ [work[w] EXCEPT !.pc = pc].pc = pc
      /\ [work[w] EXCEPT !.pc = pc].user = work[w].user
  BY <1>1 DEF Work
<1> QED BY <1>1, <1>2, Moves DEF Goto

LEMMA FailedMove ==
  ASSUME TypeInv, NEW w \in Workers, work[w].pc # "idle",
         NEW pc \in {"scan", "finish"},
         work' = [work EXCEPT ![w].pc = pc, ![w].failed = TRUE]
  PROVE  WorkOK'
<1>1. [work[w] EXCEPT !.pc = pc, !.failed = TRUE] \in Work
  BY BusyWorker, WorkTypes DEF Steps
<1>2. [work[w] EXCEPT !.pc = pc, !.failed = TRUE].pc = pc
  BY BusyWorker DEF Work
<1>3. work' = [work EXCEPT ![w] = [work[w] EXCEPT !.pc = pc, !.failed = TRUE]]
  BY DEF TypeInv, TypeOK
<1> QED BY <1>1, <1>2, <1>3, Moves DEF OfferSteps

(* Every step of a worker keeps the types.                                 *)
LEMMA WorkerTypes ==
  ASSUME IInv, NEW w \in Workers,
         Works(w) \/ Fails(w) \/ \E s \in Sets : Claim(w, s)
  PROVE  TypeInv'
<1> USE DEF IInv, At, Goto
<1>0. /\ Steps = {"check", "scan", "offer", "claim", "reread", "persist",
                  "finish"}
      /\ OfferSteps = {"offer", "claim", "reread", "persist"}
      /\ TypeOK
  BY DEF Steps, OfferSteps, TypeInv
<1>i. ASSUME Finished(w)
      PROVE  WorkOK' /\ fresh' \subseteq Workers \cup Users
  BY <1>i, <1>0 DEF Finished, TypeInv, TypeOK, Idle, WorkOK
<1>1. CASE Check(w)
  <2>1. WorkOK'
    BY <1>0, <1>1, Goes DEF Check
  <2> QED BY <1>0, <1>1, <2>1 DEF Check, TypeInv, TypeOK, WorkOK
<1>2. CASE NextPage(w)
  <2>1. CASE Goto(w, "finish")
    <3>1. WorkOK'
      BY <1>0, <1>2, <2>1, Goes DEF NextPage
    <3> QED BY <1>0, <1>2, <3>1 DEF NextPage, TypeInv, TypeOK, WorkOK
  <2>2. ASSUME NEW page \in SUBSET Users, NEW a \in page,
               work' = [work EXCEPT ![w].page = page, ![w].after = a,
                          ![w].last = Cardinality(page) < PageSize]
        PROVE  TypeInv'
    <3>1. \A u \in Users : u \in 0..NumUsers
      BY DEF Users
    <3>2. work[w] \in Work /\ a \in 0..NumUsers
      BY <1>2, <3>1, BusyWorker DEF NextPage
    <3>3. (Cardinality(page) < PageSize) \in BOOLEAN
      BY FiniteUsers
    <3>4. PICK q \in Work :
            q = [work[w] EXCEPT !.page = page, !.after = a,
                                !.last = Cardinality(page) < PageSize]
      BY <3>2, <3>3, WorkTypes
    <3>5. q.pc = "scan" /\ work' = [work EXCEPT ![w] = q]
      BY <1>2, <2>2, <3>2, <3>4 DEF NextPage, Work, TypeInv, TypeOK
    <3>6. WorkOK'
      BY <1>0, <3>4, <3>5, Moves DEF OfferSteps
    <3> QED BY <1>0, <1>2, <3>6 DEF NextPage, TypeInv, TypeOK, WorkOK
  <2> QED BY <1>2, <2>1, <2>2, PageTaken
<1>3. CASE NextUser(w)
  <2>1. PICK u \in Users :
          work' = [work EXCEPT ![w].pc = "offer", ![w].user = u,
                     ![w].tries = 0, ![w].page = @ \ {u}]
    BY <1>3, UserTaken
  <2>2. work[w] \in Work
    BY <1>3, BusyWorker DEF NextUser
  <2>3. PICK q \in Work :
          q = [work[w] EXCEPT !.pc = "offer", !.user = u, !.tries = 0,
                              !.page = @ \ {u}]
    BY <1>0, <2>2, WorkTypes
  <2>4. q.user = u /\ work' = [work EXCEPT ![w] = q]
    BY <2>1, <2>2, <2>3 DEF Work, TypeInv, TypeOK
  <2>5. WorkOK'
    BY <2>3, <2>4, Moves
  <2> QED BY <1>0, <1>3, <2>5 DEF NextUser, TypeInv, TypeOK, WorkOK
<1>4. CASE Offer(w)
  <2>1. WorkOK'
    BY <1>0, <1>4, BusyWorker, Goes DEF Offer
  <2>2. /\ ledger' \in [Users -> SUBSET Sets]
        /\ offered' \in [Sets -> SUBSET Users]
    BY <1>0, <1>4, BusyWorker DEF Offer, Settle, Own, TypeOK
  <2> QED BY <1>0, <1>4, <2>1, <2>2 DEF Offer, TypeInv, TypeOK, WorkOK
<1>5. CASE ClaimSet(w)
  <2>1. WorkOK'
    BY <1>0, <1>5, BusyWorker, Goes DEF ClaimSet
  <2>2. ledger' \in [Users -> SUBSET Sets]
    BY <1>0, <1>5, BusyWorker DEF ClaimSet, Own, TypeOK
  <2> QED BY <1>0, <1>5, <2>1, <2>2 DEF ClaimSet, TypeInv, TypeOK, WorkOK
<1>6. CASE Reread(w)
  <2>1. /\ work[w].user \in Users /\ row[work[w].user] \in Plan
        /\ work[w] \in Work /\ work[w].set \in Sets
    BY <1>0, <1>6, BusyWorker DEF Reread, TypeOK
  <2>2. ASSUME Goto(w, "scan") PROVE WorkOK'
    BY <1>0, <1>6, <2>2, Goes DEF Reread
  <2>3. ASSUME work' = [work EXCEPT ![w].pc = "persist",
                          ![w].view = row[work[w].user]]
        PROVE  WorkOK'
    <3>1. PICK q \in Work :
            q = [work[w] EXCEPT !.pc = "persist", !.view = row[work[w].user]]
      BY <1>0, <2>1, WorkTypes
    <3>2. q.user = work[w].user /\ work' = [work EXCEPT ![w] = q]
      BY <2>1, <2>3, <3>1 DEF Work, TypeInv, TypeOK
    <3> QED BY <2>1, <3>1, <3>2, Moves
  <2>4. /\ offered' \in [Sets -> SUBSET Users]
        /\ fresh' \subseteq Workers \cup Users
    BY <1>0, <1>6, <2>1 DEF Reread, Settle, TypeOK
  <2>5. WorkOK'
    BY <1>6, <2>2, <2>3 DEF Reread
  <2> QED BY <1>0, <1>6, <2>4, <2>5 DEF Reread, TypeInv, TypeOK, WorkOK
<1>7. CASE Persist(w)
  <2>1. /\ work[w].user \in Users /\ work[w].view \in Plan
        /\ work[w].set \in Sets /\ work[w] \in Work
        /\ work[w].tries \in 0..PersistAttempts
    BY <1>0, <1>7, BusyWorker DEF Persist
  <2>2. Placed(w) \in Plan
    BY <1>7, <2>1, FirstEmptyDay, PlanTypes DEF Persist, Plans, Placed,
       EmptyDays
  <2>3. ASSUME Goto(w, "scan") PROVE WorkOK'
    BY <1>0, <1>7, <2>3, Goes DEF Persist
  <2>4. ASSUME work[w].tries + 1 < PersistAttempts,
               work' = [work EXCEPT ![w].pc = "reread", ![w].tries = @ + 1]
        PROVE  WorkOK'
    <3>1. work[w].tries + 1 \in 0..PersistAttempts
      BY <2>1, <2>4
    <3>2. PICK q \in Work :
            q = [work[w] EXCEPT !.pc = "reread", !.tries = work[w].tries + 1]
      BY <1>0, <2>1, <3>1, WorkTypes
    <3>3. q.user = work[w].user /\ work' = [work EXCEPT ![w] = q]
      BY <2>1, <2>4, <3>2 DEF Work, TypeInv, TypeOK
    <3> QED BY <2>1, <3>2, <3>3, Moves
  <2>5. ASSUME work' = [work EXCEPT ![w].pc = "scan", ![w].failed = TRUE]
        PROVE  WorkOK'
    BY <1>0, <1>7, <2>5, FailedMove DEF Persist
  <2>6. row' \in [Users -> Plan] /\ offered' \in [Sets -> SUBSET Users]
        /\ fresh' \subseteq Workers \cup Users
    BY <1>0, <1>7, <2>1, <2>2 DEF Persist, Write, Settle, TypeOK
  <2>7. WorkOK'
    BY <1>7, <2>3, <2>4, <2>5 DEF Persist
  <2> QED BY <1>0, <1>7, <2>6, <2>7 DEF Persist, TypeInv, TypeOK, WorkOK
<1>8. CASE OfferRaises(w)
  <2>1. WorkOK'
    BY <1>8, FailedMove DEF OfferRaises
  <2> QED BY <1>0, <1>8, <2>1, SpendType
          DEF OfferRaises, TypeInv, TypeOK, WorkOK
<1>9. CASE JobRaises(w)
  <2>1. WorkOK'
    BY <1>9, FailedMove DEF JobRaises
  <2> QED BY <1>0, <1>9, <2>1, SpendType DEF JobRaises, TypeInv, TypeOK, WorkOK
<1>10. CASE Killed(w)
  BY <1>0, <1>10, <1>i, SpendType DEF Killed, TypeInv, TypeOK, WorkOK
<1>11. CASE MarkDone(w)
  <2>1. job' \in [Sets -> Job]
    BY <1>0, <1>11, BusyWorker, JobTypes DEF MarkDone, TypeOK
  <2> QED BY <1>0, <1>11, <1>i, <2>1 DEF MarkDone, TypeInv, TypeOK, WorkOK
<1>12. CASE MarkRetry(w)
  <2>1. job' \in [Sets -> Job]
    BY <1>0, <1>12, BusyWorker, JobTypes DEF MarkRetry, Retried, TypeOK
  <2> QED BY <1>0, <1>12, <1>i, <2>1 DEF MarkRetry, TypeInv, TypeOK, WorkOK
<1>13. ASSUME NEW s \in Sets, Claim(w, s) PROVE TypeInv'
  <2>1. Started(s) \in Work /\ Started(s).pc = "check"
    BY WorkTypes DEF Started
  <2>2. WorkOK'
    BY <1>0, <1>13, <2>1, Moves DEF Claim
  <2>3. job[s].attempts \in 0..MaxAttempts
    BY <1>0, JobTypes DEF TypeOK
  <2>4. (IF job[s].attempts < MaxAttempts THEN job[s].attempts + 1
                                          ELSE MaxAttempts) \in 0..MaxAttempts
    BY <2>3
  <2>5. job' \in [Sets -> Job]
    BY <1>0, <1>13, <2>4, JobTypes DEF Claim, TypeOK
  <2> QED BY <1>0, <1>13, <2>2, <2>5 DEF Claim, TypeInv, TypeOK, WorkOK
<1> QED BY <1>1, <1>2, <1>3, <1>4, <1>5, <1>6, <1>7, <1>8, <1>9, <1>10, <1>11,
           <1>12, <1>13 DEF Works, Fails

(* So does every step of an admin, of a user or of time.                   *)
LEMMA OutsideTypes ==
  ASSUME IInv,
         \/ \E s \in Sets : Publish(s) \/ Unpublish(s) \/ LeaseEnds(s)
         \/ \E u \in Users : \/ UserReads(u) \/ PlanEnds(u)
                             \/ \E d \in Days :
                                  \/ UserTicks(u, d)
                                  \/ \E s \in Sets : UserServed(u, d, s)
  PROVE  TypeInv'
<1> USE DEF IInv, TypeInv
<1>1. ASSUME NEW s \in Sets, Publish(s) PROVE TypeInv'
  <2>1. job' \in [Sets -> Job]
    BY <1>1, JobTypes DEF Publish, Enqueued, TypeOK
  <2> QED BY <1>1, <2>1, SpendType DEF Publish, TypeOK
<1>2. ASSUME NEW s \in Sets, Unpublish(s) PROVE TypeInv'
  BY <1>2, SpendType DEF Unpublish, TypeOK
<1>3. ASSUME NEW s \in Sets, LeaseEnds(s) PROVE TypeInv'
  <2>1. job' \in [Sets -> Job]
    BY <1>3, JobTypes DEF LeaseEnds, TypeOK
  <2>2. used' \in [{"changes", "edits", "faults"} -> Nat]
    BY <1>3, SpendType DEF LeaseEnds, TypeOK
  <2> QED BY <1>3, <2>1, <2>2 DEF LeaseEnds, TypeOK
<1>4. ASSUME NEW u \in Users, UserReads(u) PROVE TypeInv'
  <2>1. edit' \in [Users -> [pc : {"read"}, view : Plan] \cup {Asleep}]
    BY <1>4 DEF UserReads, TypeOK
  <2> QED BY <1>4, <2>1, SpendType DEF UserReads, TypeOK
<1>5. ASSUME NEW u \in Users, PlanEnds(u) PROVE TypeInv'
  BY <1>5 DEF PlanEnds, TypeOK
<1>6. ASSUME NEW u \in Users, edit[u] # Asleep PROVE edit[u].view \in Plan
  BY <1>6 DEF TypeOK
<1>7. ASSUME NEW u \in Users, NEW d \in Days, UserTicks(u, d) PROVE TypeInv'
  <2>1. row' \in [Users -> Plan] /\ fresh' \subseteq Workers \cup Users
    BY <1>6, <1>7, PlanTypes DEF UserTicks, Write, TypeOK
  <2> QED BY <1>7, <2>1 DEF UserTicks, TypeOK
<1>8. ASSUME NEW u \in Users, NEW d \in Days, NEW s \in Sets,
             UserServed(u, d, s)
      PROVE  TypeInv'
  <2>0. edit[u].view \in Plan
    BY <1>6, <1>8 DEF UserServed
  <2>1. Filled(edit[u].view, d, s) \in Plan
    BY <2>0, PlanTypes
  <2>3. row' \in [Users -> Plan] /\ fresh' \subseteq Workers \cup Users
    BY <1>8, <2>1 DEF UserServed, Write, TypeOK
  <2>2. ledger' \in [Users -> SUBSET Sets]
    BY <1>8 DEF UserServed, Own, TypeOK
  <2> QED BY <1>8, <2>2, <2>3 DEF UserServed, TypeOK
<1> QED BY <1>1, <1>2, <1>3, <1>4, <1>5, <1>7, <1>8

-----------------------------------------------------------------------------
(* Plans stay good                                                         *)

(* A claim does no harm to a plan, a tick neither, and a claimed set that  *)
(* is not on the plan may be put on an empty day.                          *)
LEMMA GoodGrows ==
  ASSUME NEW claimed, NEW more, claimed \subseteq more, NEW plan,
         Good(claimed, plan)
  PROVE  Good(more, plan)
  BY DEF Good

LEMMA GoodFilled ==
  ASSUME NEW claimed, NEW plan \in Plan, Good(claimed, plan),
         NEW d \in EmptyDays(plan), NEW s \in Sets, ~OnPlan(plan, s),
         s \in claimed
  PROVE  Good(claimed, Filled(plan, d, s))
<1>1. /\ Filled(plan, d, s).hub[d] = s
      /\ \A e \in Days \ {d} : Filled(plan, d, s).hub[e] = plan.hub[e]
  BY DEF Filled, Plan, EmptyDays
<1> QED BY <1>1 DEF Good, OnPlan

LEMMA GoodTicked ==
  ASSUME NEW claimed, NEW plan \in Plan, Good(claimed, plan), NEW d
  PROVE  Good(claimed, [plan EXCEPT !.done = @ \cup {d}])
  BY DEF Good, OnPlan, Plan

LEMMA GoodNew ==
  ASSUME NEW claimed, NEW room
  PROVE  Good(claimed, NewPlan(room))
  BY DEF Good, OnPlan, NewPlan

(* Every step of a worker keeps the plans good.                            *)
LEMMA WorkerPlans ==
  ASSUME IInv, TypeInv', NEW w \in Workers,
         Works(w) \/ Fails(w) \/ \E s \in Sets : Claim(w, s)
  PROVE  Plans'
<1> USE DEF At, Goto, OfferSteps
<1>0. TypeInv /\ Plans /\ TypeOK
  BY DEF IInv, TypeInv
(* Enough for an action that writes no plan and does not come to a write.  *)
<1>a. ASSUME UNCHANGED <<row, edit>>,
             \A u \in Users : ledger[u] \subseteq ledger'[u],
             \A v \in Workers \ {w} : work'[v] = work[v],
             work'[w].pc \notin {"reread", "persist"}
      PROVE  Plans'
  BY <1>0, <1>a, BusyWorker, GoodGrows DEF Plans
<1>1. CASE Check(w)
  BY <1>0, <1>1, <1>a DEF Check, TypeOK
<1>2. CASE NextPage(w)
  BY <1>0, <1>2, <1>a, PageEffect DEF NextPage
<1>3. CASE NextUser(w)
  BY <1>0, <1>3, <1>a, UserEffect DEF NextUser
<1>4. CASE Offer(w)
  <2>1. \A u \in Users : ledger[u] \subseteq ledger'[u]
    BY <1>0, <1>4 DEF Offer, Own, TypeOK
  <2>2. Goto(w, "claim") \/ Goto(w, "scan")
    BY <1>4 DEF Offer
  <2>3. /\ \A v \in Workers \ {w} : work'[v] = work[v]
        /\ work'[w].pc \notin {"reread", "persist"}
    BY <1>0, <2>2, <1>4, BusyWorker DEF Offer, TypeOK, Work
  <2> QED BY <1>4, <1>a, <2>1, <2>3 DEF Offer
<1>5. CASE ClaimSet(w)
  <2>1. /\ \A u \in Users : ledger[u] \subseteq ledger'[u]
        /\ work[w].set \in ledger'[work[w].user]
    BY <1>0, <1>5, BusyWorker DEF ClaimSet, Own, TypeOK
  <2>2. /\ \A v \in Workers \ {w} : work'[v] = work[v]
        /\ work'[w].pc = "reread" /\ work'[w].user = work[w].user
        /\ work'[w].set = work[w].set
    BY <1>0, <1>5, BusyWorker DEF ClaimSet, TypeOK
  <2>3. row' = row /\ edit' = edit
    BY <1>5 DEF ClaimSet
  <2>4. \A u \in Users :
          /\ Good(ledger'[u], row[u])
          /\ edit[u] # Asleep => Good(ledger'[u], edit[u].view)
    BY <1>0, <2>1, GoodGrows DEF Plans
  <2>5. ASSUME NEW v \in Workers \ {w}, work[v].pc \in {"reread", "persist"}
        PROVE  /\ work[v].set \in ledger'[work[v].user]
               /\ work[v].pc = "persist" =>
                    /\ Good(ledger'[work[v].user], work[v].view)
                    /\ ~OnPlan(work[v].view, work[v].set)
                    /\ EmptyDays(work[v].view) # {}
    <3>1. work[v].user \in Users
      BY <1>0, <2>5 DEF TypeInv
    <3> QED BY <1>0, <2>1, <2>5, <3>1, GoodGrows DEF Plans
  <2>6. ASSUME NEW v \in Workers
        PROVE  /\ work'[v].pc \in {"reread", "persist"} =>
                    work'[v].set \in ledger'[work'[v].user]
               /\ work'[v].pc = "persist" =>
                    /\ Good(ledger'[work'[v].user], work'[v].view)
                    /\ ~OnPlan(work'[v].view, work'[v].set)
                    /\ EmptyDays(work'[v].view) # {}
    <3>1. CASE v = w
      BY <2>1, <2>2, <3>1
    <3>2. CASE v # w
      BY <2>2, <2>5, <3>2
    <3> QED BY <3>1, <3>2
  <2> QED BY <2>3, <2>4, <2>6 DEF Plans
<1>6. CASE Reread(w)
  <2>1. CASE Goto(w, "scan")
    BY <1>0, <1>6, <1>a, <2>1 DEF Reread, TypeOK
  <2>2. CASE /\ ~Has(work[w].user, row[work[w].user], work[w].set)
             /\ EmptyDays(row[work[w].user]) # {}
             /\ work' = [work EXCEPT ![w].pc = "persist",
                           ![w].view = row[work[w].user]]
    <3>1. /\ \A v \in Workers \ {w} : work'[v] = work[v]
          /\ work'[w].pc = "persist" /\ work'[w].user = work[w].user
          /\ work'[w].set = work[w].set /\ work'[w].view = row[work[w].user]
      BY <1>0, <1>6, <2>2, BusyWorker DEF Reread, TypeOK, Work
    <3>2. UNCHANGED <<row, edit, ledger>> /\ work[w].user \in Users
      BY <1>0, <1>6, BusyWorker DEF Reread
    <3>3. ~OnPlan(row[work[w].user], work[w].set)
      BY <2>2 DEF Has
    <3> QED BY <1>0, <1>6, <2>2, <3>1, <3>2, <3>3 DEF Reread, Plans
  <2> QED BY <1>6, <2>1, <2>2 DEF Reread
<1>7. CASE Persist(w)
  <2>0. /\ work[w].user \in Users /\ work[w].view \in Plan
        /\ work[w].set \in Sets /\ UNCHANGED <<edit, ledger>>
        /\ Good(ledger[work[w].user], work[w].view)
        /\ ~OnPlan(work[w].view, work[w].set)
        /\ EmptyDays(work[w].view) # {}
        /\ work[w].set \in ledger[work[w].user]
    BY <1>0, <1>7, BusyWorker DEF Persist, Plans
  <2>1. CASE Write(work[w].user, Placed(w)) /\ Goto(w, "scan")
    <3>1. Good(ledger[work[w].user], Placed(w))
      BY <2>0, FirstEmptyDay, GoodFilled DEF Placed
    <3>2. /\ \A v \in Workers \ {w} : work'[v] = work[v]
          /\ work'[w].pc = "scan"
      BY <1>0, <2>1 DEF TypeOK
    <3>3. /\ \A u \in Users \ {work[w].user} : row'[u] = row[u]
          /\ row'[work[w].user] = Placed(w)
      BY <1>0, <2>0, <2>1 DEF Write, TypeOK
    <3> QED BY <1>0, <2>0, <3>1, <3>2, <3>3 DEF Plans
  <2>2. CASE /\ work' = [work EXCEPT ![w].pc = "reread", ![w].tries = @ + 1]
             /\ row' = row
    <3>1. /\ \A v \in Workers \ {w} : work'[v] = work[v]
          /\ work'[w].pc = "reread" /\ work'[w].user = work[w].user
          /\ work'[w].set = work[w].set
      BY <1>0, <1>7, <2>2, BusyWorker DEF Persist, TypeOK, Work
    <3> QED BY <1>0, <2>0, <2>2, <3>1 DEF Plans
  <2>3. CASE /\ work' = [work EXCEPT ![w].pc = "scan", ![w].failed = TRUE]
             /\ row' = row
    <3>1. /\ \A v \in Workers \ {w} : work'[v] = work[v]
          /\ work'[w].pc = "scan"
      BY <1>0, <1>7, <2>3, BusyWorker DEF Persist, TypeOK, Work
    <3> QED BY <1>0, <1>a, <2>0, <2>3, <3>1
  <2> QED BY <1>7, <2>1, <2>2, <2>3 DEF Persist
<1>8. CASE OfferRaises(w)
  <2>1. /\ \A v \in Workers \ {w} : work'[v] = work[v]
        /\ work'[w].pc = "scan"
    BY <1>0, <1>8, BusyWorker DEF OfferRaises, TypeOK, Work
  <2> QED BY <1>8, <1>a, <2>1 DEF OfferRaises
<1>9. CASE JobRaises(w)
  <2>1. /\ \A v \in Workers \ {w} : work'[v] = work[v]
        /\ work'[w].pc = "finish"
    BY <1>0, <1>9, BusyWorker DEF JobRaises, TypeOK, Work
  <2> QED BY <1>9, <1>a, <2>1 DEF JobRaises
<1>10. CASE Killed(w) \/ MarkDone(w) \/ MarkRetry(w)
  BY <1>0, <1>10, <1>a DEF Killed, MarkDone, MarkRetry, Finished, Idle, TypeOK
<1>11. ASSUME NEW s \in Sets, Claim(w, s) PROVE Plans'
  BY <1>0, <1>11, <1>a DEF Claim, Started, TypeOK
<1> QED BY <1>1, <1>2, <1>3, <1>4, <1>5, <1>6, <1>7, <1>8, <1>9, <1>10, <1>11
        DEF Works, Fails

(* So does every step of an admin, of a user or of time.                   *)
LEMMA OutsidePlans ==
  ASSUME IInv,
         \/ \E s \in Sets : Publish(s) \/ Unpublish(s) \/ LeaseEnds(s)
         \/ \E u \in Users : \/ UserReads(u) \/ PlanEnds(u)
                             \/ \E d \in Days :
                                  \/ UserTicks(u, d)
                                  \/ \E s \in Sets : UserServed(u, d, s)
  PROVE  Plans'
<1>0. TypeInv /\ Plans /\ TypeOK
  BY DEF IInv, TypeInv
<1>1. ASSUME NEW s \in Sets, Publish(s) \/ Unpublish(s) \/ LeaseEnds(s)
      PROVE  Plans'
  BY <1>0, <1>1 DEF Publish, Unpublish, LeaseEnds, Plans
<1>2. ASSUME NEW u \in Users, PlanEnds(u) PROVE Plans'
  BY <1>0, <1>2 DEF PlanEnds, Plans
<1>3. ASSUME NEW u \in Users, UserReads(u) PROVE Plans'
  <2>1. /\ edit'[u] = [pc |-> "read", view |-> row[u]]
        /\ \A v \in Users \ {u} : edit'[v] = edit[v]
    BY <1>0, <1>3 DEF UserReads, TypeOK
  <2> QED BY <1>0, <1>3, <2>1 DEF UserReads, Plans
<1>4. ASSUME NEW u \in Users, edit[u] # Asleep
      PROVE  edit[u].view \in Plan /\ Good(ledger[u], edit[u].view)
  BY <1>0, <1>4 DEF TypeOK, Plans
<1>5. ASSUME NEW u \in Users, NEW d \in Days, UserTicks(u, d) PROVE Plans'
  <2>1. Good(ledger[u], [edit[u].view EXCEPT !.done = @ \cup {d}])
    BY <1>4, <1>5, GoodTicked DEF UserTicks
  <2>2. /\ row'[u] = [edit[u].view EXCEPT !.done = @ \cup {d}]
        /\ edit'[u] = Asleep
        /\ \A v \in Users \ {u} : row'[v] = row[v] /\ edit'[v] = edit[v]
    BY <1>0, <1>5 DEF UserTicks, Write, TypeOK
  <2> QED BY <1>0, <1>5, <2>1, <2>2 DEF UserTicks, Plans
<1>6. ASSUME NEW u \in Users, NEW d \in Days, NEW s \in Sets,
             UserServed(u, d, s)
      PROVE  Plans'
  <2>1. /\ \A v \in Users : ledger[v] \subseteq ledger'[v]
        /\ s \in ledger'[u]
    BY <1>0, <1>6 DEF UserServed, Own, TypeOK
  <2>2. Good(ledger'[u], Filled(edit[u].view, d, s))
    <3>1. /\ edit[u].view \in Plan /\ Good(ledger'[u], edit[u].view)
          /\ d \in EmptyDays(edit[u].view) /\ ~OnPlan(edit[u].view, s)
      BY <1>4, <1>6, <2>1, GoodGrows DEF UserServed, Has
    <3> QED BY <2>1, <3>1, GoodFilled
  <2>3. /\ row'[u] = row[u] \/ row'[u] = Filled(edit[u].view, d, s)
        /\ edit'[u] = Asleep
        /\ \A v \in Users \ {u} : row'[v] = row[v] /\ edit'[v] = edit[v]
        /\ UNCHANGED work
    BY <1>0, <1>6 DEF UserServed, Write, TypeOK
  <2>4. \A v \in Users : Good(ledger'[v], row'[v])
    BY <1>0, <2>1, <2>2, <2>3, GoodGrows DEF Plans
  <2>5. \A v \in Users : edit'[v] # Asleep => Good(ledger'[v], edit'[v].view)
    BY <1>0, <2>1, <2>3, GoodGrows DEF Plans
  <2>6. \A w \in Workers : work[w].pc \in {"reread", "persist"} =>
          work[w].user \in Users
    BY <1>0 DEF TypeInv, OfferSteps
  <2> QED BY <1>0, <2>1, <2>3, <2>4, <2>5, <2>6, GoodGrows DEF Plans
<1> QED BY <1>1, <1>2, <1>3, <1>5, <1>6

-----------------------------------------------------------------------------
(* Readers whose row did not change have read it as it is                  *)

(* Whoever writes a row takes the right to write from its other readers.   *)
LEMMA WriteOvertakes ==
  ASSUME TypeInv, FreshIsCurrent, NEW u \in Users, NEW plan, Write(u, plan),
         NEW v \in Workers, v \in fresh', work[v].pc = "persist"
  PROVE  row'[work[v].user] = work[v].view
<1>1. v \in fresh /\ work[v].user # u
  BY DEF Write, ReadersOf
<1>2. work[v].user \in Users
  BY DEF TypeInv, OfferSteps
<1> QED BY <1>1, <1>2 DEF Write, FreshIsCurrent, TypeInv, TypeOK

LEMMA WorkerFresh ==
  ASSUME IInv, NEW w \in Workers,
         Works(w) \/ Fails(w) \/ \E s \in Sets : Claim(w, s)
  PROVE  FreshIsCurrent'
<1> USE DEF At, Goto
<1>0. TypeInv /\ FreshIsCurrent /\ TypeOK
  BY DEF IInv, TypeInv
<1>a. ASSUME row' = row, fresh' \subseteq fresh, work'[w].pc # "persist",
             \A v \in Workers \ {w} : work'[v] = work[v]
      PROVE  FreshIsCurrent'
  BY <1>0, <1>a DEF FreshIsCurrent
<1>1. CASE Check(w)
  BY <1>0, <1>1, <1>a DEF Check, TypeOK
<1>2. CASE NextPage(w)
  BY <1>0, <1>2, <1>a, PageEffect DEF NextPage
<1>3. CASE NextUser(w)
  BY <1>0, <1>3, <1>a, UserEffect DEF NextUser
<1>4. CASE Offer(w)
  <2>1. /\ \A v \in Workers \ {w} : work'[v] = work[v]
        /\ work'[w].pc # "persist"
    BY <1>0, <1>4, BusyWorker DEF Offer, TypeOK, Work
  <2> QED BY <1>4, <1>a, <2>1 DEF Offer
<1>5. CASE ClaimSet(w)
  <2>1. /\ \A v \in Workers \ {w} : work'[v] = work[v]
        /\ work'[w].pc # "persist"
    BY <1>0, <1>5, BusyWorker DEF ClaimSet, TypeOK, Work
  <2> QED BY <1>5, <1>a, <2>1 DEF ClaimSet
<1>6. CASE Reread(w)
  <2>1. CASE Goto(w, "scan") /\ fresh' = fresh
    BY <1>0, <1>6, <1>a, <2>1 DEF Reread, TypeOK
  <2>2. CASE /\ work' = [work EXCEPT ![w].pc = "persist",
                           ![w].view = row[work[w].user]]
             /\ fresh' = fresh \cup {w}
    <3>1. /\ \A v \in Workers \ {w} : work'[v] = work[v]
          /\ work'[w].user = work[w].user
          /\ work'[w].view = row[work[w].user]
      BY <1>0, <1>6, <2>2, BusyWorker DEF Reread, TypeOK, Work
    <3>2. row' = row
      BY <1>6 DEF Reread
    <3> QED BY <1>0, <2>2, <3>1, <3>2 DEF FreshIsCurrent
  <2> QED BY <1>6, <2>1, <2>2 DEF Reread
<1>7. CASE Persist(w)
  <2>1. CASE Write(work[w].user, Placed(w)) /\ Goto(w, "scan")
    <3>1. work[w].user \in Users
      BY <1>0, <1>7, BusyWorker DEF Persist, OfferSteps
    <3>2. /\ \A v \in Workers \ {w} : work'[v] = work[v]
          /\ work'[w].pc = "scan"
      BY <1>0, <2>1 DEF TypeOK
    <3> QED BY <1>0, <2>1, <3>1, <3>2, WriteOvertakes DEF FreshIsCurrent
  <2>2. CASE /\ work' = [work EXCEPT ![w].pc = "reread", ![w].tries = @ + 1]
             /\ row' = row /\ fresh' = fresh
    <3>1. /\ \A v \in Workers \ {w} : work'[v] = work[v]
          /\ work'[w].pc = "reread"
      BY <1>0, <1>7, <2>2, BusyWorker DEF Persist, TypeOK, Work
    <3> QED BY <1>a, <2>2, <3>1
  <2>3. CASE /\ work' = [work EXCEPT ![w].pc = "scan", ![w].failed = TRUE]
             /\ row' = row /\ fresh' = fresh
    <3>1. /\ \A v \in Workers \ {w} : work'[v] = work[v]
          /\ work'[w].pc = "scan"
      BY <1>0, <1>7, <2>3, BusyWorker DEF Persist, TypeOK, Work
    <3> QED BY <1>a, <2>3, <3>1
  <2> QED BY <1>7, <2>1, <2>2, <2>3 DEF Persist
<1>8. CASE OfferRaises(w)
  <2>1. /\ \A v \in Workers \ {w} : work'[v] = work[v]
        /\ work'[w].pc = "scan"
    BY <1>0, <1>8, BusyWorker DEF OfferRaises, TypeOK, Work
  <2> QED BY <1>8, <1>a, <2>1 DEF OfferRaises
<1>9. CASE JobRaises(w)
  <2>1. /\ \A v \in Workers \ {w} : work'[v] = work[v]
        /\ work'[w].pc = "finish"
    BY <1>0, <1>9, BusyWorker DEF JobRaises, TypeOK, Work
  <2> QED BY <1>9, <1>a, <2>1 DEF JobRaises
<1>10. CASE Killed(w) \/ MarkDone(w) \/ MarkRetry(w)
  BY <1>0, <1>10, <1>a DEF Killed, MarkDone, MarkRetry, Finished, Idle, TypeOK
<1>11. ASSUME NEW s \in Sets, Claim(w, s) PROVE FreshIsCurrent'
  BY <1>0, <1>11, <1>a DEF Claim, Started, TypeOK
<1> QED BY <1>1, <1>2, <1>3, <1>4, <1>5, <1>6, <1>7, <1>8, <1>9, <1>10, <1>11
        DEF Works, Fails

LEMMA OutsideFresh ==
  ASSUME IInv,
         \/ \E s \in Sets : Publish(s) \/ Unpublish(s) \/ LeaseEnds(s)
         \/ \E u \in Users : \/ UserReads(u) \/ PlanEnds(u)
                             \/ \E d \in Days :
                                  \/ UserTicks(u, d)
                                  \/ \E s \in Sets : UserServed(u, d, s)
  PROVE  FreshIsCurrent'
<1>0. TypeInv /\ FreshIsCurrent
  BY DEF IInv
<1>1. ASSUME NEW s \in Sets, Publish(s) \/ Unpublish(s) \/ LeaseEnds(s)
      PROVE  FreshIsCurrent'
  BY <1>0, <1>1 DEF Publish, Unpublish, LeaseEnds, FreshIsCurrent
<1>2. ASSUME NEW u \in Users, PlanEnds(u) PROVE FreshIsCurrent'
  BY <1>0, <1>2 DEF PlanEnds, FreshIsCurrent
<1>3. ASSUME NEW u \in Users, UserReads(u) PROVE FreshIsCurrent'
  BY <1>0, <1>3 DEF UserReads, FreshIsCurrent
<1>4. ASSUME NEW u \in Users, NEW d \in Days, UserTicks(u, d)
      PROVE  FreshIsCurrent'
  BY <1>0, <1>4, WriteOvertakes DEF UserTicks, FreshIsCurrent
<1>5. ASSUME NEW u \in Users, NEW d \in Days, NEW s \in Sets,
             UserServed(u, d, s)
      PROVE  FreshIsCurrent'
  <2>1. CASE Write(u, Filled(edit[u].view, d, s))
    BY <1>0, <1>5, <2>1, WriteOvertakes DEF UserServed, FreshIsCurrent
  <2>2. CASE UNCHANGED <<row, fresh>>
    BY <1>0, <1>5, <2>2 DEF UserServed, FreshIsCurrent
  <2> QED BY <1>5, <2>1, <2>2 DEF UserServed
<1> QED BY <1>1, <1>2, <1>3, <1>4, <1>5

-----------------------------------------------------------------------------
(* No user is dropped                                                      *)

(* The next page holds the first users that the last one did not, and the  *)
(* rest comes after it.                                                    *)
LEMMA PageCovers ==
  ASSUME TypeInv, NEW w \in Workers, NextPage(w), Covers(w)
  PROVE  Covers(w)'
<1> DEFINE a == work[w].after
           t == work[w].set
<1>0. /\ work[w].pc = "scan" /\ work[w].page = {} /\ a \in 0..NumUsers
      /\ TypeOK
      /\ UNCHANGED <<published, missed, active, offered, job>>
  BY BusyWorker DEF NextPage, At, TypeInv
<1>1. work'[w].set = t /\ work'[w].failed = work[w].failed
  BY PageEffect
<1> SUFFICES ASSUME Leased(w), ~work[w].failed, t \in published \ missed
             PROVE  Covers(w)'
  BY <1>0, <1>1 DEF Covers, Leased
<1>2. \A u \in active : u \in offered[t] \/ (u > a /\ ~work[w].last)
  BY <1>0 DEF Covers, OfferSteps
<1>3. CASE /\ work'[w].pc = "finish" /\ work'[w].page = {}
           /\ work[w].last \/ Later(a) = {}
  <2>1. active \subseteq offered[t]
    BY <1>2, <1>3 DEF Later
  <2> QED BY <1>0, <1>1, <2>1 DEF Covers
<1>4. CASE /\ work'[w].pc = "scan" /\ ~work[w].last
           /\ work'[w].page = PageAfter(a)
           /\ work'[w].after \in work'[w].page
           /\ \A v \in work'[w].page : v <= work'[w].after
           /\ work'[w].last = (Cardinality(work'[w].page) < PageSize)
  <2>1. ASSUME NEW u \in Later(a), u \notin PageAfter(a)
        PROVE  u > work'[w].after /\ ~work'[w].last
    <3>1. u \in Nat /\ work'[w].after \in Nat
      BY <1>0, <1>4, UsersAreNumbers DEF PageAfter
    <3>2. ~(u <= work'[w].after)
      BY <1>0, <1>4, <2>1, PageIsBeginning
    <3>3. ~(Cardinality(PageAfter(a)) < PageSize)
      BY <1>0, <2>1, ShortPageIsAll
    <3>4. work'[w].last = (Cardinality(PageAfter(a)) < PageSize)
      BY <1>4, Zenon
    <3>5. ~work'[w].last
      BY <3>3, <3>4, Zenon
    <3> QED BY <3>1, <3>2, <3>5
  <2>2. \A u \in active : \/ u \in offered[t]
                          \/ u \in work'[w].page
                          \/ u > work'[w].after /\ ~work'[w].last
    BY <1>2, <1>4, <2>1 DEF Later
  <2> QED BY <1>0, <1>1, <1>4, <2>2 DEF Covers
<1> QED BY <1>3, <1>4, PageEffect

(* A step that ends the offer to a user settles it or marks the job.       *)
LEMMA SettleCovers ==
  ASSUME TypeInv, NEW w \in Workers, work[w].pc \in OfferSteps,
         Settle(w), Goto(w, "scan"), Covers(w),
         UNCHANGED <<published, missed, active, job>>
  PROVE  Covers(w)'
<1>1. /\ work'[w].pc = "scan" /\ work'[w].set = work[w].set
      /\ work'[w].page = work[w].page /\ work'[w].after = work[w].after
      /\ work'[w].last = work[w].last /\ work'[w].failed = work[w].failed
  BY BusyWorker DEF Goto, TypeInv, TypeOK, Work, OfferSteps
<1>2. offered'[work[w].set] = offered[work[w].set] \cup {work[w].user}
  BY BusyWorker DEF Settle, TypeInv, TypeOK, OfferSteps
<1> QED BY <1>1, <1>2 DEF Covers, Leased, OfferSteps

(* A step within the offer to a user.                                      *)
LEMMA OfferCovers ==
  ASSUME NEW w \in Workers, work[w].pc \in OfferSteps,
         work'[w].pc \in OfferSteps, Covers(w),
         work'[w].set = work[w].set, work'[w].page = work[w].page,
         work'[w].user = work[w].user, work'[w].after = work[w].after,
         work'[w].last = work[w].last, work'[w].failed = work[w].failed,
         UNCHANGED <<published, missed, active, job, offered>>
  PROVE  Covers(w)'
  BY DEF Covers, Leased, OfferSteps

(* A worker that has failed, or has nothing to do, owes nothing.           *)
LEMMA FailedCovers ==
  ASSUME NEW w \in Workers, work'[w].failed \/ work'[w].pc = "idle"
  PROVE  Covers(w)'
  BY DEF Covers

LEMMA WorkerCovers ==
  ASSUME IInv, NEW w \in Workers,
         Works(w) \/ Fails(w) \/ \E s \in Sets : Claim(w, s)
  PROVE  Covering' /\ DoneIsOffered'
<1> USE DEF At
<1>0. /\ TypeInv /\ TypeOK /\ Covers(w) /\ Covering /\ DoneIsOffered
      /\ OfferSteps = {"offer", "claim", "reread", "persist"}
  BY DEF IInv, TypeInv, Covering, OfferSteps
(* What a step has to do for the other workers and for the jobs done.      *)
<1>a. ASSUME UNCHANGED <<published, missed, active, job>>,
             \A s \in Sets : offered[s] \subseteq offered'[s],
             \A v \in Workers \ {w} : work'[v] = work[v],
             Covers(w)'
      PROVE  Covering' /\ DoneIsOffered'
  <2>1. ASSUME NEW v \in Workers \ {w} PROVE Covers(v)'
    <3>1. CASE work[v].pc = "idle"
      BY <1>a, <3>1 DEF Covers
    <3>2. CASE work[v].pc # "idle"
      <4>1. work[v].set \in Sets
        BY <1>0, <3>2, BusyWorker
      <4>2. Covers(v)
        BY <1>0 DEF Covering
      <4> QED BY <1>a, <4>1, <4>2 DEF Covers, Leased
    <3> QED BY <3>1, <3>2
  <2>2. published \subseteq Sets
    BY <1>0 DEF TypeOK
  <2> QED BY <1>0, <1>a, <2>1, <2>2 DEF Covering, DoneIsOffered
<1>1. CASE Check(w)
  <2>1. /\ \A v \in Workers \ {w} : work'[v] = work[v]
        /\ work'[w] = [work[w] EXCEPT !.pc = IF work[w].set \in published
                                               THEN "scan" ELSE "finish"]
        /\ work[w] \in Work
    BY <1>0, <1>1, BusyWorker DEF Check, Goto, TypeOK
  <2>2. /\ work'[w].set = work[w].set /\ work'[w].page = work[w].page
        /\ work'[w].after = work[w].after /\ work'[w].last = work[w].last
        /\ work'[w].failed = work[w].failed
        /\ work'[w].pc = IF work[w].set \in published
                           THEN "scan" ELSE "finish"
    BY <2>1 DEF Work
  <2>3. Covers(w)'
    BY <1>0, <1>1, <2>2 DEF Check, Covers, Leased
  <2> QED BY <1>1, <1>a, <2>1, <2>3 DEF Check
<1>2. CASE NextPage(w)
  BY <1>0, <1>2, <1>a, PageEffect, PageCovers DEF NextPage
<1>3. CASE NextUser(w)
  <2>1. /\ work'[w].set = work[w].set /\ work'[w].failed = work[w].failed
        /\ work'[w].after = work[w].after /\ work'[w].last = work[w].last
        /\ work'[w].pc = "offer" /\ work[w].pc = "scan"
        /\ work'[w].page = work[w].page \ {work'[w].user}
        /\ UNCHANGED <<published, missed, active, job, offered>>
    BY <1>0, <1>3, UserEffect DEF NextUser
  <2>2. Covers(w)'
    BY <1>0, <2>1 DEF Covers, Leased
  <2> QED BY <1>0, <1>3, <1>a, <2>1, <2>2, UserEffect
<1>4. CASE Offer(w)
  <2>1. CASE Goto(w, "claim") /\ UNCHANGED offered
    <3>1. /\ \A v \in Workers \ {w} : work'[v] = work[v]
          /\ work'[w].pc = "claim" /\ work'[w].set = work[w].set
          /\ work'[w].page = work[w].page /\ work'[w].user = work[w].user
          /\ work'[w].after = work[w].after /\ work'[w].last = work[w].last
          /\ work'[w].failed = work[w].failed
      BY <1>0, <1>4, <2>1, BusyWorker DEF Offer, Goto, TypeOK, Work
    <3>2. Covers(w)'
      BY <1>0, <1>4, <2>1, <3>1, OfferCovers DEF Offer
    <3> QED BY <1>4, <1>a, <2>1, <3>1, <3>2 DEF Offer
  <2>2. CASE Goto(w, "scan") /\ Settle(w)
    <3>1. Covers(w)'
      BY <1>0, <1>4, <2>2, SettleCovers DEF Offer
    <3>2. /\ \A v \in Workers \ {w} : work'[v] = work[v]
          /\ \A s \in Sets : offered[s] \subseteq offered'[s]
      BY <1>0, <2>2 DEF Goto, Settle, TypeOK
    <3> QED BY <1>4, <1>a, <3>1, <3>2 DEF Offer
  <2> QED BY <1>4, <2>1, <2>2 DEF Offer
<1>5. CASE ClaimSet(w)
  <2>1. /\ \A v \in Workers \ {w} : work'[v] = work[v]
        /\ work'[w].pc = "reread" /\ work'[w].set = work[w].set
        /\ work'[w].page = work[w].page /\ work'[w].user = work[w].user
        /\ work'[w].after = work[w].after /\ work'[w].last = work[w].last
        /\ work'[w].failed = work[w].failed
    BY <1>0, <1>5, BusyWorker DEF ClaimSet, Goto, TypeOK, Work
  <2>2. Covers(w)'
    BY <1>0, <1>5, <2>1, OfferCovers DEF ClaimSet
  <2> QED BY <1>5, <1>a, <2>1, <2>2 DEF ClaimSet
<1>6. CASE Reread(w)
  <2>1. CASE Goto(w, "scan") /\ Settle(w)
    <3>1. Covers(w)'
      BY <1>0, <1>6, <2>1, SettleCovers DEF Reread
    <3>2. /\ \A v \in Workers \ {w} : work'[v] = work[v]
          /\ \A s \in Sets : offered[s] \subseteq offered'[s]
      BY <1>0, <2>1 DEF Goto, Settle, TypeOK
    <3> QED BY <1>6, <1>a, <3>1, <3>2 DEF Reread
  <2>2. CASE /\ work' = [work EXCEPT ![w].pc = "persist",
                           ![w].view = row[work[w].user]]
             /\ UNCHANGED offered
    <3>1. /\ \A v \in Workers \ {w} : work'[v] = work[v]
          /\ work'[w].pc = "persist" /\ work'[w].set = work[w].set
          /\ work'[w].page = work[w].page /\ work'[w].user = work[w].user
          /\ work'[w].after = work[w].after /\ work'[w].last = work[w].last
          /\ work'[w].failed = work[w].failed
      BY <1>0, <1>6, <2>2, BusyWorker DEF Reread, TypeOK, Work
    <3>2. /\ UNCHANGED <<published, missed, active, job, offered>>
          /\ work[w].pc \in OfferSteps /\ work'[w].pc \in OfferSteps
      BY <1>0, <1>6, <2>2, <3>1 DEF Reread
    <3>3. Covers(w)'
      BY <1>0, <3>1, <3>2, OfferCovers
    <3> QED BY <1>a, <2>2, <3>1, <3>2, <3>3
  <2> QED BY <1>6, <2>1, <2>2 DEF Reread
<1>7. CASE Persist(w)
  <2>1. CASE Goto(w, "scan") /\ Settle(w)
    <3>1. Covers(w)'
      BY <1>0, <1>7, <2>1, SettleCovers DEF Persist
    <3>2. /\ \A v \in Workers \ {w} : work'[v] = work[v]
          /\ \A s \in Sets : offered[s] \subseteq offered'[s]
      BY <1>0, <2>1 DEF Goto, Settle, TypeOK
    <3> QED BY <1>7, <1>a, <3>1, <3>2 DEF Persist
  <2>2. CASE /\ work' = [work EXCEPT ![w].pc = "reread", ![w].tries = @ + 1]
             /\ UNCHANGED offered
    <3>1. /\ \A v \in Workers \ {w} : work'[v] = work[v]
          /\ work'[w].pc = "reread" /\ work'[w].set = work[w].set
          /\ work'[w].page = work[w].page /\ work'[w].user = work[w].user
          /\ work'[w].after = work[w].after /\ work'[w].last = work[w].last
          /\ work'[w].failed = work[w].failed
      BY <1>0, <1>7, <2>2, BusyWorker DEF Persist, TypeOK, Work
    <3>2. /\ UNCHANGED <<published, missed, active, job, offered>>
          /\ work[w].pc \in OfferSteps /\ work'[w].pc \in OfferSteps
      BY <1>0, <1>7, <2>2, <3>1 DEF Persist
    <3>3. Covers(w)'
      BY <1>0, <3>1, <3>2, OfferCovers
    <3> QED BY <1>a, <2>2, <3>1, <3>2, <3>3
  <2>3. CASE /\ work' = [work EXCEPT ![w].pc = "scan", ![w].failed = TRUE]
             /\ UNCHANGED offered
    <3>1. /\ \A v \in Workers \ {w} : work'[v] = work[v]
          /\ work'[w].failed
      BY <1>0, <1>7, <2>3, BusyWorker DEF Persist, TypeOK, Work
    <3> QED BY <1>7, <1>a, <2>3, <3>1, FailedCovers DEF Persist
  <2> QED BY <1>7, <2>1, <2>2, <2>3 DEF Persist
<1>8. CASE OfferRaises(w)
  <2>1. /\ \A v \in Workers \ {w} : work'[v] = work[v]
        /\ work'[w].failed
    BY <1>0, <1>8, BusyWorker DEF OfferRaises, TypeOK, Work
  <2> QED BY <1>8, <1>a, <2>1, FailedCovers DEF OfferRaises
<1>9. CASE JobRaises(w)
  <2>1. /\ \A v \in Workers \ {w} : work'[v] = work[v]
        /\ work'[w].failed
    BY <1>0, <1>9, BusyWorker DEF JobRaises, TypeOK, Work
  <2> QED BY <1>9, <1>a, <2>1, FailedCovers DEF JobRaises
(* The steps that write the job: nobody but w may hold it then.            *)
<1>i. ASSUME Finished(w)
      PROVE  /\ \A v \in Workers \ {w} : work'[v] = work[v]
             /\ Covers(w)'
  <2>1. /\ \A v \in Workers \ {w} : work'[v] = work[v]
        /\ work'[w].pc = "idle"
    BY <1>0, <1>i DEF Finished, Idle, TypeOK
  <2> QED BY <2>1, FailedCovers
<1>10. CASE Killed(w)
  BY <1>10, <1>a, <1>i DEF Killed
<1>b. ASSUME UNCHANGED <<published, active, offered>>,
             \A v \in Workers \ {w} : work'[v] = work[v],
             Covers(w)', NEW s \in Sets,
             \A r \in Sets \ {s} :
               job'[r] = job[r] /\ (r \in missed' <=> r \in missed),
             job'[s].status # "processing" \/ job'[s].holder = w,
             job'[s].status = "done" /\ s \in published \ missed'
               => active \subseteq offered[s]
      PROVE  Covering' /\ DoneIsOffered'
  <2>1. ASSUME NEW v \in Workers \ {w} PROVE Covers(v)'
    <3>1. CASE work[v].pc = "idle" \/ work[v].set = s
      BY <1>b, <3>1 DEF Covers, Leased
    <3>2. CASE work[v].pc # "idle" /\ work[v].set # s
      <4>1. work[v].set \in Sets \ {s}
        BY <1>0, <3>2, BusyWorker
      <4>2. Covers(v)
        BY <1>0 DEF Covering
      <4> QED BY <1>b, <4>1, <4>2 DEF Covers, Leased
    <3> QED BY <3>1, <3>2
  <2>2. published \subseteq Sets
    BY <1>0 DEF TypeOK
  <2> QED BY <1>0, <1>b, <2>1, <2>2 DEF Covering, DoneIsOffered
<1>11. CASE MarkDone(w)
  <2>1. CASE ~Leased(w)
    BY <1>11, <1>a, <1>i, <2>1 DEF MarkDone
  <2>2. CASE Leased(w)
    <3>1. work[w].set \in Sets /\ work[w].pc = "finish" /\ ~work[w].failed
      BY <1>0, <1>11, BusyWorker DEF MarkDone
    <3>2. /\ job'[work[w].set].status = "done"
          /\ \A r \in Sets \ {work[w].set} : job'[r] = job[r]
      BY <1>0, <1>11, <2>2, <3>1 DEF MarkDone, TypeOK, Job
    <3>3. work[w].set \in published \ missed
            => active \subseteq offered[work[w].set]
      BY <1>0, <2>2, <3>1 DEF Covers
    <3> QED BY <1>11, <1>b, <1>i, <3>1, <3>2, <3>3 DEF MarkDone
  <2> QED BY <2>1, <2>2
<1>12. CASE MarkRetry(w)
  <2>1. CASE ~Leased(w)
    BY <1>12, <1>a, <1>i, <2>1 DEF MarkRetry
  <2>2. CASE Leased(w)
    <3>1. work[w].set \in Sets
      BY <1>0, <1>12, BusyWorker DEF MarkRetry
    <3>2. /\ job'[work[w].set] = Retried(work[w].set)
          /\ \A r \in Sets \ {work[w].set} : job'[r] = job[r]
      BY <1>0, <1>12, <2>2, <3>1 DEF MarkRetry, TypeOK
    <3>3. /\ Retried(work[w].set).status \in {"retry", "processing"}
          /\ \/ Retried(work[w].set).status = "retry"
             \/ Retried(work[w].set).holder = w
      BY <1>0, <2>2, <3>1 DEF Retried, Leased, TypeOK, Job
    <3> QED BY <1>12, <1>b, <1>i, <3>1, <3>2, <3>3 DEF MarkRetry
  <2> QED BY <2>1, <2>2
<1>13. ASSUME NEW s \in Sets, Claim(w, s) PROVE Covering' /\ DoneIsOffered'
  <2>1. /\ work'[w] = Started(s)
        /\ \A v \in Workers \ {w} : work'[v] = work[v]
        /\ job'[s].status = "processing" /\ job'[s].holder = w
        /\ \A r \in Sets \ {s} : job'[r] = job[r]
    BY <1>0, <1>13 DEF Claim, TypeOK
  <2>2. \A u \in active : u > 0
    BY <1>0 DEF TypeOK, Users
  <2>3. Covers(w)'
    BY <1>13, <2>1, <2>2 DEF Covers, Started, Claim
  <2> QED BY <1>13, <1>b, <2>1, <2>3 DEF Claim
<1> QED BY <1>1, <1>2, <1>3, <1>4, <1>5, <1>6, <1>7, <1>8, <1>9, <1>10, <1>11,
           <1>12, <1>13 DEF Works, Fails

(* Publishing again a set whose job is held is what `missed' is for.       *)
LEMMA OutsideCovers ==
  ASSUME IInv,
         \/ \E s \in Sets : Publish(s) \/ Unpublish(s) \/ LeaseEnds(s)
         \/ \E u \in Users : \/ UserReads(u) \/ PlanEnds(u)
                             \/ \E d \in Days :
                                  \/ UserTicks(u, d)
                                  \/ \E s \in Sets : UserServed(u, d, s)
  PROVE  Covering' /\ DoneIsOffered'
<1>0. TypeOK /\ Covering /\ DoneIsOffered
  BY DEF IInv, TypeInv
(* What a step that touches no worker has to do for the jobs.              *)
<1>a. ASSUME work' = work, active' \subseteq active,
             NEW s \in Sets,
             published' \ missed' \subseteq (published \ missed) \cup {s},
             \A r \in Sets \ {s} :
               /\ offered'[r] = offered[r]
               /\ job'[r].status = job[r].status
               /\ job'[r].holder = job[r].holder,
             s \notin missed' => job'[s].status \notin {"processing", "done"}
      PROVE  Covering' /\ DoneIsOffered'
  <2>1. ASSUME NEW v \in Workers PROVE Covers(v)'
    <3>1. CASE work[v].pc = "idle" \/ work[v].set = s
      BY <1>a, <3>1 DEF Covers, Leased
    <3>2. CASE work[v].pc # "idle" /\ work[v].set # s
      <4>1. work[v].set \in Sets \ {s}
        BY <1>0, <3>2 DEF TypeOK, Work, Idle
      <4>2. Covers(v)
        BY <1>0 DEF Covering
      <4> QED BY <1>a, <3>2, <4>1, <4>2 DEF Covers, Leased
    <3> QED BY <3>1, <3>2
  <2>2. published \subseteq Sets
    BY <1>0 DEF TypeOK
  <2> QED BY <1>0, <1>a, <2>1, <2>2 DEF Covering, DoneIsOffered
<1>1. ASSUME NEW s \in Sets, Publish(s) PROVE Covering' /\ DoneIsOffered'
  <2>1. \A r \in Sets \ {s} : offered'[r] = offered[r] /\ job'[r] = job[r]
    BY <1>0, <1>1 DEF Publish, TypeOK
  <2>2. s \notin missed' => job'[s].status \notin {"processing", "done"}
    <3>1. job'[s] = Enqueued(s)
      BY <1>0, <1>1 DEF Publish, TypeOK
    <3>2. job[s].status = "processing" => s \in missed'
      BY <1>1 DEF Publish
    <3> QED BY <3>1, <3>2 DEF Enqueued, Ended, NoJob
  <2>3. published' \ missed' \subseteq (published \ missed) \cup {s}
    BY <1>1 DEF Publish
  <2> QED BY <1>1, <1>a, <2>1, <2>2, <2>3 DEF Publish
<1>2. ASSUME NEW s \in Sets, LeaseEnds(s) PROVE Covering' /\ DoneIsOffered'
  <2>1. \A r \in Sets : /\ job'[r].status = job[r].status
                        /\ job'[r].holder = job[r].holder
    BY <1>0, <1>2 DEF LeaseEnds, TypeOK, Job
  <2>2. UNCHANGED <<published, active, work, offered, missed>>
    BY <1>2 DEF LeaseEnds
  <2>3. \A v \in Workers : work[v].pc # "idle" => work[v].set \in Sets
    BY <1>0 DEF TypeOK, Work, Idle
  <2>4. published \subseteq Sets
    BY <1>0 DEF TypeOK
  <2> QED BY <1>0, <2>1, <2>2, <2>3, <2>4
          DEF Covering, Covers, Leased, DoneIsOffered
<1>3. ASSUME NEW s \in Sets, Unpublish(s) PROVE Covering' /\ DoneIsOffered'
  BY <1>0, <1>3 DEF Unpublish, Covering, Covers, Leased, DoneIsOffered
<1>4. ASSUME NEW u \in Users, PlanEnds(u) PROVE Covering' /\ DoneIsOffered'
  BY <1>0, <1>4 DEF PlanEnds, Covering, Covers, Leased, DoneIsOffered
<1>5. ASSUME NEW u \in Users,
             \/ UserReads(u)
             \/ \E d \in Days : \/ UserTicks(u, d)
                                \/ \E s \in Sets : UserServed(u, d, s)
      PROVE  Covering' /\ DoneIsOffered'
  BY <1>0, <1>5 DEF UserReads, UserTicks, UserServed, Covering, Covers, Leased,
                    DoneIsOffered
<1> QED BY <1>1, <1>2, <1>3, <1>4, <1>5

-----------------------------------------------------------------------------
(* The theorems                                                            *)

LEMMA InitInv == ASSUME Init PROVE IInv
<1>1. TypeInv
  BY PlanTypes, JobTypes DEF Init, TypeInv, TypeOK, Idle, OfferSteps
<1>2. Plans
  BY GoodNew DEF Init, Plans, Idle
<1>3. FreshIsCurrent /\ Covering /\ DoneIsOffered
  BY DEF Init, FreshIsCurrent, Covering, Covers, DoneIsOffered, Idle
<1> QED BY <1>1, <1>2, <1>3 DEF IInv

LEMMA InvCorrect == Spec => []IInv
<1>1. Init => IInv
  BY InitInv
<1>2. IInv /\ [Next]_vars => IInv'
  <2> SUFFICES ASSUME IInv, [Next]_vars PROVE IInv'
    OBVIOUS
  <2>1. ASSUME NEW w \in Workers,
               Works(w) \/ Fails(w) \/ \E s \in Sets : Claim(w, s)
        PROVE  IInv'
    <3>1. TypeInv' /\ FreshIsCurrent' /\ Covering' /\ DoneIsOffered'
      BY <2>1, WorkerTypes, WorkerFresh, WorkerCovers
    <3>2. Plans'
      BY <2>1, <3>1, WorkerPlans
    <3> QED BY <3>1, <3>2 DEF IInv
  <2>2. ASSUME \/ \E s \in Sets : Publish(s) \/ Unpublish(s) \/ LeaseEnds(s)
               \/ \E u \in Users : \/ UserReads(u) \/ PlanEnds(u)
                                   \/ \E d \in Days :
                                        \/ UserTicks(u, d)
                                        \/ \E s \in Sets : UserServed(u, d, s)
        PROVE  IInv'
    BY <2>2, OutsideTypes, OutsidePlans, OutsideFresh, OutsideCovers DEF IInv
  <2>3. CASE UNCHANGED vars
    BY <2>3 DEF vars, IInv, TypeInv, TypeOK, Plans, FreshIsCurrent, Covering,
                Covers, Leased, DoneIsOffered
  <2> QED BY <2>1, <2>2, <2>3 DEF Next
<1> QED BY <1>1, <1>2, PTL DEF Spec

(* The variables have their types: the queue never holds a status, an      *)
(* attempt count or a page the code does not know.                         *)
THEOREM TypeCorrect == Spec => []TypeOK
<1>1. IInv => TypeOK
  BY DEF IInv, TypeInv
<1> QED BY <1>1, InvCorrect, PTL

(* A set is on a plan at most once, and only with its ledger row, however  *)
(* many workers offer it while requests of the user place it too.          *)
THEOREM PlacedOnceCorrect == Spec => []PlacedOnce
<1>1. IInv => PlacedOnce
  <2> SUFFICES ASSUME IInv, NEW u \in Users, NEW s \in Sets
               PROVE  /\ OnPlan(row[u], s) => s \in ledger[u]
                      /\ Cardinality({d \in Days : row[u].hub[d] = s}) <= 1
    BY DEF PlacedOnce
  <2>1. Good(ledger[u], row[u])
    BY DEF IInv, Plans
  <2> DEFINE Its == {d \in Days : row[u].hub[d] = s}
  <2>2. ASSUME Its # {} PROVE Cardinality(Its) = 1
    <3>1. PICK d \in Its : TRUE
      BY <2>2
    <3>2. Its = {d}
      BY <2>1, <3>1 DEF Good
    <3> HIDE DEF Its
    <3> QED BY <3>2, FS_Singleton
  <2>3. Cardinality(Its) \in {0, 1}
    <3> HIDE DEF Its
    <3> QED BY <2>2, FS_EmptySet
  <2>4. Cardinality(Its) <= 1
    <3> HIDE DEF Its
    <3> QED BY <2>3
  <2> QED BY <2>1, <2>4 DEF Good
<1> QED BY <1>1, InvCorrect, PTL

(* A job that is done has offered its set to every user with an active     *)
(* plan, whichever workers died, failed or lost their lease on the way.    *)
THEOREM DoneIsOfferedCorrect == Spec => []DoneIsOffered
<1>1. IInv => DoneIsOffered
  BY DEF IInv
<1> QED BY <1>1, InvCorrect, PTL

(* A worker's write takes back neither a hub nor a tick of a plan.         *)
THEOREM FanOutOverwritesNothingCorrect == Spec => FanOutOverwritesNothing
<1> DEFINE Keeps == \A w \in Workers : Persist(w) =>
             \A u \in Users :
               /\ row[u].done \subseteq row'[u].done
               /\ \A d \in Days :
                    row[u].hub[d] # None => row'[u].hub[d] = row[u].hub[d]
<1>1. IInv /\ [Next]_vars => [Keeps]_vars
  <2> SUFFICES ASSUME IInv, NEW w \in Workers, Persist(w), NEW u \in Users
               PROVE  /\ row[u].done \subseteq row'[u].done
                      /\ \A d \in Days :
                           row[u].hub[d] # None
                             => row'[u].hub[d] = row[u].hub[d]
    OBVIOUS
  <2>1. CASE row'[u] = row[u]
    BY <2>1
  <2>2. CASE row'[u] # row[u]
    <3>1. /\ w \in fresh /\ u = work[w].user /\ row'[u] = Placed(w)
          /\ work[w].pc = "persist"
      BY <2>2 DEF IInv, TypeInv, TypeOK, Persist, At, Write
    <3>2. /\ row[u] = work[w].view /\ row[u] \in Plan
          /\ EmptyDays(row[u]) # {}
      BY <3>1 DEF IInv, TypeInv, TypeOK, FreshIsCurrent, Plans
    <3>3. FirstEmpty(row[u]) \in EmptyDays(row[u])
      BY <3>2, FirstEmptyDay
    <3>4. row'[u] = [row[u] EXCEPT !.hub[FirstEmpty(row[u])] = work[w].set]
      BY <3>1, <3>2 DEF Placed, Filled
    <3> QED BY <3>2, <3>3, <3>4 DEF Plan, EmptyDays
  <2> QED BY <2>1, <2>2
<1> QED BY <1>1, InvCorrect, PTL DEF Spec, FanOutOverwritesNothing

=============================================================================
