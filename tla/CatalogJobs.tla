----------------------------- MODULE CatalogJobs -----------------------------
(***************************************************************************)
(* Publishing a Question Bank set (admin/question_bank.py) queues one      *)
(* practice.catalog_changed job in the same transaction; leased workers    *)
(* (practice/catalog_jobs.py) offer the set to every user with an active   *)
(* plan: claim it in the user's assignment ledger, then write it on the    *)
(* first empty day of the plan under a compare-and-swap on updated_at.     *)
(* Meanwhile users tick tasks, which rewrites the whole plan, and serving  *)
(* a plan fills days.                                                      *)
(***************************************************************************)
EXTENDS Naturals, FiniteSets

CONSTANTS
  Sets,             \* Question Bank sets of one skill, a hub each
  NumUsers,         \* users are 1..NumUsers, the order of the keyset pages
  NumDays,          \* days of a plan from today on that have the skill
  Room,             \* Room[u]: how many of them start without a hub
  Practised,        \* pairs <user, set> in user_hub_progress
  Workers,
  PageSize,         \* practice_job_user_batch_size
  PersistAttempts,  \* compare-and-swap rounds of one offer
  MaxAttempts,      \* max_attempts of a job
  MaxChanges,       \* bound: status changes made by admins
  MaxEdits,         \* bound: plan writes started by users
  MaxFaults,        \* bound: failed calls, slow workers and kills
  None,             \* a day without a hub
  Old,              \* any hub placed before
  Nobody

Users == 1..NumUsers
Days  == 1..NumDays

ASSUME CatalogAssumption ==
  /\ NumUsers \in Nat /\ NumDays \in Nat /\ Room \in [Users -> 0..NumDays]
  /\ Practised \subseteq Users \X Sets
  /\ PageSize \in Nat \ {0} /\ PersistAttempts \in Nat \ {0}
  /\ MaxAttempts \in Nat \ {0}
  /\ MaxChanges \in Nat /\ MaxEdits \in Nat /\ MaxFaults \in Nat
  /\ None \notin Sets \cup {Old} /\ Old \notin Sets
  /\ Nobody \notin Workers /\ Workers \cap Users = {}

VARIABLES
  published, \* sets whose practice_sets.status is published
  job,       \* job[s]: the practice_jobs row of set s
  active,    \* users with an active personalized plan
  row,       \* row[u]: hubs and ticked days of u's study_plan
  ledger,    \* ledger[u]: user_practice_assignments
  work,      \* work[w]: where worker w is in its job
  edit,      \* edit[u]: the plan a request of user u read and will write
  fresh,     \* readers whose plan row was not written since they read it
  offered,   \* offered[s]: users settled for s since its job was last queued
  missed,    \* sets published again while a worker held their job
  used       \* used[k]: how much of the bounds is used up

vars == <<published, job, active, row, ledger, work, edit, fresh, offered,
          missed, used>>

-----------------------------------------------------------------------------
(* Types *)

JobStatus == {"absent", "queued", "processing", "retry", "done", "failed"}
Job   == [status : JobStatus, attempts : 0..MaxAttempts,
          holder : Workers \cup {Nobody}, expired : BOOLEAN]
NoJob == [status |-> "absent", attempts |-> 0, holder |-> Nobody,
          expired |-> FALSE]
Plan  == [hub : [Days -> Sets \cup {None, Old}], done : SUBSET Days]

(* `page' and `after' are the keyset page: users still to do, and the last *)
(* user of the page.  `view' is the plan row the offer has read.           *)
Work  == [pc : {"check", "scan", "offer", "claim", "reread", "persist",
                "finish"},
          set : Sets, page : SUBSET Users, after : 0..NumUsers,
          last : BOOLEAN, user : 0..NumUsers, tries : 0..PersistAttempts,
          failed : BOOLEAN, view : Plan]
Idle  == [pc |-> "idle"]
Asleep == [pc |-> "none"]

TypeOK ==
  /\ published \subseteq Sets /\ missed \subseteq Sets
  /\ job \in [Sets -> Job]
  /\ active \subseteq Users
  /\ row \in [Users -> Plan]
  /\ ledger \in [Users -> SUBSET Sets]
  /\ work \in [Workers -> Work \cup {Idle}]
  /\ edit \in [Users -> [pc : {"read"}, view : Plan] \cup {Asleep}]
  /\ fresh \subseteq Workers \cup Users
  /\ offered \in [Sets -> SUBSET Users]
  /\ used \in [{"changes", "edits", "faults"} -> Nat]

NewPlan(room) == [hub  |-> [d \in Days |-> IF d + room <= NumDays THEN Old
                                                               ELSE None],
                  done |-> {}]

Init ==
  /\ published = {} /\ missed = {}
  /\ job = [s \in Sets |-> NoJob]
  /\ active = Users
  /\ row = [u \in Users |-> NewPlan(Room[u])]
  /\ ledger = [u \in Users |-> {}]
  /\ work = [w \in Workers |-> Idle]
  /\ edit = [u \in Users |-> Asleep]
  /\ fresh = {}
  /\ offered = [s \in Sets |-> {}]
  /\ used = [k \in {"changes", "edits", "faults"} |-> 0]

Spend(k, max) == used[k] < max /\ used' = [used EXCEPT ![k] = @ + 1]

-----------------------------------------------------------------------------
(* Plans *)

OnPlan(plan, s) == \E d \in Days : plan.hub[d] = s

(* _set_on_plan_or_progress; a ledger row alone does not count.            *)
Has(u, plan, s) == OnPlan(plan, s) \/ <<u, s>> \in Practised

EmptyDays(plan) == {d \in Days : plan.hub[d] = None}

(* find_eligible_empty_day: the earliest.                                  *)
FirstEmpty(plan) == CHOOSE d \in EmptyDays(plan) :
                      \A e \in EmptyDays(plan) : d <= e

Filled(plan, d, s) == [plan EXCEPT !.hub[d] = s]

(* Whoever has read the row of user u; a write overtakes all of them.      *)
ReadersOf(u) == {w \in Workers : work[w].pc = "persist" /\ work[w].user = u}
                  \cup {u}

Write(u, plan) == /\ row' = [row EXCEPT ![u] = plan]
                  /\ fresh' = fresh \ ReadersOf(u)

-----------------------------------------------------------------------------
(* Admins: apply_practice_set_status and the enqueue it performs.          *)

(* enqueue_practice_catalog_changed: insert, or on conflict revive a job   *)
(* that has ended; any other job is left as it is.                         *)
Ended(s) == job[s].status \in {"absent", "done", "failed"}

Enqueued(s) ==
  IF Ended(s) THEN [NoJob EXCEPT !.status = "queued"] ELSE job[s]

(* offered and missed record what the job owes; the code has neither.      *)
Publish(s) ==
  /\ s \notin published
  /\ published' = published \cup {s}
  /\ job' = [job EXCEPT ![s] = Enqueued(s)]
  /\ offered' = IF Ended(s) THEN [offered EXCEPT ![s] = {}] ELSE offered
  /\ missed' = IF job[s].status = "processing" THEN missed \cup {s} ELSE missed
  /\ Spend("changes", MaxChanges)
  /\ UNCHANGED <<active, row, ledger, work, edit, fresh>>

Unpublish(s) ==
  /\ s \in published
  /\ published' = published \ {s}
  /\ Spend("changes", MaxChanges)
  /\ UNCHANGED <<job, active, row, ledger, work, edit, fresh, offered, missed>>

-----------------------------------------------------------------------------
(* Workers: the job queue                                                  *)

At(w, pc)     == work[w].pc = pc
Goto(w, pc)   == work' = [work EXCEPT ![w].pc = pc]
Working(w, s) == work[w].pc # "idle" /\ work[w].set = s
Leased(w)     == LET j == job[work[w].set] IN
                   j.status = "processing" /\ j.holder = w

Started(s) == [pc |-> "check", set |-> s, page |-> {}, after |-> 0,
               last |-> FALSE, user |-> 0, tries |-> 0, failed |-> FALSE,
               view |-> [hub |-> [d \in Days |-> None], done |-> {}]]

(* claim_practice_jobs: due jobs and jobs whose lease has run out, however *)
(* many attempts they had.                                                 *)
Claim(w, s) ==
  /\ At(w, "idle")
  /\ \/ job[s].status \in {"queued", "retry"}
     \/ job[s].status = "processing" /\ job[s].expired
  /\ job' = [job EXCEPT ![s] =
               [status |-> "processing", holder |-> w, expired |-> FALSE,
                attempts |-> IF job[s].attempts < MaxAttempts
                               THEN job[s].attempts + 1 ELSE MaxAttempts]]
  /\ work' = [work EXCEPT ![w] = Started(s)]
  /\ missed' = missed \ {s}
  /\ UNCHANGED <<published, active, row, ledger, edit, fresh, offered, used>>

(* The lease of a job ends: nobody works on it any more, or its worker is  *)
(* slow, which counts as a fault.                                          *)
LeaseEnds(s) ==
  /\ job[s].status = "processing" /\ ~job[s].expired
  /\ job' = [job EXCEPT ![s].expired = TRUE]
  /\ IF Working(job[s].holder, s) THEN Spend("faults", MaxFaults)
                                  ELSE UNCHANGED used
  /\ UNCHANGED <<published, active, row, ledger, work, edit, fresh, offered,
                 missed>>

(* A set unpublished since is skipped.                                     *)
Check(w) ==
  /\ At(w, "check")
  /\ Goto(w, IF work[w].set \in published THEN "scan" ELSE "finish")
  /\ UNCHANGED <<published, job, active, row, ledger, edit, fresh, offered,
                 missed, used>>

Later(a) == {u \in active : u > a}

(* The next keyset page of users; a short page is the last.                *)
NextPage(w) ==
  LET page == {u \in Later(work[w].after) :
                 Cardinality({v \in Later(work[w].after) : v <= u})
                   <= PageSize}
  IN /\ At(w, "scan") /\ work[w].page = {}
     /\ IF work[w].last \/ page = {}
          THEN Goto(w, "finish")
          ELSE work' = [work EXCEPT
                 ![w].page  = page,
                 ![w].after = CHOOSE u \in page : \A v \in page : v <= u,
                 ![w].last  = Cardinality(page) < PageSize]
     /\ UNCHANGED <<published, job, active, row, ledger, edit, fresh, offered,
                    missed, used>>

NextUser(w) ==
  /\ At(w, "scan") /\ work[w].page # {}
  /\ LET u == CHOOSE u \in work[w].page : \A v \in work[w].page : u <= v
     IN work' = [work EXCEPT ![w].pc = "offer", ![w].user = u, ![w].tries = 0,
                             ![w].page = @ \ {u}]
  /\ UNCHANGED <<published, job, active, row, ledger, edit, fresh, offered,
                 missed, used>>

-----------------------------------------------------------------------------
(* Workers: offer_published_set for the user of the moment                 *)

Settle(w) == offered' = [offered EXCEPT ![work[w].set] = @ \cup {work[w].user}]
Own(u, s) == ledger' = [ledger EXCEPT ![u] = @ \cup {s}]

(* The first look.  A set that is on the plan has its ledger row repaired. *)
Offer(w) ==
  LET u == work[w].user
      s == work[w].set
  IN /\ At(w, "offer")
     /\ \/ /\ u \in active /\ ~Has(u, row[u], s) /\ EmptyDays(row[u]) # {}
           /\ Goto(w, "claim")
           /\ UNCHANGED <<ledger, offered>>
        \/ /\ u \in active /\ Has(u, row[u], s)
           /\ Goto(w, "scan") /\ Settle(w) /\ Own(u, s)
        \/ /\ u \in active => ~Has(u, row[u], s) /\ EmptyDays(row[u]) = {}
           /\ Goto(w, "scan") /\ Settle(w)
           /\ UNCHANGED ledger
     /\ UNCHANGED <<published, job, active, row, edit, fresh, missed, used>>

(* try_claim_practice_assignment: claimed, or already this user's.  The    *)
(* row outlives a crash between here and the write of the plan.            *)
ClaimSet(w) ==
  /\ At(w, "claim")
  /\ Own(work[w].user, work[w].set)
  /\ Goto(w, "reread")
  /\ UNCHANGED <<published, job, active, row, edit, fresh, offered, missed,
                 used>>

(* Mutant: the set is not looked for again on the plan read last.          *)
Reread_NoSecondLook(w) ==
  LET u == work[w].user
      plan == row[u]
  IN /\ At(w, "reread")
     /\ IF u \notin active \/ EmptyDays(plan) = {}
          THEN Goto(w, "scan") /\ Settle(w) /\ UNCHANGED fresh
          ELSE /\ work' = [work EXCEPT ![w].pc = "persist", ![w].view = plan]
               /\ fresh' = fresh \cup {w}
               /\ UNCHANGED offered
     /\ UNCHANGED <<published, job, active, row, ledger, edit, missed, used>>

Reread(w) ==
  LET u == work[w].user
      plan == row[u]
  IN /\ At(w, "reread")
     /\ IF u \notin active \/ Has(u, plan, work[w].set) \/ EmptyDays(plan) = {}
          THEN Goto(w, "scan") /\ Settle(w) /\ UNCHANGED fresh
          ELSE /\ work' = [work EXCEPT ![w].pc = "persist", ![w].view = plan]
               /\ fresh' = fresh \cup {w}
               /\ UNCHANGED offered
     /\ UNCHANGED <<published, job, active, row, ledger, edit, missed, used>>

Placed(w) == Filled(work[w].view, FirstEmpty(work[w].view), work[w].set)

(* Mutant: the update has no condition on updated_at.                      *)
Persist_NoCas(w) ==
  /\ At(w, "persist")
  /\ Write(work[w].user, Placed(w)) /\ Settle(w) /\ Goto(w, "scan")
  /\ UNCHANGED <<published, job, active, ledger, edit, missed, used>>

(* _persist_plan: compare-and-swap.  A loser reads the plan again, at most *)
(* PersistAttempts times; then the offer has failed.                       *)
Persist(w) ==
  /\ At(w, "persist")
  /\ \/ /\ w \in fresh
        /\ Write(work[w].user, Placed(w)) /\ Settle(w) /\ Goto(w, "scan")
     \/ /\ w \notin fresh /\ work[w].tries + 1 < PersistAttempts
        /\ work' = [work EXCEPT ![w].pc = "reread", ![w].tries = @ + 1]
        /\ UNCHANGED <<row, fresh, offered>>
     \/ /\ w \notin fresh /\ work[w].tries + 1 >= PersistAttempts
        /\ work' = [work EXCEPT ![w].pc = "scan", ![w].failed = TRUE]
        /\ UNCHANGED <<row, fresh, offered>>
  /\ UNCHANGED <<published, job, active, ledger, edit, missed, used>>

(* A call raises: the offer has failed, the others are still made.         *)
OfferRaises(w) ==
  /\ work[w].pc \in {"offer", "claim", "reread", "persist"}
  /\ work' = [work EXCEPT ![w].pc = "scan", ![w].failed = TRUE]
  /\ Spend("faults", MaxFaults)
  /\ fresh' = fresh \ {w}
  /\ UNCHANGED <<published, job, active, row, ledger, edit, offered, missed>>

-----------------------------------------------------------------------------
(* Workers: the end of a job                                               *)

Finished(w) == /\ work' = [work EXCEPT ![w] = Idle]
               /\ fresh' = fresh \ {w}

(* Mutant: an offer that failed does not keep the job open.                *)
MarkDone_Always(w) ==
  /\ At(w, "finish")
  /\ job' = IF Leased(w) THEN [job EXCEPT ![work[w].set].status = "done"]
                         ELSE job
  /\ Finished(w)
  /\ UNCHANGED <<published, active, row, ledger, edit, offered, missed, used>>

(* mark_job_done is a leased update: it changes nothing once the job has   *)
(* been claimed again.                                                     *)
MarkDone(w) ==
  /\ At(w, "finish") /\ ~work[w].failed
  /\ job' = IF Leased(w) THEN [job EXCEPT ![work[w].set].status = "done"]
                         ELSE job
  /\ Finished(w)
  /\ UNCHANGED <<published, active, row, ledger, edit, offered, missed, used>>

(* Mutant: the job ends as failed when its attempts are used up.           *)
Retried_Failed(s) ==
  IF job[s].attempts < MaxAttempts
    THEN [job[s] EXCEPT !.status = "retry", !.holder = Nobody]
    ELSE [job[s] EXCEPT !.status = "failed", !.holder = Nobody]

(* Mutant: a status the table does not know.                               *)
Retried_Dead(s) ==
  IF job[s].attempts < MaxAttempts
    THEN [job[s] EXCEPT !.status = "retry", !.holder = Nobody]
    ELSE [job[s] EXCEPT !.status = "dead", !.holder = Nobody]

(* mark_job_retry.  On the last attempt it writes NULL to next_attempt_at, *)
(* which is NOT NULL: the update is refused, the exception is swallowed by *)
(* run_once, and the row stays as it is until its lease ends.              *)
Retried(s) ==
  IF job[s].attempts < MaxAttempts
    THEN [job[s] EXCEPT !.status = "retry", !.holder = Nobody]
    ELSE job[s]

MarkRetry(w) ==
  /\ At(w, "finish") /\ work[w].failed
  /\ job' = IF Leased(w)
              THEN [job EXCEPT ![work[w].set] = Retried(work[w].set)] ELSE job
  /\ Finished(w)
  /\ UNCHANGED <<published, active, row, ledger, edit, offered, missed, used>>

(* A query of the fan-out itself raises: the job is retried.               *)
JobRaises(w) ==
  /\ \/ At(w, "check")
     \/ At(w, "scan") /\ work[w].page = {}
  /\ work' = [work EXCEPT ![w].pc = "finish", ![w].failed = TRUE]
  /\ Spend("faults", MaxFaults)
  /\ UNCHANGED <<published, job, active, row, ledger, edit, fresh, offered,
                 missed>>

(* The process is killed; its jobs wait for their leases to end.           *)
Killed(w) ==
  /\ work[w].pc # "idle"
  /\ Finished(w)
  /\ Spend("faults", MaxFaults)
  /\ UNCHANGED <<published, job, active, row, ledger, edit, offered, missed>>

-----------------------------------------------------------------------------
(* Users                                                                   *)

(* A request reads the plan it will write back.                            *)
UserReads(u) ==
  /\ edit[u] = Asleep
  /\ edit' = [edit EXCEPT ![u] = [pc |-> "read", view |-> row[u]]]
  /\ fresh' = fresh \cup {u}
  /\ Spend("edits", MaxEdits)
  /\ UNCHANGED <<published, job, active, row, ledger, work, offered, missed>>

(* update_task_status: the whole plan is written back, unconditionally.    *)
UserTicks(u, d) ==
  /\ edit[u] # Asleep
  /\ Write(u, [edit[u].view EXCEPT !.done = @ \cup {d}])
  /\ edit' = [edit EXCEPT ![u] = Asleep]
  /\ UNCHANGED <<published, job, active, ledger, work, offered, missed, used>>

(* _serve_rewritten_study_plan: an empty day gets a published set that is  *)
(* not on the plan, claimed first and persisted if the row did not change. *)
UserServed(u, d, s) ==
  /\ edit[u] # Asleep
  /\ d \in EmptyDays(edit[u].view) /\ s \in published
  /\ ~Has(u, edit[u].view, s)
  /\ Own(u, s)
  /\ IF u \in fresh THEN Write(u, Filled(edit[u].view, d, s))
                    ELSE UNCHANGED <<row, fresh>>
  /\ edit' = [edit EXCEPT ![u] = Asleep]
  /\ UNCHANGED <<published, job, active, work, offered, missed, used>>

(* The exam day passes or the subscription ends.                           *)
PlanEnds(u) ==
  /\ active' = active \ {u} /\ active' # active
  /\ UNCHANGED <<published, job, row, ledger, work, edit, fresh, offered,
                 missed, used>>

-----------------------------------------------------------------------------
Works(w) == \/ Check(w) \/ NextPage(w) \/ NextUser(w)
            \/ Offer(w) \/ ClaimSet(w) \/ Reread(w) \/ Persist(w)
            \/ MarkDone(w) \/ MarkRetry(w)

Fails(w) == OfferRaises(w) \/ JobRaises(w) \/ Killed(w)

Next ==
  \/ \E s \in Sets : Publish(s) \/ Unpublish(s) \/ LeaseEnds(s)
  \/ \E w \in Workers : Works(w) \/ Fails(w) \/ \E s \in Sets : Claim(w, s)
  \/ \E u \in Users : \/ UserReads(u) \/ PlanEnds(u)
                      \/ \E d \in Days : \/ UserTicks(u, d)
                                         \/ \E s \in Sets : UserServed(u, d, s)

(* The worker polls, goes on with what it has claimed, and a     *)
(* lease runs out.  Faults and what users and admins do are not fair.      *)
Fairness == /\ \A w \in Workers :
                 /\ WF_vars(Works(w))
                 /\ WF_vars(\E s \in Sets : Claim(w, s))
            /\ \A s \in Sets : WF_vars(LeaseEnds(s) /\ UNCHANGED used)

Spec     == Init /\ [][Next]_vars
FairSpec == Spec /\ Fairness

-----------------------------------------------------------------------------
(* Safety *)

(* A job that is done has settled every user whose plan is still active:   *)
(* the set was placed, was there already, or found no empty day.  Neither  *)
(* a crash, an expired lease, a failed offer nor a page boundary may drop  *)
(* a user.  Publishing again while the job is held is the exception: it    *)
(* queues nothing, and the holder may have read the set as withdrawn.      *)
DoneIsOffered ==
  \A s \in published : job[s].status = "done" /\ s \notin missed
                         => active \subseteq offered[s]

(* A set is on a plan at most once, and only with its ledger row, though   *)
(* two workers may offer it at the same time as a request places it.       *)
PlacedOnce ==
  \A u \in Users, s \in Sets :
    /\ OnPlan(row[u], s) => s \in ledger[u]
    /\ Cardinality({d \in Days : row[u].hub[d] = s}) <= 1

(* The fan-out only fills empty days: a worker's write takes back neither  *)
(* a hub nor a tick, whatever users wrote since it read the plan.          *)
FanOutOverwritesNothing ==
  [][\A w \in Workers : Persist(w) =>
       \A u \in Users :
         /\ row[u].done \subseteq row'[u].done
         /\ \A d \in Days : row[u].hub[d] # None => row'[u].hub[d] = row[u].hub[d]
    ]_vars

(* Every queued job is done in the end, though the worker dies with it or  *)
(* its last attempt cannot be recorded: the lease is the only way out.     *)
JobsEnd ==
  \A s \in Sets : job[s].status \in {"queued", "processing", "retry"}
                    ~> job[s].status = "done"

=============================================================================
