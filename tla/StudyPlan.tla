------------------------------ MODULE StudyPlan ------------------------------
(***************************************************************************)
(* The exam-date-bound study plan of one user (learning/service.py): one   *)
(* JSON column that every request reads whole and writes whole.  Serving   *)
(* the plan fills its empty days with Question Bank hubs, claimed in the   *)
(* assignment ledger first (practice/assignment.py); ticking a task,       *)
(* completing a hub, refreshing the profile, replanning and generating     *)
(* anew write it too.  Only the fill compares updated_at.  A rewritten     *)
(* plan is cached under the finished hubs and the catalog version, and     *)
(* admins publish and withdraw sets meanwhile.                             *)
(***************************************************************************)
EXTENDS Naturals, FiniteSets

CONSTANTS
  NumDays,     \* the exam is on this day; the first plan starts on day 1
  NumHubs,     \* Question Bank hubs of one skill, in catalog order
  Steady,      \* hubs that are published throughout
  Procs,       \* requests and background threads that overlap
  MaxAsks,     \* bound: operations started
  MaxBuilds,   \* bound: plans built by generate and replan
  MaxVersions, \* bound: catalog versions
  None         \* a day without a hub

Days == 1..NumDays
BankHubs == 1..NumHubs

ASSUME StudyAssumption ==
  /\ NumDays \in Nat \ {0} /\ NumHubs \in Nat /\ Steady \subseteq BankHubs
  /\ MaxAsks \in Nat /\ MaxBuilds \in Nat /\ MaxVersions \in Nat \ {0}
  /\ None \notin BankHubs

VARIABLES
  row,       \* user_learning_profiles.study_plan
  fresh,     \* processes whose read of the row no write has overtaken
  today,
  ledger,    \* hubs in user_practice_assignments
  progress,  \* hubs in user_hub_progress, completed
  published, \* the assignable pool
  version,   \* practice_catalog_version
  cache,     \* the plan_rewritten entry of the present key, or NoPlan
  procs,     \* procs[p]: the operation p performs
  used       \* used[k]: how much of the bounds is used up

planVars == <<row, fresh, today, ledger, progress, published, version, cache,
              procs, used>>

-----------------------------------------------------------------------------
(* Types *)

(* `start' is prep_start, `built' counts the plan's last_replan_at and `at'*)
(* is hubs_materialized_catalog_version, 0 before there is one.  A day has *)
(* one task, which is ticked or not.                                       *)
Plan   == [hub : [Days -> BankHubs \cup {None}], done : SUBSET Days,
           start : Days, built : 0..MaxBuilds, at : 0..MaxVersions]
NoPlan == [built |-> MaxBuilds + 1]
Key    == [progress : SUBSET BankHubs, version : 1..MaxVersions]

Ops  == {"view", "refresh", "tick", "untick", "sync", "replan", "generate"}
(* `view' is the plan as read, `plan' what the operation makes of it and   *)
(* `key' the cache key it computed; `by' is the number of a build.         *)
Work == [pc : {"read", "fill", "cache", "write", "written", "warm"}, op : Ops,
         day : Days \cup {0}, hub : BankHubs \cup {0}, by : 0..MaxBuilds,
         view : Plan, plan : Plan, key : Key, hit : BOOLEAN]
NoWork == [pc |-> "idle"]

PlanTypeOK ==
  /\ row \in Plan /\ cache \in Plan \cup {NoPlan}
  /\ fresh \subseteq Procs
  /\ today \in Days /\ version \in 1..MaxVersions
  /\ ledger \subseteq BankHubs /\ progress \subseteq BankHubs
  /\ published \subseteq BankHubs
  /\ procs \in [Procs -> Work \cup {NoWork}]
  /\ used \in [{"asks", "builds"} -> Nat]

(* A plan written while nothing was published: every day is still empty.   *)
PlanInit ==
  /\ row = [hub |-> [d \in Days |-> None], done |-> {}, start |-> 1,
            built |-> 0, at |-> 0]
  /\ fresh = {} /\ today = 1 /\ ledger = {} /\ progress = {}
  /\ published \in {Steady, BankHubs} /\ version = 1 /\ cache = NoPlan
  /\ procs = [p \in Procs |-> NoWork]
  /\ used = [k \in {"asks", "builds"} |-> 0]

PresentKey == [progress |-> progress, version |-> version]

-----------------------------------------------------------------------------
(* Assignment: practice/assignment.py and rules.py *)

Nth(S, i) == CHOOSE h \in S : Cardinality({g \in S : g < h}) = i
Least(S)  == Nth(S, 0)

HubsOf_WithEmpty(plan) == {plan.hub[d] : d \in Days}

HubsOf(plan) == {plan.hub[d] : d \in Days} \ {None}

(* collect_used_assignment_ids; a plan lists its hubs in assigned_hub_ids. *)
Used(listed) == ledger \cup progress \cup listed

(* _ledger_orphans_by_skill: claimed, but never written on the plan.       *)
Orphans_OnPlanToo(listed) == ledger \cap published

Orphans(listed) == (ledger \cap published) \ listed

(* try_claim_practice_assignment of an unused hub, before it is placed.    *)
Claims_None(free, hub) == {}

Claims(free, hub) == free \cap {hub}

(* pick_soft_repeat_hub: wrap the pool, skipping the hub of the last day.  *)
SoftRepeat(offset, last) ==
  LET n    == Cardinality(published)
      pick == Nth(published, offset % n)
  IN  IF pick = last /\ n > 1 THEN Nth(published, (offset + 1) % n) ELSE pick

(* _should_preserve_assignment *)
Preserved(plan, d) == d < today \/ plan.hub[d] \in published

(* rewrite_plan_hubs, a day after the other: an empty day of today or      *)
(* later gets an orphan, else the first unused hub, which it claims, else a*)
(* repeat.                                                                 *)
WalkStart(plan, listed) ==
  [hub |-> plan.hub, last |-> None, filled |-> FALSE, claims |-> {},
   orphans |-> Orphans(listed), taken |-> Used(listed)]

Picked(plan, s, free, d) ==
  IF s.orphans /= {} THEN Least(s.orphans)
  ELSE IF free /= {} THEN Least(free)
  ELSE IF published /= {} THEN SoftRepeat(d - plan.start, s.last)
  ELSE None

WalkDay(plan, s, d) ==
  LET free == published \ s.taken
      hub  == Picked(plan, s, free, d)
  IN  IF d < plan.start THEN s
      ELSE IF Preserved(plan, d)
      THEN [s EXCEPT !.last = IF plan.hub[d] = None THEN @ ELSE plan.hub[d]]
      ELSE [hub     |-> [s.hub EXCEPT ![d] = hub],
            last    |-> IF hub = None THEN s.last ELSE hub,
            filled  |-> s.filled \/ hub /= None,
            claims  |-> s.claims \cup Claims(free, hub),
            orphans |-> s.orphans \ {hub},
            taken   |-> s.taken \cup ({hub} \ {None})]

Walked(plan, listed) ==
  LET walk[d \in 0..NumDays] ==
        IF d = 0 THEN WalkStart(plan, listed)
        ELSE WalkDay(plan, walk[d - 1], d)
  IN  walk[NumDays]

(* build_personalized_study_plan from the day `start': as many unused hubs *)
(* as there are days, in order, and nothing for the days left over.        *)
Unused(view)        == published \ (ledger \cup HubsOf(view))
Slot(view, start, d) == IF d >= start /\ d - start < Cardinality(Unused(view))
                        THEN Nth(Unused(view), d - start) ELSE None
NewHubs(view, start) == {Slot(view, start, d) : d \in Days} \ {None}

Merged_NoStatuses(view, by) ==
  [view EXCEPT !.hub   = [d \in Days |-> IF d < today THEN view.hub[d]
                                         ELSE Slot(view, view.start, d)],
               !.done  = @ \cap 1..(today - 1), !.built = by, !.at = 0]

(* _merge_remaining_plan: past days are the old plan's, statuses carry over*)
(* by task id, which names the day.                                        *)
Merged(view, by) ==
  [view EXCEPT !.hub   = [d \in Days |-> IF d < today THEN view.hub[d]
                                         ELSE Slot(view, view.start, d)],
               !.built = by, !.at = 0]

(* generate_personalized_plan: a new plan from today on, whose statuses    *)
(* carry over only if the old one also starts today.                       *)
Generated(view, by) ==
  [hub   |-> [d \in Days |-> Slot(view, today, d)],
   done  |-> IF view.start = today THEN view.done ELSE {},
   start |-> today, built |-> by, at |-> 0]

-----------------------------------------------------------------------------
(* Starting an operation: the request reads the row *)

Start(p, op, day, hub) ==
  /\ procs' = [procs EXCEPT ![p] =
                 [pc |-> "read", op |-> op, day |-> day, hub |-> hub,
                  by |-> used'["builds"], view |-> row, plan |-> row,
                  key |-> PresentKey, hit |-> FALSE]]
  /\ fresh' = fresh \cup {p}

StepTo(p, pc) == procs' = [procs EXCEPT ![p].pc = pc]
Ends(p)       == procs' = [procs EXCEPT ![p] = NoWork]
IsAt(p, pc)   == procs[p].pc = pc
Doing(p, op) == IsAt(p, "read") /\ procs[p].op = op

Asked(k) == used["asks"] < MaxAsks
            /\ used' = [used EXCEPT !["asks"] = @ + 1, !["builds"] = @ + k]

(* ensure_profile serves a fresh enough row; a stale one is refreshed.     *)
AskPlan(p) ==
  /\ IsAt(p, "idle") /\ Asked(0)
  /\ \E op \in {"view", "refresh"} : Start(p, op, 0, 0)
  /\ UNCHANGED <<row, today, ledger, progress, published, version, cache>>

(* is_plan_day_accessible: up to today, or tomorrow once all before is done*)
Accessible(plan, d) ==
  /\ d >= plan.start
  /\ d <= today \/ (d = today + 1 /\ plan.start .. today \subseteq plan.done)

(* update_task_status: 404 and 400 leave everything as it is.              *)
AskTick(p) ==
  /\ IsAt(p, "idle") /\ Asked(0)
  /\ \E d \in Days, op \in {"tick", "untick"} :
       Accessible(row, d) /\ Start(p, op, d, 0)
  /\ UNCHANGED <<row, today, ledger, progress, published, version, cache>>

(* complete_hub: the progress row first, which drops the cached plans; then*)
(* sync_study_plan_tasks_for_hub reads the plan.                           *)
AskComplete(p) ==
  /\ IsAt(p, "idle") /\ Asked(0)
  /\ \E h \in published : /\ progress' = progress \cup {h}
                          /\ Start(p, "sync", 0, h)
  /\ cache' = NoPlan
  /\ UNCHANGED <<row, today, ledger, published, version>>

AskBuild(p) ==
  /\ IsAt(p, "idle") /\ used["builds"] < MaxBuilds /\ Asked(1)
  /\ \E op \in {"replan", "generate"} : Start(p, op, 0, 0)
  /\ UNCHANGED <<row, today, ledger, progress, published, version, cache>>

-----------------------------------------------------------------------------
(* Serving: _serve_rewritten_study_plan *)

Write(plan) == row' = plan /\ fresh' = {}

(* set_json: an entry under a key that has passed is never asked for again.*)
Cached(p, plan) ==
  cache' = IF procs[p].key = PresentKey THEN plan ELSE cache

(* _plan_hubs_materialized *)
Materialized(plan) == /\ plan.at = version /\ HubsOf(plan) /= {}
                      /\ \A d \in plan.start..NumDays : plan.hub[d] /= None

(* What the operation gets back: the cached plan whatever plan it passed,  *)
(* or its plan with the empty days filled.  An unconditional caller goes on*)
(* to write the result, a view only shows it.                              *)
ServeFrom(p, plan, listed, claimed) ==
  LET walk  == Walked(plan, listed)
      after == IF procs[p].op = "view" THEN "idle" ELSE "write"
      next(pc, res, hit) ==
        procs' = [procs EXCEPT ![p] =
          IF pc = "idle" THEN NoWork
          ELSE [procs[p] EXCEPT !.pc = pc, !.plan = res, !.hit = hit,
                                !.key = PresentKey]]
  IN  IF cache /= NoPlan
      THEN /\ next(after, cache, TRUE) /\ ledger' = ledger \cup claimed
           /\ UNCHANGED cache
      ELSE IF Materialized(plan)
      THEN /\ next(after, plan, FALSE) /\ cache' = plan
           /\ ledger' = ledger \cup claimed
      ELSE /\ ledger' = ledger \cup claimed \cup walk.claims
           /\ IF walk.filled
              THEN next("fill", [plan EXCEPT !.hub = walk.hub], FALSE)
                   /\ UNCHANGED cache
              ELSE next(after, [plan EXCEPT !.hub = walk.hub], FALSE)
                   /\ cache' = [plan EXCEPT !.hub = walk.hub]

Serve(p) ==
  /\ Doing(p, "view")
  /\ ServeFrom(p, procs[p].view, HubsOf(procs[p].view), {})
  /\ UNCHANGED <<row, fresh, today, progress, published, version, used>>

PersistFill_NoCas(p) ==
  /\ IsAt(p, "fill") /\ procs[p].op = "view"
  /\ Write(procs[p].plan) /\ StepTo(p, "cache")
  /\ UNCHANGED <<today, ledger, progress, published, version, cache, used>>

(* _persist_filled_study_plan under updated_at; when the row has changed,  *)
(* or the call fails, the fills are shown but neither stored nor cached.   *)
PersistFill(p) ==
  /\ IsAt(p, "fill") /\ procs[p].op = "view"
  /\ \/ p \in fresh /\ Write(procs[p].plan) /\ StepTo(p, "cache")
     \/ UNCHANGED <<row, fresh>> /\ Ends(p)
  /\ UNCHANGED <<today, ledger, progress, published, version, cache, used>>

(* generate and replan pass no updated_at to compare; when the call fails  *)
(* they go on all the same.                                                *)
PersistBuild(p) ==
  /\ IsAt(p, "fill") /\ procs[p].op /= "view"
  /\ \/ Write(procs[p].plan) /\ StepTo(p, "cache")
     \/ UNCHANGED <<row, fresh>> /\ StepTo(p, "write")
  /\ UNCHANGED <<today, ledger, progress, published, version, cache, used>>

CacheFill(p) ==
  /\ IsAt(p, "cache")
  /\ Cached(p, procs[p].plan)
  /\ IF procs[p].op = "view" THEN Ends(p) ELSE StepTo(p, "write")
  /\ UNCHANGED <<row, fresh, today, ledger, progress, published, version,
                 used>>

-----------------------------------------------------------------------------
(* Writing the whole plan back *)

(* refresh_profile writes the personalized plan back as it has read it; the*)
(* row it returns is the one it wrote.                                     *)
Refresh(p) ==
  /\ Doing(p, "refresh")
  /\ row' = procs[p].view /\ fresh' = {p} /\ StepTo(p, "written")
  /\ UNCHANGED <<today, ledger, progress, published, version, cache, used>>

Ticked(plan, op, d) == [plan EXCEPT !.done = IF op = "tick" THEN @ \cup {d}
                                             ELSE @ \ {d}]

TickWrite(p) ==
  /\ \E op \in {"tick", "untick"} :
       Doing(p, op) /\ Write(Ticked(procs[p].view, op, procs[p].day))
  /\ StepTo(p, "written")
  /\ UNCHANGED <<today, ledger, progress, published, version, cache, used>>

(* sync_study_plan_tasks_for_hub ticks every day of the hub, whatever the  *)
(* day; with nothing to tick it writes nothing.                            *)
DaysOf(plan, h) == {d \in Days : plan.hub[d] = h}

SyncWrite(p) ==
  LET todo == DaysOf(procs[p].view, procs[p].hub) \ procs[p].view.done
  IN  /\ Doing(p, "sync")
      /\ IF todo = {} THEN UNCHANGED <<row, fresh>>
         ELSE Write([procs[p].view EXCEPT !.done = @ \cup todo])
      /\ StepTo(p, "written")
      /\ UNCHANGED <<today, ledger, progress, published, version, cache, used>>

(* replan_remaining_schedule and generate_personalized_plan: build, which  *)
(* claims, then _materialize_study_plan_hubs.  The merged plan still lists *)
(* the hubs built for days that the merge has dropped.                     *)
Replan(p) ==
  LET view == procs[p].view
      new  == NewHubs(view, view.start)
      plan == Merged(view, procs[p].by)
  IN  /\ Doing(p, "replan")
      /\ ServeFrom(p, plan, HubsOf(plan) \cup new, new)
      /\ UNCHANGED <<row, fresh, today, progress, published, version, used>>

Generate(p) ==
  LET view == procs[p].view
      plan == Generated(view, procs[p].by)
  IN  /\ Doing(p, "generate")
      /\ ServeFrom(p, plan, HubsOf(plan), NewHubs(view, today))
      /\ UNCHANGED <<row, fresh, today, progress, published, version, used>>

(* The result is stamped with the catalog version of now and written.      *)
WriteBuild(p) ==
  /\ IsAt(p, "write")
  /\ Write([procs[p].plan EXCEPT !.at = version]) /\ StepTo(p, "written")
  /\ UNCHANGED <<today, ledger, progress, published, version, cache, used>>

(* invalidate_learning_profile_cache; a build also records what it wrote in*)
(* the ledger and then warms the cache; a refresh that a request waits for *)
(* serves the row it wrote, one in the background ends.                    *)
Building(p) == procs[p].op \in {"replan", "generate"}

Invalidate(p) ==
  /\ IsAt(p, "written")
  /\ cache' = NoPlan
  /\ ledger' = IF Building(p) THEN ledger \cup HubsOf(procs[p].plan)
               ELSE ledger
  /\ IF Building(p) THEN StepTo(p, "warm")
     ELSE \/ Ends(p)
          \/ /\ procs[p].op = "refresh"
             /\ procs' = [procs EXCEPT ![p].op = "view", ![p].pc = "read"]
  /\ UNCHANGED <<row, fresh, today, progress, published, version, used>>

(* warm_learning_profile_cache: a refresh by force, or one more replan when*)
(* the plan it reads back does not say that it was replanned this week.    *)
Warm(p) ==
  /\ IsAt(p, "warm")
  /\ \/ UNCHANGED used /\ Start(p, "refresh", 0, 0)
     \/ /\ procs[p].hit /\ used["builds"] < MaxBuilds
        /\ used' = [used EXCEPT !["builds"] = @ + 1]
        /\ Start(p, "replan", 0, 0)
  /\ UNCHANGED <<row, today, ledger, progress, published, version, cache>>

-----------------------------------------------------------------------------
(* The world around the user's requests *)

(* apply_practice_set_status bumps the version with the status; a new      *)
(* version is a new cache key.                                             *)
CatalogChanges(pool) ==
  /\ version < MaxVersions /\ version' = version + 1
  /\ published' = pool /\ cache' = NoPlan
  /\ UNCHANGED <<row, fresh, today, ledger, progress, procs, used>>

Publish  == \E h \in BankHubs \ published :
              CatalogChanges(published \cup {h})
Withdraw == \E h \in published \ Steady : CatalogChanges(published \ {h})

Tomorrow ==
  /\ today < NumDays /\ today' = today + 1
  /\ UNCHANGED <<row, fresh, ledger, progress, published, version, cache,
                 procs, used>>

(* PLAN_REWRITTEN_CACHE_TTL, a request that dies, a server that restarts.  *)
Expire ==
  /\ cache /= NoPlan /\ cache' = NoPlan
  /\ UNCHANGED <<row, fresh, today, ledger, progress, published, version,
                 procs, used>>

WorkDies(p) ==
  /\ ~IsAt(p, "idle") /\ Ends(p)
  /\ UNCHANGED <<row, fresh, today, ledger, progress, published, version,
                 cache, used>>

PlanNext ==
  \/ \E p \in Procs :
       \/ AskPlan(p) \/ AskTick(p) \/ AskComplete(p) \/ AskBuild(p)
       \/ Serve(p) \/ PersistFill(p) \/ PersistBuild(p) \/ CacheFill(p)
       \/ Refresh(p) \/ TickWrite(p) \/ SyncWrite(p)
       \/ Replan(p) \/ Generate(p) \/ WriteBuild(p) \/ Invalidate(p) \/ Warm(p)
       \/ WorkDies(p)
  \/ Publish \/ Withdraw \/ Tomorrow \/ Expire

PlanSpec == PlanInit /\ [][PlanNext]_planVars

-----------------------------------------------------------------------------
(* Properties *)

(* practice/invariants.py, plan_missing_from_ledger: every hub on a plan,  *)
(* stored, cached or about to be written, is claimed in the ledger or is   *)
(* one the user had finished, so no later fill hands it out as a new one.  *)
PlannedIsClaimed ==
  /\ HubsOf(row) \subseteq ledger \cup progress
  /\ cache /= NoPlan => HubsOf(cache) \subseteq ledger \cup progress
  /\ \A p \in Procs :
       IsAt(p, "fill") => HubsOf(procs[p].plan) \subseteq ledger \cup progress

(* assignment.py, "Prefer unique unused hubs": two days share a hub only   *)
(* when nothing unused is left, however serves, replans and catalog changes*)
(* overlap.  Said of the hubs that were published all along.               *)
Repeats(plan) == \E d, e \in Days : /\ d /= e /\ plan.hub[d] = plan.hub[e]
                                    /\ plan.hub[d] /= None
NoNeedlessRepeat == Repeats(row) => Steady \subseteq ledger \cup progress

(* Filling the empty days of a served plan undoes nothing that any other   *)
(* request wrote: no tick, no past day, no hub that is still published.    *)
FillsUndoNothing ==
  [][\A p \in Procs : PersistFill(p) =>
       /\ row'.done = row.done /\ row'.built = row.built
       /\ \A d \in Days :
            row.hub[d] \in Steady => row'.hub[d] = row.hub[d]]_planVars

(* A tick vanishes only when the user takes it back, when a new plan       *)
(* starts, when the request that writes had read the row before another    *)
(* request wrote it, or when a replan took the plan from the cache.        *)
Overtaken(p) == p \notin fresh \/ procs[p].hit
TicksLostOnlyToOverlap ==
  [][row.done \subseteq row'.done
     \/ \E p \in Procs : /\ procs[p] /= procs'[p]
                         /\ \/ procs[p].op \in {"untick", "generate"}
                            \/ procs[p].op /= "view" /\ Overtaken(p)]_planVars

=============================================================================
