---------------------------- MODULE MockAttempt ----------------------------
(***************************************************************************)
(* The mock exam of one user (src/app/services/mock_orchestrator.py): a    *)
(* mock_attempts row, the parent, groups the test_attempts rows of its     *)
(* module parts, the children.  Starting, resuming and submitting a part   *)
(* are calls of several API threads; every round trip is a step, and a     *)
(* call decides on the snapshot it read (`seen') and writes rows by id.    *)
(* The progress cache lives in Redis and in the memory of every process    *)
(* for up to 30 s.  A read may miss, and a write may not reach the copy    *)
(* that is read next: a hit is some snapshot written earlier, not the last.*)
(***************************************************************************)
EXTENDS Naturals, FiniteSets

CONSTANTS
  Attempts,     \* ids of mock_attempts rows
  Children,     \* ids of test_attempts rows
  Workers,      \* concurrent API calls
  NModules,     \* enabled modules, numbered in catalog order
  Parts,        \* Parts[m]: the live parts of module m
  Speaking,     \* modules finalised as speaking is
  Tidied,       \* modules whose start schedules the stale-row cleanup
  FreeAccess,   \* MOCK_FREE_MODULE_ACCESS: no sequential locks (0 in production)
  Caching,      \* FALSE: no cache write is ever seen by a later read
  RpcOutcomes,  \* what a call of a submit or abandon RPC may come to
  MaxFaults,    \* bound on killed calls
  None

Modules == 1..NModules
Units   == UNION {{m} \X Parts[m] : m \in Modules}

ASSUME MockAssumption ==
  /\ NModules \in Nat \ {0}
  /\ Parts \in [Modules -> SUBSET (Nat \ {0})]
  /\ Speaking \subseteq Modules /\ Tidied \subseteq Modules
  /\ FreeAccess \in BOOLEAN /\ Caching \in BOOLEAN
  /\ RpcOutcomes \subseteq {"answered", "lost", "unavailable"}
  /\ MaxFaults \in Nat
  /\ None \notin Attempts

VARIABLES
  parent,  \* parent[a]: status and current_module (0 for NULL) of the row
  child,   \* child[c]: status, parent, unit, and whether completed_at is set
  cache,   \* cache[a]: the snapshot under the progress cache key of a
  job,     \* job[w]: the call worker w is in the middle of
  faults   \* calls killed so far (at most MaxFaults)

vars == <<parent, child, cache, job, faults>>

-----------------------------------------------------------------------------
(* Types *)

Status == {"absent", "in_progress", "completed", "abandoned"}
NoUnit == <<0, 0>>

(* What a progress bundle says of an attempt; `started' is the unit that   *)
(* start_mock patched in.  A cache entry of the unlock slice alone has     *)
(* status "absent".                                                        *)
Snapshot == [status : Status, done : SUBSET Units, open : SUBSET Units,
             started : Units \cup {NoUnit}]
NoSnapshot == [status |-> "absent", done |-> {}, open |-> {},
               started |-> NoUnit]

Child   == [status : Status \ {"absent"}, of : Attempts, unit : Units,
            submitted : BOOLEAN]
NoChild == [status |-> "absent"]

FreshCalls == {"startNew", "startForced"}
StartCalls == FreshCalls \cup {"startResumed"}
Calls == StartCalls \cup {"start", "resume", "progress", "module", "submit"}

SessionSteps  == {"abandon", "abandonKids", "abandonParent", "insertParent"}
ProgressSteps == {"bundle", "repair", "finish"}
ChildSteps    == {"find", "findForce", "abandonChild", "insertChild",
                  "current", "cleanup", "sweep"}
SubmitSteps   == {"persist", "fbRead", "mark", "submitBundle", "patch"}
Steps == SessionSteps \cup ProgressSteps \cup ChildSteps \cup SubmitSteps

Job  == [call : Calls, att : Attempts \cup {None}, pc : Steps,
         unit : Units \cup {NoUnit}, kids : SUBSET Children,
         seen : Snapshot, todo : {0} \cup Modules]
Idle == [call |-> "none"]

TypeOK ==
  /\ parent \in [Attempts -> [status : Status, current : {0} \cup Modules]]
  /\ child \in [Children -> Child \cup {NoChild}]
  /\ cache \in [Attempts -> Snapshot \cup {None}]
  /\ job \in [Workers -> Job \cup {Idle}]
  /\ faults \in 0..MaxFaults

Init ==
  /\ parent = [a \in Attempts |-> [status |-> "absent", current |-> 0]]
  /\ child = [c \in Children |-> NoChild]
  /\ cache = [a \in Attempts |-> None]
  /\ job = [w \in Workers |-> Idle]
  /\ faults = 0

-----------------------------------------------------------------------------
(* The progress of an attempt *)

Exists(c)    == child[c].status # "absent"
KidsOf(a)    == {c \in Children : Exists(c) /\ child[c].of = a}
DoneOf(a)    == {child[c].unit : c \in {k \in KidsOf(a) :
                                          child[k].status = "completed"}}
OpenOf(a)    == {child[c].unit : c \in {k \in KidsOf(a) :
                                          child[k].status = "in_progress"}}
OpenKids(a, u) == {c \in KidsOf(a) : child[c].status = "in_progress"
                                     /\ child[c].unit = u}

(* fetch_mock_attempt_progress_bundle                                      *)
Bundle(a) == [status |-> parent[a].status, done |-> DoneOf(a),
              open |-> OpenOf(a), started |-> NoUnit]

UnitsOf(m) == {m} \X Parts[m]

(* _module_parts_complete and _compute_module_statuses                     *)
Complete(m, s)   == UnitsOf(m) \subseteq s.done
InProgress(m, s) == ~Complete(m, s) /\ UnitsOf(m) \cap (s.open \cup s.done) # {}
Unlocked(m, s)   == FreeAccess \/ \A k \in Modules : k < m => Complete(k, s)
Startable(m, s)  == ~Complete(m, s) /\ (InProgress(m, s) \/ Unlocked(m, s))
AllComplete(s)   == \A m \in Modules : Complete(m, s)

(* The first startable module, and the part each caller opens in it:       *)
(* start_mock the open part or else the first, get_progress (next_part)    *)
(* the first part that is not done.                                        *)
IsNext(m, s) == m \in Modules /\ Startable(m, s)
                /\ \A k \in Modules : Startable(k, s) => m <= k
IsFirst(u, S) == u \in S /\ \A v \in S : u[2] <= v[2]

StartUnit(u, s) ==
  /\ u \in Units /\ IsNext(u[1], s)
  /\ LET waiting == UnitsOf(u[1]) \cap (s.open \ s.done) IN
     IF waiting # {} THEN u \in waiting ELSE IsFirst(u, UnitsOf(u[1]))

(* Mutant: the first open part of any module.                               *)
NextUnit_AnyModule(u, s) ==
  u \in Units /\ ~Complete(u[1], s) /\ IsFirst(u, UnitsOf(u[1]) \ s.done)

NextUnit(u, s) ==
  /\ u \in Units
  /\ IF s.started # NoUnit
       THEN u = s.started
       ELSE IsNext(u[1], s) /\ IsFirst(u, UnitsOf(u[1]) \ s.done)

(* Mutant: no lock on the module.                                           *)
MayOpen_AnyModule(u, s) ==
  /\ u \notin s.done
  /\ \A v \in UnitsOf(u[1]) : v[2] < u[2] => v \in s.done

(* _validate_unlock_from_snapshot                                          *)
MayOpen(u, s) ==
  /\ Startable(u[1], s) /\ u \notin s.done
  /\ \A v \in UnitsOf(u[1]) : v[2] < u[2] => v \in s.done

-----------------------------------------------------------------------------
(* Workers *)

Free(w)   == job[w] = Idle
At(w, pc) == job[w] # Idle /\ job[w].pc = pc

SetJob(w, call, a, pc, u, kids, seen, todo) ==
  job' = [job EXCEPT ![w] = [call |-> call, att |-> a, pc |-> pc, unit |-> u,
                             kids |-> kids, seen |-> seen, todo |-> todo]]
Goto(w, pc) ==
  SetJob(w, job[w].call, job[w].att, pc, job[w].unit, job[w].kids,
         job[w].seen, job[w].todo)
GotoSeen(w, pc, s) ==
  SetJob(w, job[w].call, job[w].att, pc, job[w].unit, job[w].kids, s,
         job[w].todo)
GotoKids(w, pc, kids) ==
  SetJob(w, job[w].call, job[w].att, pc, job[w].unit, kids, job[w].seen,
         job[w].todo)
Stop(w) == job' = [job EXCEPT ![w] = Idle]

(* A call arrives and makes its first read.                                *)
Begin(w, call, a, pc, u, kids) ==
  /\ Free(w)
  /\ SetJob(w, call, a, pc, u, kids, NoSnapshot, 0)

-----------------------------------------------------------------------------
(* start_mock: the session *)

(* The start context holds the attempt in progress, if there is one.       *)
StartMock(w, force) ==
  LET existing == {a \in Attempts : parent[a].status = "in_progress"} IN
  /\ \/ /\ existing = {}
        /\ Begin(w, IF force THEN "startForced" ELSE "startNew", None,
                 "insertParent", NoUnit, {})
     \/ \E a \in existing :
          IF force THEN Begin(w, "startForced", a, "abandon", NoUnit, {})
                   ELSE Begin(w, "startResumed", a, "bundle", NoUnit, {})
  /\ UNCHANGED <<parent, child, cache, faults>>

Abandoned(C) ==
  child' = [c \in Children |-> IF c \in C
                                 THEN [child[c] EXCEPT !.status = "abandoned"]
                                 ELSE child[c]]
OpenKidsOf(a) == {c \in KidsOf(a) : child[c].status = "in_progress"}
SetParent(a, status, current) ==
  parent' = [parent EXCEPT ![a] = [status |-> status, current |-> current]]

(* Mutant: the parent is abandoned whatever its status.                     *)
AbandonTransaction_AnyStatus(a) ==
  /\ Abandoned(OpenKidsOf(a))
  /\ SetParent(a, "abandoned", parent[a].current)

(* The transaction of the abandon_mock_attempt_session RPC.                *)
AbandonTransaction(a) ==
  /\ Abandoned(OpenKidsOf(a))
  /\ IF parent[a].status = "in_progress"
       THEN SetParent(a, "abandoned", parent[a].current)
       ELSE UNCHANGED parent

AbandonSession(w) ==
  /\ At(w, "abandon") /\ "answered" \in RpcOutcomes
  /\ AbandonTransaction(job[w].att)
  /\ SetJob(w, "startForced", None, "insertParent", NoUnit, {}, NoSnapshot, 0)
  /\ UNCHANGED <<cache, faults>>

(* Any exception of the RPC runs the sequential fallback.                  *)
AbandonUnanswered(w) ==
  /\ At(w, "abandon")
  /\ \/ "lost" \in RpcOutcomes /\ AbandonTransaction(job[w].att)
     \/ "unavailable" \in RpcOutcomes /\ UNCHANGED <<parent, child>>
  /\ Goto(w, "abandonKids")
  /\ UNCHANGED <<cache, faults>>

AbandonKids(w) ==
  /\ At(w, "abandonKids")
  /\ Abandoned(OpenKidsOf(job[w].att))
  /\ Goto(w, "abandonParent")
  /\ UNCHANGED <<parent, cache, faults>>

AbandonParent(w) ==
  /\ At(w, "abandonParent")
  /\ SetParent(job[w].att, "abandoned", parent[job[w].att].current)
  /\ SetJob(w, "startForced", None, "insertParent", NoUnit, {}, NoSnapshot, 0)
  /\ UNCHANGED <<child, cache, faults>>

(* A partial unique index allows one attempt in progress; the insert fails *)
(* on it, or (a bound of the model) when the ids are used up.              *)
InsertParent(w) ==
  /\ At(w, "insertParent")
  /\ LET fresh == {a \in Attempts : parent[a].status = "absent"} IN
     IF fresh = {} \/ \E a \in Attempts : parent[a].status = "in_progress"
       THEN Stop(w) /\ UNCHANGED parent
       ELSE \E a \in fresh :
              /\ SetParent(a, "in_progress", 1)
              /\ SetJob(w, job[w].call, a, "bundle", NoUnit, {}, NoSnapshot, 0)
  /\ UNCHANGED <<child, cache, faults>>

-----------------------------------------------------------------------------
(* Progress: read, repair, cache *)

(* Any write may stay unseen by the next reader.  It is placed with the    *)
(* read it comes from, or with the last step its value needs.              *)
Cached(a, s) ==
  \/ UNCHANGED cache
  \/ Caching /\ cache' = [cache EXCEPT ![a] = s]
Hit(a)         == cache[a] # None
HitProgress(a) == Hit(a) /\ cache[a].status # "absent"

(* What start_mock does with its progress: an attempt inserted without     *)
(* force_new abandons what it finds open (module_force_new), one inserted  *)
(* after an abandon does not.  current_module is written beside the child. *)
OpenTarget(w, call, a, s) ==
  IF \E u \in Units : StartUnit(u, s)
    THEN \E u \in Units :
           /\ StartUnit(u, s)
           /\ SetJob(w, "start", a,
                     IF call = "startNew" THEN "findForce" ELSE "find", u, {},
                     NoSnapshot, u[1])
           /\ Cached(a, [s EXCEPT !.started = u, !.open = @ \cup {u}])
    ELSE /\ IF call \in FreshCalls
              THEN Stop(w)
              ELSE SetJob(w, call, a, "finish", NoUnit, {}, NoSnapshot, 0)
         /\ UNCHANGED cache

(* ... and resume_mock with the progress it read or found in the cache.    *)
ResumeAt(w, a, s) ==
  IF s.status = "in_progress" /\ \E u \in Units : NextUnit(u, s)
    THEN \E u \in Units :
           /\ NextUnit(u, s)
           /\ SetJob(w, "resume", a, "find", u, {}, NoSnapshot, 0)
    ELSE Stop(w)

UseProgress(w, call, a, s) ==
  CASE call \in StartCalls -> OpenTarget(w, call, a, s)
    [] call = "resume"     -> ResumeAt(w, a, s) /\ Cached(a, s)
    [] OTHER               -> Stop(w) /\ Cached(a, s)

(* Mutant: reading the progress repairs nothing.                            *)
Progress_NoRepair(w, call, a, s) == UseProgress(w, call, a, s)

(* _progress_from_context: the row is repaired if need be.                 *)
Progress(w, call, a, s) ==
  IF AllComplete(s) /\ s.status # "completed"
    THEN SetJob(w, call, a, "repair", NoUnit, {}, s, 0) /\ UNCHANGED cache
    ELSE UseProgress(w, call, a, s)

(* GET of the progress or the session of an attempt that misses the cache. *)
GetProgress(w, a) ==
  /\ Free(w) /\ parent[a].status # "absent"
  /\ Progress(w, "progress", a, Bundle(a))
  /\ UNCHANGED <<parent, child, faults>>

(* resume_mock, on a miss and on a hit of the cache.                       *)
ResumeMock(w, a) ==
  /\ Free(w) /\ parent[a].status # "absent"
  /\ \/ Progress(w, "resume", a, Bundle(a))
     \/ HitProgress(a) /\ ResumeAt(w, a, cache[a]) /\ UNCHANGED cache
  /\ UNCHANGED <<parent, child, faults>>

ReadBundle(w) ==
  /\ At(w, "bundle")
  /\ Progress(w, job[w].call, job[w].att, Bundle(job[w].att))
  /\ UNCHANGED <<parent, child, faults>>

Repair(w) ==
  /\ At(w, "repair")
  /\ SetParent(job[w].att, "completed", 0)
  /\ UseProgress(w, job[w].call, job[w].att,
                 [job[w].seen EXCEPT !.status = "completed"])
  /\ UNCHANGED <<child, faults>>

(* Mutant: a status the mock_attempts table does not know.                  *)
Finish_Misspelt(w) ==
  /\ At(w, "finish")
  /\ SetParent(job[w].att, "complete", 0)
  /\ Stop(w)
  /\ UNCHANGED <<child, cache, faults>>

(* A resumed start with nothing left to start.                             *)
Finish(w) ==
  /\ At(w, "finish")
  /\ SetParent(job[w].att, "completed", 0)
  /\ Stop(w)
  /\ UNCHANGED <<child, cache, faults>>

-----------------------------------------------------------------------------
(* Starting a part *)

(* The start endpoint of a module: assert_module_unlocked on a cached      *)
(* snapshot, or on one read now, whose unlock slice is then cached.        *)
StartPart(w, a, u, force) ==
  LET now == [Bundle(a) EXCEPT !.status = "absent"] IN
  /\ parent[a].status # "absent"
  /\ \/ /\ MayOpen(u, now)
        /\ Cached(a, now)
     \/ Hit(a) /\ MayOpen(u, cache[a]) /\ UNCHANGED cache
  /\ Begin(w, "module", a, IF force THEN "findForce" ELSE "find", u, {})
  /\ UNCHANGED <<parent, child, faults>>

(* The child is there: what is left of the call.                           *)
AfterChild(w) ==
  CASE job[w].call = "start"  -> Goto(w, "current")
    [] job[w].call = "resume" ->
         SetJob(w, "resume", job[w].att, "current", job[w].unit, {},
                NoSnapshot, job[w].unit[1])
    [] job[w].call = "module" /\ job[w].unit[1] \in Tidied -> Goto(w, "cleanup")
    [] OTHER -> Stop(w)

(* An expired speaking attempt without answers is abandoned unasked.       *)
FindChild(w) ==
  LET found == OpenKids(job[w].att, job[w].unit)
      expires == job[w].call = "module" /\ job[w].unit[1] \in Speaking IN
  /\ At(w, "find") \/ At(w, "findForce")
  /\ \/ found = {} /\ Goto(w, "insertChild")
     \/ \E c \in found :
          /\ At(w, "findForce") \/ expires
          /\ GotoKids(w, "abandonChild", {c})
     \/ found # {} /\ At(w, "find") /\ AfterChild(w)
  /\ UNCHANGED <<parent, child, cache, faults>>

(* By id, whatever the status has become.                                  *)
AbandonChild(w) ==
  /\ At(w, "abandonChild")
  /\ Abandoned(job[w].kids)
  /\ GotoKids(w, "insertChild", {})
  /\ UNCHANGED <<parent, cache, faults>>

(* A unique index allows one speaking attempt in progress; the other       *)
(* modules have none.                                                      *)
InsertChild(w) ==
  LET a == job[w].att
      u == job[w].unit
      fresh == {c \in Children : ~Exists(c)} IN
  /\ At(w, "insertChild")
  /\ IF fresh = {} \/ (u[1] \in Speaking /\ OpenKids(a, u) # {})
       THEN Stop(w) /\ UNCHANGED child
       ELSE /\ \E c \in fresh :
                 child' = [child EXCEPT ![c] =
                             [status |-> "in_progress", of |-> a, unit |-> u,
                              submitted |-> FALSE]]
            /\ AfterChild(w)
  /\ UNCHANGED <<parent, cache, faults>>

(* start_mock writes current_module at any moment of opening the child,    *)
(* resume_mock after it.                                                   *)
SetCurrent(w) ==
  LET a == job[w].att IN
  /\ ~Free(w) /\ job[w].todo # 0
  /\ SetParent(a, parent[a].status, job[w].todo)
  /\ SetJob(w, job[w].call, a, job[w].pc, job[w].unit, job[w].kids,
            job[w].seen, 0)
  /\ UNCHANGED <<child, cache, faults>>

(* The call is done; resume_mock first gets the progress once more, from   *)
(* the cache or by a new read.                                             *)
Started(w) ==
  LET a == job[w].att IN
  /\ At(w, "current") /\ job[w].todo = 0
  /\ \/ (job[w].call = "start" \/ HitProgress(a)) /\ Stop(w) /\ UNCHANGED cache
     \/ job[w].call = "resume" /\ Progress(w, "progress", a, Bundle(a))
  /\ UNCHANGED <<parent, child, faults>>

(* abandon_stale_reading_attempts: rows of the part that are open in       *)
(* another session, or in this one although the part is done.              *)
Cleanup(w) ==
  LET a == job[w].att
      u == job[w].unit
      stale == {c \in Children : Exists(c) /\ child[c].status = "in_progress"
                                 /\ child[c].unit = u
                                 /\ (child[c].of # a \/ u \in DoneOf(a))} IN
  /\ At(w, "cleanup")
  /\ IF stale = {} THEN Stop(w) ELSE GotoKids(w, "sweep", stale)
  /\ UNCHANGED <<parent, child, cache, faults>>

Sweep(w) ==
  /\ At(w, "sweep")
  /\ \E c \in job[w].kids :
       /\ Abandoned({c})
       /\ IF job[w].kids = {c} THEN Stop(w)
                               ELSE GotoKids(w, "sweep", job[w].kids \ {c})
  /\ UNCHANGED <<parent, cache, faults>>

-----------------------------------------------------------------------------
(* Submitting a part *)

SetDone(c) ==
  child' = [child EXCEPT ![c] = [status |-> "completed", of |-> child[c].of,
                                 unit |-> child[c].unit, submitted |-> TRUE]]

(* submit_attempt reads the attempt, which must be in progress, and scores *)
(* it; finalize_attempt of speaking has no transaction.                    *)
Submit(w, c) ==
  /\ Exists(c) /\ child[c].status = "in_progress"
  /\ Begin(w, "submit", child[c].of,
           IF child[c].unit[1] \in Speaking THEN "mark" ELSE "persist",
           child[c].unit, {c})
  /\ UNCHANGED <<parent, child, cache, faults>>

Open(w) == \A c \in job[w].kids : child[c].status = "in_progress"

(* The transaction of the persist_module_submit_bundle RPC.                *)
PersistTransaction(w) ==
  IF Open(w) THEN \E c \in job[w].kids : SetDone(c) ELSE UNCHANGED child

Persist(w) ==
  /\ At(w, "persist") /\ "answered" \in RpcOutcomes
  /\ PersistTransaction(w)
  /\ IF Open(w) THEN GotoKids(w, "submitBundle", {}) ELSE Stop(w)
  /\ UNCHANGED <<parent, cache, faults>>

PersistUnanswered(w) ==
  /\ At(w, "persist")
  /\ \/ "lost" \in RpcOutcomes /\ PersistTransaction(w)
     \/ "unavailable" \in RpcOutcomes /\ UNCHANGED child
  /\ Goto(w, "fbRead")
  /\ UNCHANGED <<parent, cache, faults>>

FallbackRead(w) ==
  /\ At(w, "fbRead")
  /\ IF Open(w) THEN Goto(w, "mark") ELSE Stop(w)
  /\ UNCHANGED <<parent, child, cache, faults>>

(* mark_attempt_completed, by id.                                          *)
MarkDone(w) ==
  /\ At(w, "mark")
  /\ \E c \in job[w].kids : SetDone(c)
  /\ GotoKids(w, "submitBundle", {})
  /\ UNCHANGED <<parent, cache, faults>>

(* on_module_attempt_completed                                             *)
SubmitBundle(w) ==
  /\ At(w, "submitBundle")
  /\ GotoSeen(w, "patch", Bundle(job[w].att))
  /\ UNCHANGED <<parent, child, cache, faults>>

(* Mutant: any complete module completes the attempt.                       *)
AdvanceParent_AnyModule(w) ==
  LET a == job[w].att
      m == job[w].unit[1]
      s == job[w].seen IN
  /\ At(w, "patch")
  /\ IF Complete(m, s)
       THEN /\ SetParent(a, "completed", 0)
            /\ Progress(w, "submit", a, [s EXCEPT !.status = "completed"])
       ELSE /\ SetParent(a, parent[a].status, m)
            /\ Progress(w, "submit", a, s)
  /\ UNCHANGED <<child, faults>>

AdvanceParent(w) ==
  LET a == job[w].att
      m == job[w].unit[1]
      s == job[w].seen IN
  /\ At(w, "patch")
  /\ IF Complete(m, s) /\ m = NModules
       THEN /\ SetParent(a, "completed", 0)
            /\ Progress(w, "submit", a, [s EXCEPT !.status = "completed"])
       ELSE /\ SetParent(a, parent[a].status,
                         IF Complete(m, s) THEN m + 1 ELSE m)
            /\ Progress(w, "submit", a, s)
  /\ UNCHANGED <<child, faults>>

-----------------------------------------------------------------------------
(* A process is killed, or a call raises where nothing more is written.    *)
Killed(w) ==
  /\ ~Free(w)
  /\ faults < MaxFaults /\ faults' = faults + 1
  /\ Stop(w)
  /\ UNCHANGED <<parent, child, cache>>

Arrive(w) ==
  \/ \E force \in BOOLEAN : StartMock(w, force)
  \/ \E a \in Attempts : GetProgress(w, a) \/ ResumeMock(w, a)
  \/ \E a \in Attempts, u \in Units, force \in BOOLEAN : StartPart(w, a, u, force)
  \/ \E c \in Children : Submit(w, c)

Step(w) ==
  \/ AbandonSession(w) \/ AbandonUnanswered(w) \/ AbandonKids(w)
  \/ AbandonParent(w) \/ InsertParent(w)
  \/ ReadBundle(w) \/ Repair(w) \/ Finish(w)
  \/ FindChild(w) \/ AbandonChild(w) \/ InsertChild(w)
  \/ SetCurrent(w) \/ Started(w) \/ Cleanup(w) \/ Sweep(w)
  \/ Persist(w) \/ PersistUnanswered(w) \/ FallbackRead(w) \/ MarkDone(w)
  \/ SubmitBundle(w) \/ AdvanceParent(w)

Next == \E w \in Workers : Arrive(w) \/ Step(w) \/ Killed(w)

Spec == Init /\ [][Next]_vars

(* A started call goes on; somebody looks at the progress of an attempt    *)
(* again and again, later than the 30 s a cached answer lives.             *)
Fairness ==
  /\ \A w \in Workers : WF_vars(Step(w))
  /\ \A a \in Attempts : SF_vars(\E w \in Workers : GetProgress(w, a))

FairSpec == Spec /\ Fairness

-----------------------------------------------------------------------------
(* Properties *)

(* The units of a that were ever submitted: completed_at is set, whatever  *)
(* became of the row since.                                                *)
Submitted(a) == {child[c].unit : c \in {k \in KidsOf(a) : child[k].submitted}}

(* What must be submitted before u is opened: the earlier parts of its     *)
(* module, and with sequential locks every earlier module.                 *)
Before(u) == {v \in Units : \/ v[1] = u[1] /\ v[2] < u[2]
                            \/ ~FreeAccess /\ v[1] < u[1]}

(* No part is opened before what precedes it was submitted, though the     *)
(* unlock check reads a cache that any process may have left stale.        *)
ExamOrder ==
  \A c \in Children :
    Exists(c) => Before(child[c].unit) \subseteq Submitted(child[c].of)

Required == IF FreeAccess THEN UnitsOf(NModules) ELSE Units

(* The module an attempt points at is one its user may open.               *)
CurrentIsUnlocked ==
  ~FreeAccess =>
    \A a \in Attempts : \A u \in Units :
      u[1] < parent[a].current => u \in Submitted(a)

(* A completed attempt stays completed (the guard of the abandon RPC,      *)
(* migration 20260731120000).                                              *)
CompletedIsFinal ==
  [][\A a \in Attempts :
       parent[a].status = "completed" => parent'[a].status = "completed"]_vars

(* The promise of the abstract specification: a unit counts as submitted   *)
(* from the write of completed_at on.                                      *)
Promise ==
  INSTANCE ExamSession
    WITH Sessions <- Attempts, Earlier <- [u \in Units |-> Before(u)],
         state <- [a \in Attempts |-> parent[a].status],
         submitted <- [a \in Attempts |-> Submitted(a)]
ImplementsExamSession == Promise!Spec

(* Once every part is done the attempt becomes completed, though the call  *)
(* that should have said so was killed or got a 409 for its own commit.    *)
DoneIsRecorded ==
  \A a \in Attempts :
    Units \subseteq DoneOf(a) ~>
      parent[a].status = "completed" \/ ~(Units \subseteq DoneOf(a))

=============================================================================
