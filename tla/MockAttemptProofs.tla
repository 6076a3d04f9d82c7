-------------------------- MODULE MockAttemptProofs --------------------------
(***************************************************************************)
(* Machine-checked proofs about MockAttempt, for every catalogue of        *)
(* modules and parts, every number of sessions, attempts and workers, with *)
(* and without free access, the cache and the fallbacks.                   *)
(***************************************************************************)
EXTENDS MockAttempt, TLAPS, FiniteSetTheorems, WellFoundedInduction

USE MockAssumption

-----------------------------------------------------------------------------
(* The inductive invariant *)

Known(a) == parent[a].status # "absent"

(* What precedes unit u was submitted in session a.                        *)
Ready(a, u) == Before(u) \subseteq Submitted(a)

(* What a snapshot of session a says holds and goes on to hold: what was   *)
(* done was submitted, and what was open could be opened.                  *)
Sound(a, s) ==
  /\ s.done \subseteq Submitted(a)
  /\ \A u \in s.done \cup s.open : Ready(a, u)
  /\ s.started # NoUnit => Ready(a, s.started)

(* The rows of a session belong to a session, are completed only by a      *)
(* submission, and were opened in exam order.                              *)
Family ==
  \A c \in Children : Exists(c) =>
    /\ Known(child[c].of)
    /\ child[c].status = "completed" => child[c].submitted
    /\ Ready(child[c].of, child[c].unit)

Rows ==
  /\ parent \in [Attempts -> [status : Status, current : {0} \cup Modules]]
  /\ child \in [Children -> Child \cup {NoChild}]
  /\ Family
  /\ CurrentIsUnlocked

(* A call works on a session that exists, for a unit that may be opened,   *)
(* on what it read of that session, and on rows that exist.                *)
JobOK(j) ==
  /\ j.pc = "insertParent" => j.todo = 0 /\ j.unit = NoUnit
  /\ j.pc # "insertParent" =>
       j.att \in Attempts /\ Known(j.att) /\ Sound(j.att, j.seen)
  /\ j.pc \in ChildSteps \cup SubmitSteps => j.unit \in Units
  /\ j.unit # NoUnit => Ready(j.att, j.unit)
  /\ j.todo # 0 => j.unit \in Units /\ j.todo = j.unit[1]
  /\ \A c \in j.kids : Exists(c)
  /\ j.pc \in {"repair", "finish"} => Units \subseteq Submitted(j.att)
  /\ j.pc \in {"abandonKids", "abandonParent"} =>
       ~(RpcOutcomes \subseteq {"answered"})

(* Stated of the value, so that it reads the same after a step.            *)
Jobs ==
  /\ job \in [Workers -> Job \cup {Idle}]
  /\ \A w \in Workers, j \in Job : job[w] = j => JobOK(j)
Cache ==
  /\ cache \in [Attempts -> Snapshot \cup {None}]
  /\ \A a \in Attempts, s \in Snapshot : cache[a] = s /\ Hit(a) => Sound(a, s)

IInv == Rows /\ Jobs /\ Cache /\ faults \in 0..MaxFaults

-----------------------------------------------------------------------------
(* Numbers, units and snapshots *)

(* A set of numbers has a least element.                                   *)
LEMMA Least ==
  ASSUME NEW S \in SUBSET Nat, S # {}
  PROVE  \E m \in S : \A x \in S : m <= x
<1> DEFINE Below(m) == {x \in S : x <= m}
           Cuts     == {Below(m) : m \in S}
<1>1. Cuts \subseteq FiniteSubsetsOf(Nat) /\ Cuts # {}
  <2>1. \A m \in S : Below(m) \in SUBSET Nat /\ IsFiniteSet(Below(m))
    BY FS_BoundedSetOfNaturals
  <2>2. \A m \in S : Below(m) \in FiniteSubsetsOf(Nat)
    BY <2>1 DEF FiniteSubsetsOf
  <2> HIDE DEF Below
  <2> QED BY <2>2
<1>2. PICK C \in Cuts :
        \A D \in Cuts : <<D, C>> \notin StrictSubsetOrdering(Nat)
  BY <1>1, WFMin, FS_StrictSubsetOrderingWellFounded, Zenon
<1>3. PICK m \in S : C = Below(m)
  OBVIOUS
<1>4. ASSUME NEW x \in S, x < m PROVE FALSE
  <2>1. x \in Nat /\ m \in Nat /\ x <= m /\ ~(m <= x)
    BY <1>4
  <2>2. \A y \in Nat : y <= x => y <= m
    BY <2>1
  <2>3. /\ Below(x) \subseteq Below(m)
        /\ m \notin Below(x)
        /\ m \in Below(m)
    <3>1. \A y \in S : y \in Nat
      OBVIOUS
    <3>2. m <= m
      BY <2>1
    <3> QED BY <2>1, <2>2, <3>1, <3>2
  <2>4. <<Below(x), Below(m)>> \in StrictSubsetOrdering(Nat)
    BY <2>3 DEF StrictSubsetOrdering
  <2> QED BY <1>2, <1>3, <2>4
<1> QED BY <1>4

(* A unit is a module of the catalogue with a part of it.                  *)
LEMMA UnitIs ==
  /\ NoUnit \notin Units
  /\ \A u \in Units : u[1] \in Modules /\ u[2] \in Nat /\ u \in UnitsOf(u[1])
  /\ \A m \in Modules : \A u \in UnitsOf(m) : u \in Units /\ u[1] = m
BY DEF Units, UnitsOf, NoUnit, Modules

(* What was submitted, row by row.                                         *)
LEMMA SubmittedIs ==
  ASSUME NEW a, NEW u
  PROVE  /\ u \in Submitted(a) <=>
              \E c \in Children : /\ Exists(c) /\ child[c].of = a
                                  /\ child[c].submitted /\ child[c].unit = u
         /\ u \in Submitted(a)' <=>
              \E c \in Children : /\ Exists(c)' /\ child'[c].of = a
                                  /\ child'[c].submitted /\ child'[c].unit = u
BY DEF Submitted, KidsOf

(* What precedes a unit: earlier parts of its module, and with locks the   *)
(* earlier modules.                                                        *)
LEMMA ReadyIs ==
  ASSUME NEW a, NEW u \in Units
  PROVE  Ready(a, u) <=>
           /\ \A v \in UnitsOf(u[1]) : v[2] < u[2] => v \in Submitted(a)
           /\ ~FreeAccess =>
                \A v \in Units : v[1] < u[1] => v \in Submitted(a)
BY UnitIs DEF Ready, Before

(* A module that may be started, for all that a sound snapshot says: with  *)
(* locks the modules before it were submitted.                             *)
LEMMA ModuleOpens ==
  ASSUME NEW a, NEW s, Sound(a, s), NEW m \in Modules, Startable(m, s),
         ~FreeAccess, NEW v \in Units, v[1] < m
  PROVE  v \in Submitted(a)
<1>1. CASE Unlocked(m, s)
  <2>1. Complete(v[1], s)
    BY <1>1, UnitIs DEF Unlocked
  <2> QED BY <2>1, UnitIs DEF Complete, Sound
<1>2. CASE InProgress(m, s)
  <2>1. PICK x \in UnitsOf(m) : x \in s.open \cup s.done
    BY <1>2 DEF InProgress
  <2>2. x \in Units /\ x[1] = m /\ Ready(a, x)
    BY <2>1, UnitIs DEF Sound
  <2> QED BY <2>2, ReadyIs
<1> QED BY <1>1, <1>2 DEF Startable

(* ... so a part of it whose earlier parts were submitted may be opened.   *)
LEMMA UnitOpens ==
  ASSUME NEW a, NEW s, Sound(a, s), NEW u \in Units, Startable(u[1], s),
         \A v \in UnitsOf(u[1]) : v[2] < u[2] => v \in Submitted(a)
  PROVE  Ready(a, u)
<1>1. u[1] \in Modules
  BY UnitIs
<1> QED BY <1>1, ModuleOpens, ReadyIs

(* The unit a start opens may be opened.                                   *)
LEMMA StartOpens ==
  ASSUME NEW a, NEW s \in Snapshot, Sound(a, s), NEW u, StartUnit(u, s)
  PROVE  u \in Units /\ Ready(a, u)
<1> DEFINE waiting == UnitsOf(u[1]) \cap (s.open \ s.done)
<1>1. u \in Units /\ Startable(u[1], s)
  BY DEF StartUnit, IsNext
<1>2. CASE waiting # {}
  <2>1. u \in s.open
    BY <1>2 DEF StartUnit
  <2> QED BY <1>1, <2>1 DEF Sound
<1>3. CASE waiting = {}
  <2>1. \A v \in UnitsOf(u[1]) : u[2] <= v[2]
    BY <1>3 DEF StartUnit, IsFirst
  <2>2. \A v \in UnitsOf(u[1]) : ~(v[2] < u[2])
    BY <1>1, <2>1, UnitIs
  <2> QED BY <1>1, <2>2, UnitOpens
<1> QED BY <1>2, <1>3

(* The unit a resume opens may be opened.                                  *)
LEMMA NextOpens ==
  ASSUME NEW a, NEW s \in Snapshot, Sound(a, s), NEW u, NextUnit(u, s)
  PROVE  u \in Units /\ Ready(a, u)
<1>1. u \in Units
  BY DEF NextUnit
<1>2. CASE s.started # NoUnit
  BY <1>1, <1>2 DEF NextUnit, Sound
<1>3. CASE s.started = NoUnit
  <2>1. /\ Startable(u[1], s)
        /\ \A v \in UnitsOf(u[1]) \ s.done : u[2] <= v[2]
    BY <1>3 DEF NextUnit, IsNext, IsFirst
  <2>2. \A v \in UnitsOf(u[1]) : v[2] < u[2] => v \in s.done
    BY <1>1, <2>1, UnitIs
  <2> QED BY <1>1, <2>1, <2>2, UnitOpens DEF Sound
<1> QED BY <1>2, <1>3

(* The unit the unlock check lets through may be opened.                   *)
LEMMA MayOpens ==
  ASSUME NEW a, NEW s, Sound(a, s), NEW u \in Units, MayOpen(u, s)
  PROVE  Ready(a, u)
BY UnitOpens DEF MayOpen, Sound

(* A snapshot with every module complete is of a session with every part   *)
(* submitted.                                                              *)
LEMMA AllSubmitted ==
  ASSUME NEW a, NEW s, Sound(a, s), AllComplete(s)
  PROVE  Units \subseteq Submitted(a)
BY UnitIs DEF AllComplete, Complete, Sound

(* As long as a module is not complete there is a part to start.           *)
LEMMA SomethingToStart ==
  ASSUME NEW s \in Snapshot, ~AllComplete(s)
  PROVE  \E u \in Units : StartUnit(u, s)
<1> DEFINE S == {m \in Modules : ~Complete(m, s)}
           T == {m \in Modules : Startable(m, s)}
<1>1. S \in SUBSET Nat /\ S # {}
  BY DEF AllComplete, Modules
<1>2. PICK k \in S : \A m \in S : k <= m
  <2> HIDE DEF S
  <2> QED BY <1>1, Least
<1>3. k \in T
  BY <1>2 DEF Startable, Unlocked, Modules
<1>4. T \in SUBSET Nat /\ T # {}
  BY <1>3 DEF Modules
<1>5. PICK m \in T : \A n \in T : m <= n
  <2> HIDE DEF T
  <2> QED BY <1>4, Least
<1>6. m \in Modules /\ IsNext(m, s) /\ ~Complete(m, s)
  BY <1>5 DEF IsNext, Startable
<1>7. \A u \in UnitsOf(m) : u \in Units /\ u[1] = m
  BY <1>6, UnitIs
<1>8. CASE UnitsOf(m) \cap (s.open \ s.done) # {}
  <2>1. PICK u \in UnitsOf(m) : u \in s.open \ s.done
    BY <1>8
  <2> QED BY <1>6, <1>7, <2>1 DEF StartUnit
<1>9. CASE UnitsOf(m) \cap (s.open \ s.done) = {}
  <2>1. Parts[m] \in SUBSET Nat /\ Parts[m] # {}
    BY <1>6 DEF Complete, UnitsOf
  <2>2. PICK p \in Parts[m] : \A q \in Parts[m] : p <= q
    BY <2>1, Least
  <2>3. /\ <<m, p>> \in UnitsOf(m)
        /\ \A v \in UnitsOf(m) : p <= v[2]
    BY <2>2 DEF UnitsOf
  <2>4. IsFirst(<<m, p>>, UnitsOf(m))
    BY <2>3 DEF IsFirst
  <2> QED BY <1>6, <1>7, <1>9, <2>3, <2>4 DEF StartUnit
<1> QED BY <1>8, <1>9

-----------------------------------------------------------------------------
(* What a step keeps *)

(* Nothing that is known of a session or a row is forgotten.               *)
Grows ==
  /\ \A a \in Attempts : /\ Submitted(a) \subseteq Submitted(a)'
                         /\ Known(a) => Known(a)'
  /\ \A c \in Children : Exists(c) => Exists(c)'

(* What could be opened, what a snapshot says and what a call relies on    *)
(* stays true while nothing is forgotten.                                  *)
LEMMA ReadyStays ==
  ASSUME Grows, NEW a \in Attempts, NEW u, Ready(a, u)
  PROVE  Ready(a, u)'
BY DEF Grows, Ready, Before

LEMMA SoundStays ==
  ASSUME Grows, NEW a \in Attempts, NEW s, Sound(a, s)
  PROVE  Sound(a, s)'
<1>1. s.done \subseteq Submitted(a)'
  BY DEF Grows, Sound
<1>2. \A u \in s.done \cup s.open : Ready(a, u)'
  BY ReadyStays DEF Sound
<1>3. s.started # NoUnit => Ready(a, s.started)'
  BY ReadyStays DEF Sound
<1> QED BY <1>1, <1>2, <1>3 DEF Sound

LEMMA JobStays ==
  ASSUME Grows, NEW j \in Job, JobOK(j)
  PROVE  JobOK(j)'
<1>1. j.pc # "insertParent" =>
        j.att \in Attempts /\ Known(j.att)' /\ Sound(j.att, j.seen)'
  BY SoundStays DEF JobOK, Grows
<1>2. j.unit # NoUnit => Ready(j.att, j.unit)'
  BY ReadyStays DEF JobOK
<1>3. j.kids \subseteq Children /\ \A c \in j.kids : Exists(c)'
  BY DEF JobOK, Grows, Job
<1>4. j.pc \in {"repair", "finish"} => Units \subseteq Submitted(j.att)'
  BY DEF JobOK, Grows
<1> QED BY <1>1, <1>2, <1>3, <1>4 DEF JobOK

(* The rows after a step that touches children only as the calls do: what  *)
(* a row was opened for never changes, a row is completed only submitted   *)
(* and inserted only for a unit that may be opened.                        *)
ChildrenMove ==
  /\ child' \in [Children -> Child \cup {NoChild}]
  /\ \A c \in Children :
       \/ ~Exists(c) /\ ~Exists(c)'
       \/ /\ ~Exists(c) /\ Exists(c)' /\ child'[c].status # "completed"
          /\ Known(child'[c].of) /\ Ready(child'[c].of, child'[c].unit)
       \/ /\ Exists(c) /\ Exists(c)'
          /\ child'[c].of = child[c].of /\ child'[c].unit = child[c].unit
          /\ child[c].submitted => child'[c].submitted
          /\ child'[c].status = "completed" => child'[c].submitted

(* ... and parents only so that one that exists goes on to, and points at  *)
(* a module that is unlocked.                                              *)
ParentsMove ==
  /\ parent' \in [Attempts -> [status : Status, current : {0} \cup Modules]]
  /\ \A a \in Attempts :
       /\ Known(a) => Known(a)'
       /\ ~FreeAccess =>
            \A u \in Units : u[1] < parent'[a].current => u \in Submitted(a)

(* Such a step forgets nothing and keeps the rows in order.                *)
LEMMA RowsMove ==
  ASSUME Rows, ChildrenMove, ParentsMove
  PROVE  Rows' /\ Grows
<1>1. \A c \in Children : Exists(c) => Exists(c)'
  BY DEF ChildrenMove
<1>2. ASSUME NEW a \in Attempts, NEW u \in Submitted(a)
      PROVE  u \in Submitted(a)'
  <2>1. PICK c \in Children : /\ Exists(c) /\ child[c].of = a
                              /\ child[c].submitted /\ child[c].unit = u
    BY SubmittedIs
  <2>2. /\ Exists(c)' /\ child'[c].of = a
        /\ child'[c].submitted /\ child'[c].unit = u
    BY <2>1 DEF ChildrenMove
  <2> QED BY <2>2, SubmittedIs
<1>3. Grows
  BY <1>1, <1>2 DEF Grows, ParentsMove
<1>4. ASSUME NEW c \in Children, Exists(c)'
      PROVE  /\ Known(child[c].of)'
             /\ child'[c].status = "completed" => child'[c].submitted
             /\ Ready(child[c].of, child[c].unit)'
  <2>1. child'[c] \in Child
    BY <1>4 DEF ChildrenMove, Exists, NoChild
  <2>2. child'[c].of \in Attempts /\ child'[c].unit \in Units
    BY <2>1 DEF Child
  <2>3. /\ Known(child'[c].of)
        /\ child'[c].status = "completed" => child'[c].submitted
        /\ Ready(child'[c].of, child'[c].unit)
    BY <1>4 DEF ChildrenMove, Rows, Family
  <2>4. PICK a \in Attempts, u \in Units :
          a = child'[c].of /\ u = child'[c].unit
    BY <2>2
  <2>5. Known(a)' /\ Ready(a, u)'
    BY <1>3, <2>3, <2>4, ReadyStays DEF Grows
  <2> QED BY <2>3, <2>4, <2>5 DEF Known, Ready
<1>5. Family'
  BY <1>4 DEF Family
<1>6. CurrentIsUnlocked'
  BY <1>2 DEF ParentsMove, CurrentIsUnlocked
<1> QED BY <1>3, <1>5, <1>6 DEF Rows, ChildrenMove, ParentsMove

(* The moves of the calls.                                                 *)
LEMMA ChildrenRest ==
  ASSUME Rows, UNCHANGED child
  PROVE  ChildrenMove
BY DEF Rows, Family, ChildrenMove, Exists

LEMMA ParentsRest ==
  ASSUME Rows, UNCHANGED parent
  PROVE  ParentsMove
BY DEF Rows, CurrentIsUnlocked, ParentsMove, Known

LEMMA AbandonedMove ==
  ASSUME Rows, NEW C, \A c \in C : Exists(c), Abandoned(C)
  PROVE  /\ ChildrenMove
         /\ \A a \in Attempts : Submitted(a)' = Submitted(a)
<1>1. ASSUME NEW c \in Children, c \in C
      PROVE  /\ child'[c] \in Child /\ child'[c].status = "abandoned"
             /\ child'[c].of = child[c].of /\ child'[c].unit = child[c].unit
             /\ child'[c].submitted = child[c].submitted
  <2>1. child[c] \in Child
    BY <1>1 DEF Rows, Exists, NoChild
  <2>2. child'[c] = [child[c] EXCEPT !.status = "abandoned"]
    BY <1>1 DEF Abandoned
  <2> QED BY <2>1, <2>2 DEF Child, Status
<1>2. \A c \in Children : c \notin C => child'[c] = child[c]
  BY DEF Abandoned
<1>3. \A c \in Children : (Exists(c) <=> Exists(c)')
  BY <1>1, <1>2 DEF Exists
<1>4. ChildrenMove
  <2>1. child' \in [Children -> Child \cup {NoChild}]
    <3>1. \A c \in Children : child'[c] \in Child \cup {NoChild}
      BY <1>1, <1>2 DEF Rows
    <3> QED BY <3>1 DEF Abandoned
  <2> QED BY <1>1, <1>2, <1>3, <2>1 DEF ChildrenMove, Rows, Family
<1>5. \A c \in Children : Exists(c) =>
        /\ child'[c].of = child[c].of /\ child'[c].unit = child[c].unit
        /\ child'[c].submitted = child[c].submitted
  BY <1>1, <1>2
<1>6. ASSUME NEW a \in Attempts PROVE Submitted(a)' = Submitted(a)
  <2>1. \A u : u \in Submitted(a)' <=> u \in Submitted(a)
    BY <1>3, <1>5, SubmittedIs
  <2> QED BY <2>1
<1> QED BY <1>4, <1>6

LEMMA InsertedMove ==
  ASSUME Rows, NEW c \in Children, ~Exists(c), NEW a \in Attempts, Known(a),
         NEW u \in Units, Ready(a, u),
         child' = [child EXCEPT ![c] =
                     [status |-> "in_progress", of |-> a, unit |-> u,
                      submitted |-> FALSE]]
  PROVE  /\ ChildrenMove
         /\ \A b \in Attempts : Submitted(b)' = Submitted(b)
<1>1. /\ child'[c] = [status |-> "in_progress", of |-> a, unit |-> u,
                      submitted |-> FALSE]
      /\ \A d \in Children : d # c => child'[d] = child[d]
  BY DEF Rows
<1>2. child' \in [Children -> Child \cup {NoChild}]
  BY DEF Rows, Child, Status
<1>3. Exists(c)' /\ ~child'[c].submitted
  BY <1>1 DEF Exists
<1>4. ChildrenMove
  BY <1>1, <1>2, <1>3 DEF ChildrenMove, Rows, Family, Exists
<1>5. ASSUME NEW b \in Attempts PROVE Submitted(b)' = Submitted(b)
  <2>1. \A v : v \in Submitted(b)' <=> v \in Submitted(b)
    BY <1>1, <1>3, SubmittedIs DEF Exists
  <2> QED BY <2>1
<1> QED BY <1>4, <1>5

LEMMA DoneMove ==
  ASSUME Rows, NEW c \in Children, Exists(c), SetDone(c)
  PROVE  /\ ChildrenMove
         /\ child[c].of \in Attempts
         /\ \A b \in Attempts : Submitted(b)' =
              Submitted(b) \cup
                (IF b = child[c].of THEN {child[c].unit} ELSE {})
<1>1. child[c] \in Child
  BY DEF Rows, Exists, NoChild
<1>2. /\ child'[c] = [status |-> "completed", of |-> child[c].of,
                      unit |-> child[c].unit, submitted |-> TRUE]
      /\ \A d \in Children : d # c => child'[d] = child[d]
  BY DEF Rows, SetDone
<1>3. /\ child'[c] \in Child /\ Exists(c)' /\ child'[c].submitted
      /\ child'[c].of = child[c].of /\ child'[c].unit = child[c].unit
  BY <1>1, <1>2 DEF Child, Exists, Status
<1>4. child' \in [Children -> Child \cup {NoChild}]
  <2>1. \A d \in Children : child'[d] \in Child \cup {NoChild}
    BY <1>2, <1>3 DEF Rows
  <2> QED BY <2>1 DEF SetDone, Rows
<1>5. ChildrenMove
  BY <1>2, <1>3, <1>4 DEF ChildrenMove, Rows, Family, Exists
<1>6. ASSUME NEW b \in Attempts
      PROVE  Submitted(b)' = Submitted(b) \cup
                (IF b = child[c].of THEN {child[c].unit} ELSE {})
  <2>1. ASSUME NEW v
        PROVE  v \in Submitted(b)' <=>
                 v \in Submitted(b) \/ (b = child[c].of /\ v = child[c].unit)
    BY <1>2, <1>3, SubmittedIs DEF Exists
  <2> QED BY <2>1
<1> QED BY <1>1, <1>5, <1>6 DEF Child

LEMMA ParentMove ==
  ASSUME Rows, NEW a \in Attempts, NEW status \in Status \ {"absent"},
         NEW current \in {0} \cup Modules, SetParent(a, status, current),
         ~FreeAccess =>
           \A u \in Units : u[1] < current => u \in Submitted(a)
  PROVE  ParentsMove
<1>1. /\ parent'[a] = [status |-> status, current |-> current]
      /\ \A b \in Attempts : b # a => parent'[b] = parent[b]
  BY DEF Rows, SetParent
<1>2. parent' \in [Attempts -> [status : Status, current : {0} \cup Modules]]
  BY DEF Rows, SetParent
<1>3. Known(a)'
  BY <1>1 DEF Known
<1> QED BY <1>1, <1>2, <1>3 DEF ParentsMove, Known, Rows, CurrentIsUnlocked

-----------------------------------------------------------------------------
(* What a call goes on with *)

(* Worker w goes on with a call in order, or stops.                        *)
Continues(w) ==
  \E j \in Job \cup {Idle} : /\ job' = [job EXCEPT ![w] = j]
                             /\ j # Idle => JobOK(j)

(* A snapshot is cached only under the session it was read of.             *)
CacheMoves ==
  \/ UNCHANGED cache
  \/ \E a \in Attempts, s \in Snapshot :
       Sound(a, s) /\ cache' = [cache EXCEPT ![a] = s]

(* A step that moves the rows, goes on with one call and caches a sound    *)
(* snapshot keeps the invariant.                                           *)
LEMMA StepKeeps ==
  ASSUME IInv, ChildrenMove, ParentsMove, NEW w \in Workers,
         \E j \in Job \cup {Idle} : /\ job' = [job EXCEPT ![w] = j]
                                    /\ j # Idle => JobOK(j) \/ JobOK(j)',
         CacheMoves, faults' \in 0..MaxFaults
  PROVE  IInv'
<1>1. Rows' /\ Grows
  BY RowsMove DEF IInv
<1>2. Jobs'
  <2>1. PICK k \in Job \cup {Idle} : /\ job' = [job EXCEPT ![w] = k]
                                     /\ k # Idle => JobOK(k) \/ JobOK(k)'
    OBVIOUS
  <2>2. job' \in [Workers -> Job \cup {Idle}]
    BY <2>1 DEF IInv, Jobs
  <2>3. ASSUME NEW x \in Workers, NEW j \in Job, job'[x] = j
        PROVE  JobOK(j) \/ JobOK(j)'
    <3>1. j # Idle
      BY DEF Job, Idle, Calls, StartCalls, FreshCalls
    <3>2. CASE x = w
      <4>1. j = k
        BY <2>1, <2>3, <3>2 DEF IInv, Jobs
      <4> QED BY <2>1, <3>1, <4>1
    <3>3. CASE x # w
      BY <2>1, <2>3, <3>3 DEF IInv, Jobs
    <3> QED BY <3>2, <3>3
  <2>4. ASSUME NEW x \in Workers, NEW j \in Job, job'[x] = j
        PROVE  JobOK(j)'
    BY <1>1, <2>3, <2>4, JobStays
  <2> QED BY <2>2, <2>4 DEF Jobs
<1>3. Cache'
  <2>1. CASE UNCHANGED cache
    BY <1>1, <2>1, SoundStays DEF IInv, Cache, Hit
  <2>2. ASSUME NEW b \in Attempts, NEW t \in Snapshot, Sound(b, t),
               cache' = [cache EXCEPT ![b] = t]
        PROVE  Cache'
    <3>1. cache' \in [Attempts -> Snapshot \cup {None}]
      BY <2>2 DEF IInv, Cache
    <3>2. ASSUME NEW a \in Attempts, NEW s \in Snapshot, cache'[a] = s,
                 cache'[a] # None
          PROVE  Sound(a, s)
      BY <2>2, <3>2 DEF IInv, Cache, Hit
    <3> QED BY <1>1, <3>1, <3>2, SoundStays DEF Cache, Hit
  <2> QED BY <2>1, <2>2 DEF CacheMoves
<1> QED BY <1>1, <1>2, <1>3 DEF IInv

(* The same for a step that moves no row.                                  *)
LEMMA QuietStep ==
  ASSUME IInv, UNCHANGED <<parent, child, faults>>, NEW w \in Workers,
         Continues(w), CacheMoves
  PROVE  IInv'
<1>1. ChildrenMove /\ ParentsMove
  BY ChildrenRest, ParentsRest DEF IInv
<1> QED BY <1>1, StepKeeps DEF IInv, Continues

(* A call that is under way is in order.                                   *)
LEMMA BusyJob ==
  ASSUME IInv, NEW w \in Workers, ~Free(w)
  PROVE  job[w] \in Job /\ JobOK(job[w])
BY DEF IInv, Jobs, Free

(* A call that is set to fields in order goes on in order.                 *)
LEMMA SetJobContinues ==
  ASSUME NEW w \in Workers, NEW call \in Calls, NEW a \in Attempts \cup {None},
         NEW pc \in Steps, NEW u \in Units \cup {NoUnit},
         NEW kids \in SUBSET Children, NEW seen \in Snapshot,
         NEW todo \in {0} \cup Modules,
         SetJob(w, call, a, pc, u, kids, seen, todo),
         JobOK([call |-> call, att |-> a, pc |-> pc, unit |-> u,
                kids |-> kids, seen |-> seen, todo |-> todo])
  PROVE  Continues(w)
<1> DEFINE j == [call |-> call, att |-> a, pc |-> pc, unit |-> u,
                 kids |-> kids, seen |-> seen, todo |-> todo]
<1>1. j \in Job /\ job' = [job EXCEPT ![w] = j]
  BY DEF Job, SetJob
<1> QED BY <1>1 DEF Continues

LEMMA StopContinues ==
  ASSUME NEW w \in Workers, Stop(w)
  PROVE  Continues(w)
BY DEF Stop, Continues

LEMMA CachedMoves ==
  ASSUME NEW a \in Attempts, NEW s \in Snapshot, Sound(a, s), Cached(a, s)
  PROVE  CacheMoves
BY DEF Cached, CacheMoves

(* An empty snapshot says nothing, and a bundle says only what is so.      *)
LEMMA NothingSound ==
  ASSUME NEW a
  PROVE  NoSnapshot \in Snapshot /\ Sound(a, NoSnapshot)
BY DEF NoSnapshot, Snapshot, Sound, Status

LEMMA BundleSound ==
  ASSUME Rows, NEW a \in Attempts
  PROVE  Bundle(a) \in Snapshot /\ Sound(a, Bundle(a))
<1>1. ASSUME NEW u \in DoneOf(a) \cup OpenOf(a)
      PROVE  u \in Units /\ Ready(a, u)
  <2>1. PICK c \in Children : /\ Exists(c) /\ child[c].of = a
                              /\ child[c].unit = u
    BY DEF DoneOf, OpenOf, KidsOf
  <2>2. child[c] \in Child
    BY <2>1 DEF Rows, Exists, NoChild
  <2> QED BY <2>1, <2>2 DEF Rows, Family, Child
<1>2. ASSUME NEW u \in DoneOf(a) PROVE u \in Submitted(a)
  <2>1. PICK c \in Children : /\ Exists(c) /\ child[c].of = a
                              /\ child[c].unit = u
                              /\ child[c].status = "completed"
    BY DEF DoneOf, KidsOf
  <2> QED BY <2>1, SubmittedIs DEF Rows, Family
<1>3. Bundle(a) \in Snapshot
  BY <1>1 DEF Bundle, Snapshot, Rows
<1>4. Sound(a, Bundle(a))
  BY <1>1, <1>2 DEF Bundle, Sound
<1> QED BY <1>3, <1>4

(* The status in a snapshot is not what makes it sound.                    *)
LEMMA StatusSound ==
  ASSUME NEW a, NEW s \in Snapshot, Sound(a, s), NEW status \in Status
  PROVE  LET t == [s EXCEPT !.status = status]
         IN  t \in Snapshot /\ Sound(a, t)
BY DEF Snapshot, Sound

(* A call that goes on to open unit u of session a, with nothing left of   *)
(* what it read.                                                           *)
LEMMA OpenContinues ==
  ASSUME NEW w \in Workers, NEW call \in Calls, NEW a \in Attempts, Known(a),
         NEW pc \in Steps, pc \notin {"insertParent", "repair", "finish",
                                      "abandonKids", "abandonParent"},
         NEW u \in Units, Ready(a, u), NEW todo \in {0, u[1]},
         SetJob(w, call, a, pc, u, {}, NoSnapshot, todo)
  PROVE  Continues(w)
BY NothingSound, SetJobContinues, UnitIs DEF JobOK

(* Whatever a call does with the progress it has, it does in order.        *)
LEMMA OpenTargetStep ==
  ASSUME NEW w \in Workers, NEW call \in StartCalls, NEW a \in Attempts,
         Known(a), NEW s \in Snapshot, Sound(a, s), OpenTarget(w, call, a, s)
  PROVE  Continues(w) /\ CacheMoves
<1>1. CASE \E u \in Units : StartUnit(u, s)
  <2>1. PICK u \in Units :
          /\ StartUnit(u, s)
          /\ SetJob(w, "start", a,
                    IF call = "startNew" THEN "findForce" ELSE "find", u, {},
                    NoSnapshot, u[1])
          /\ Cached(a, [s EXCEPT !.started = u, !.open = @ \cup {u}])
    BY <1>1 DEF OpenTarget
  <2>2. Ready(a, u)
    BY <2>1, StartOpens
  <2>3. Continues(w)
    <3>1. CASE call = "startNew"
      BY <2>1, <2>2, <3>1, OpenContinues DEF Steps, ChildSteps, Calls
    <3>2. CASE call # "startNew"
      BY <2>1, <2>2, <3>2, OpenContinues DEF Steps, ChildSteps, Calls
    <3> QED BY <3>1, <3>2
  <2>4. CacheMoves
    <3> DEFINE t == [s EXCEPT !.started = u, !.open = @ \cup {u}]
    <3>1. /\ t.done = s.done /\ t.open = s.open \cup {u} /\ t.started = u
          /\ t \in Snapshot
      BY DEF Snapshot
    <3>2. Sound(a, t)
      BY <2>2, <3>1 DEF Sound
    <3>3. Cached(a, t)
      BY <2>1
    <3> QED BY <3>1, <3>2, <3>3, CachedMoves
  <2> QED BY <2>3, <2>4
<1>2. CASE ~\E u \in Units : StartUnit(u, s)
  <2>1. Units \subseteq Submitted(a)
    BY <1>2, SomethingToStart, AllSubmitted
  <2>2. UNCHANGED cache
    BY <1>2 DEF OpenTarget
  <2>3. CASE Stop(w)
    BY <2>2, <2>3, StopContinues DEF CacheMoves
  <2>4. CASE SetJob(w, call, a, "finish", NoUnit, {}, NoSnapshot, 0)
    <3>1. Continues(w)
      BY <2>1, <2>4, NothingSound, SetJobContinues
      DEF JobOK, Steps, ProgressSteps, ChildSteps, SubmitSteps, Calls
    <3> QED BY <2>2, <3>1 DEF CacheMoves
  <2> QED BY <1>2, <2>3, <2>4 DEF OpenTarget
<1> QED BY <1>1, <1>2

LEMMA ResumeAtStep ==
  ASSUME NEW w \in Workers, NEW a \in Attempts, Known(a), NEW s \in Snapshot,
         Sound(a, s), ResumeAt(w, a, s)
  PROVE  Continues(w)
<1>1. CASE Stop(w)
  BY <1>1, StopContinues
<1>2. ASSUME NEW u \in Units, NextUnit(u, s),
             SetJob(w, "resume", a, "find", u, {}, NoSnapshot, 0)
      PROVE  Continues(w)
  BY <1>2, NextOpens, OpenContinues DEF Steps, ChildSteps, Calls
<1> QED BY <1>1, <1>2 DEF ResumeAt

LEMMA UseProgressStep ==
  ASSUME NEW w \in Workers, NEW call \in Calls, NEW a \in Attempts,
         Known(a), NEW s \in Snapshot, Sound(a, s), UseProgress(w, call, a, s)
  PROVE  Continues(w) /\ CacheMoves
<1>1. CASE call \in StartCalls
  <2>1. OpenTarget(w, call, a, s)
    BY <1>1 DEF UseProgress, StartCalls, FreshCalls
  <2> QED BY <1>1, <2>1, OpenTargetStep
<1>2. CASE call = "resume"
  <2>1. ResumeAt(w, a, s) /\ Cached(a, s)
    BY <1>2 DEF UseProgress, StartCalls, FreshCalls
  <2> QED BY <2>1, ResumeAtStep, CachedMoves
<1>3. CASE call \notin StartCalls /\ call # "resume"
  <2>1. Stop(w) /\ Cached(a, s)
    BY <1>3 DEF UseProgress
  <2> QED BY <2>1, StopContinues, CachedMoves
<1> QED BY <1>1, <1>2, <1>3

LEMMA ProgressStep ==
  ASSUME NEW w \in Workers, NEW call \in Calls, NEW a \in Attempts,
         Known(a), NEW s \in Snapshot, Sound(a, s), Progress(w, call, a, s)
  PROVE  Continues(w) /\ CacheMoves
<1>1. CASE AllComplete(s) /\ s.status # "completed"
  <2>1. /\ SetJob(w, call, a, "repair", NoUnit, {}, s, 0)
        /\ UNCHANGED cache
    BY <1>1 DEF Progress
  <2>2. Units \subseteq Submitted(a)
    BY <1>1, AllSubmitted
  <2>3. Continues(w)
    BY <2>1, <2>2, SetJobContinues
    DEF JobOK, Steps, ProgressSteps, ChildSteps, SubmitSteps
  <2> QED BY <2>1, <2>3 DEF CacheMoves
<1>2. CASE ~(AllComplete(s) /\ s.status # "completed")
  BY <1>2, UseProgressStep DEF Progress
<1> QED BY <1>1, <1>2

-----------------------------------------------------------------------------
(* The sessions a step leaves behind *)

(* What a step may make of a session's status.                             *)
Allowed(a, status) ==
  \/ status = parent[a].status
  \/ /\ status = "in_progress" /\ ~Known(a)
     /\ \A b \in Attempts : parent[b].status # "in_progress"
  \/ status = "completed" /\ Known(a) /\ Required \subseteq Submitted(a)
  \/ /\ status = "abandoned" /\ Known(a)
     /\ RpcOutcomes \subseteq {"answered"} => parent[a].status # "completed"

Promised == [Promise!Next]_(Promise!vars)

(* Where no fallback can run, a completed session stays completed.         *)
Final ==
  RpcOutcomes \subseteq {"answered"} =>
    \A a \in Attempts :
      parent[a].status = "completed" => parent'[a].status = "completed"

Unsubmitting == \A a \in Attempts : Submitted(a)' = Submitted(a)

LEMMA ChildUnsubmitting ==
  ASSUME UNCHANGED child
  PROVE  Unsubmitting
BY DEF Unsubmitting, Submitted, KidsOf, Exists

(* A step that submits nothing and leaves every status alone is a stutter. *)
LEMMA StutterMaps ==
  ASSUME Unsubmitting,
         \A a \in Attempts : parent'[a].status = parent[a].status
  PROVE  Promised /\ Final
<1>1. UNCHANGED Promise!vars
  BY DEF Promise!vars, Unsubmitting
<1> QED BY <1>1 DEF Promised, Final

(* An allowed change of one status is a step of the promise.               *)
LEMMA ParentMaps ==
  ASSUME Rows, Unsubmitting, NEW a \in Attempts, NEW status, NEW current,
         SetParent(a, status, current), Allowed(a, status)
  PROVE  Promised /\ Final
<1>1. /\ parent'[a].status = status
      /\ \A b \in Attempts : b # a => parent'[b] = parent[b]
  BY DEF Rows, SetParent
<1> DEFINE st == [b \in Attempts |-> parent[b].status]
           sb == [b \in Attempts |-> Submitted(b)]
<1>2. st' = [st EXCEPT ![a] = status]
  BY <1>1
<1>3. sb' = sb
  BY DEF Unsubmitting
<1>4. CASE status = parent[a].status
  <2>1. \A b \in Attempts : parent'[b].status = parent[b].status
    BY <1>1, <1>4
  <2> QED BY <2>1, StutterMaps
<1>5. CASE /\ status = "in_progress" /\ ~Known(a)
           /\ \A b \in Attempts : parent[b].status # "in_progress"
  <2>1. Promise!Open(a)
    BY <1>2, <1>3, <1>5 DEF Promise!Open, Known
  <2>2. Final
    BY <1>1, <1>5 DEF Final, Known
  <2> QED BY <2>1, <2>2 DEF Promised, Promise!Next
<1>6. CASE status = "completed" /\ Known(a) /\ Required \subseteq Submitted(a)
  <2>1. Promise!Complete(a)
    BY <1>2, <1>3, <1>6 DEF Promise!Complete, Known
  <2>2. Final
    BY <1>1, <1>6 DEF Final
  <2> QED BY <2>1, <2>2 DEF Promised, Promise!Next
<1>7. CASE /\ status = "abandoned" /\ Known(a)
           /\ RpcOutcomes \subseteq {"answered"} =>
                parent[a].status # "completed"
  <2>1. Promise!Drop(a)
    BY <1>2, <1>3, <1>7 DEF Promise!Drop, Known
  <2>2. Final
    BY <1>1, <1>7 DEF Final
  <2> QED BY <2>1, <2>2 DEF Promised, Promise!Next
<1> QED BY <1>4, <1>5, <1>6, <1>7 DEF Allowed

(* The write of completed_at is the submission of a unit in exam order.    *)
LEMMA DoneMaps ==
  ASSUME Rows, NEW c \in Children, Exists(c), SetDone(c), UNCHANGED parent
  PROVE  Promised /\ Final
<1> DEFINE a == child[c].of
           u == child[c].unit
           st == [b \in Attempts |-> parent[b].status]
           sb == [b \in Attempts |-> Submitted(b)]
<1>1. /\ a \in Attempts /\ u \in Units
      /\ Known(a) /\ Ready(a, u)
  <2>1. child[c] \in Child
    BY DEF Rows, Exists, NoChild
  <2> QED BY <2>1 DEF Rows, Family, Child
<1>2. \A b \in Attempts : Submitted(b)' =
        Submitted(b) \cup (IF b = a THEN {u} ELSE {})
  BY DoneMove
<1>3. sb' = [sb EXCEPT ![a] = @ \cup {u}]
  BY <1>1, <1>2
<1>4. st' = st
  OBVIOUS
<1>5. Promise!Submit(a, u)
  BY <1>1, <1>3, <1>4 DEF Promise!Submit, Known, Ready
<1> QED BY <1>1, <1>5 DEF Promised, Promise!Next, Final

-----------------------------------------------------------------------------
(* What every step keeps, by the rows it writes *)

Kept == IInv' /\ Promised /\ Final

LEMMA QuietKept ==
  ASSUME IInv, UNCHANGED <<parent, child, faults>>, NEW w \in Workers,
         Continues(w), CacheMoves
  PROVE  Kept
BY QuietStep, StutterMaps, ChildUnsubmitting DEF Kept

LEMMA ChildKept ==
  ASSUME IInv, UNCHANGED <<parent, faults>>, ChildrenMove, Promised, Final,
         NEW w \in Workers, Continues(w), CacheMoves
  PROVE  Kept
<1>1. ParentsMove
  BY ParentsRest DEF IInv
<1> QED BY <1>1, StepKeeps DEF Kept, IInv, Continues

LEMMA AbandonedKept ==
  ASSUME IInv, UNCHANGED <<parent, faults>>, NEW C, \A c \in C : Exists(c),
         Abandoned(C), NEW w \in Workers, Continues(w), CacheMoves
  PROVE  Kept
<1>1. ChildrenMove /\ Unsubmitting
  BY AbandonedMove DEF IInv, Unsubmitting
<1>2. Promised /\ Final
  BY <1>1, StutterMaps
<1> QED BY <1>1, <1>2, ChildKept

LEMMA ParentKept ==
  ASSUME IInv, UNCHANGED <<child, faults>>, NEW a \in Attempts,
         NEW status \in Status \ {"absent"}, NEW current \in {0} \cup Modules,
         SetParent(a, status, current), Allowed(a, status),
         ~FreeAccess =>
           \A u \in Units : u[1] < current => u \in Submitted(a),
         NEW w \in Workers, Continues(w), CacheMoves
  PROVE  Kept
<1>1. ChildrenMove /\ ParentsMove
  BY ChildrenRest, ParentMove DEF IInv
<1>2. Promised /\ Final
  BY ChildUnsubmitting, ParentMaps DEF IInv
<1> QED BY <1>1, <1>2, StepKeeps DEF Kept, IInv, Continues

(* A call under way that goes on with the same session and unit.           *)
LEMMA CallContinues ==
  ASSUME IInv, NEW w \in Workers, ~Free(w), job[w].pc # "insertParent",
         NEW pc \in Steps, pc \notin {"insertParent", "repair", "finish"},
         pc \in ChildSteps \cup SubmitSteps => job[w].unit \in Units,
         pc \in {"abandonKids", "abandonParent"} =>
           ~(RpcOutcomes \subseteq {"answered"}),
         NEW kids \in SUBSET Children, \A c \in kids : Exists(c),
         NEW seen \in Snapshot, Sound(job[w].att, seen),
         NEW todo \in {0, job[w].todo},
         SetJob(w, job[w].call, job[w].att, pc, job[w].unit, kids, seen, todo)
  PROVE  Continues(w)
<1>1. job[w] \in Job /\ JobOK(job[w])
  BY BusyJob
<1>2. /\ job[w].call \in Calls /\ job[w].att \in Attempts
      /\ job[w].unit \in Units \cup {NoUnit}
      /\ job[w].todo \in {0} \cup Modules
      /\ Known(job[w].att)
      /\ job[w].unit # NoUnit => Ready(job[w].att, job[w].unit)
      /\ job[w].todo # 0 =>
           job[w].unit \in Units /\ job[w].todo = job[w].unit[1]
  BY <1>1 DEF Job, JobOK
<1>3. JobOK([call |-> job[w].call, att |-> job[w].att, pc |-> pc,
             unit |-> job[w].unit, kids |-> kids, seen |-> seen,
             todo |-> todo])
  BY <1>2 DEF JobOK
<1> QED BY <1>2, <1>3, SetJobContinues

LEMMA GotoContinues ==
  ASSUME IInv, NEW w \in Workers, ~Free(w), job[w].pc # "insertParent",
         NEW pc \in Steps, pc \notin {"insertParent", "repair", "finish"},
         pc \in ChildSteps \cup SubmitSteps => job[w].unit \in Units,
         pc \in {"abandonKids", "abandonParent"} =>
           ~(RpcOutcomes \subseteq {"answered"}),
         Goto(w, pc)
  PROVE  Continues(w)
<1>1. /\ job[w].kids \in SUBSET Children /\ job[w].seen \in Snapshot
      /\ \A c \in job[w].kids : Exists(c)
      /\ Sound(job[w].att, job[w].seen)
  BY BusyJob DEF Job, JobOK
<1> QED BY <1>1, CallContinues DEF Goto

LEMMA KidsContinues ==
  ASSUME IInv, NEW w \in Workers, ~Free(w), job[w].unit \in Units,
         job[w].pc \in ChildSteps \cup SubmitSteps,
         NEW pc \in ChildSteps \cup SubmitSteps,
         NEW kids \in SUBSET Children, \A c \in kids : Exists(c),
         GotoKids(w, pc, kids)
  PROVE  Continues(w)
<1>1. job[w].seen \in Snapshot /\ job[w].pc # "insertParent"
  BY BusyJob DEF Job, ChildSteps, SubmitSteps
<1>2. Sound(job[w].att, job[w].seen)
  BY <1>1, BusyJob DEF JobOK
<1>3. /\ pc \in Steps
      /\ pc \notin {"insertParent", "repair", "finish",
                    "abandonKids", "abandonParent"}
  BY DEF Steps, ChildSteps, SubmitSteps
<1> QED BY <1>1, <1>2, <1>3, CallContinues DEF GotoKids

-----------------------------------------------------------------------------
(* Arriving calls *)

(* A call that begins with a unit that may be opened, or without one.      *)
LEMMA BeginContinues ==
  ASSUME NEW w \in Workers, NEW call \in Calls, NEW a \in Attempts, Known(a),
         NEW pc \in Steps, pc \notin {"insertParent", "repair", "finish",
                                      "abandonKids", "abandonParent"},
         NEW u \in Units \cup {NoUnit}, u # NoUnit => Ready(a, u),
         pc \in ChildSteps \cup SubmitSteps => u \in Units,
         NEW kids \in SUBSET Children, \A c \in kids : Exists(c),
         Begin(w, call, a, pc, u, kids)
  PROVE  Continues(w)
<1>1. JobOK([call |-> call, att |-> a, pc |-> pc, unit |-> u,
             kids |-> kids, seen |-> NoSnapshot, todo |-> 0])
  BY NothingSound DEF JobOK
<1> QED BY <1>1, NothingSound, SetJobContinues DEF Begin

LEMMA StartMockKept ==
  ASSUME IInv, NEW w \in Workers, NEW force \in BOOLEAN, StartMock(w, force)
  PROVE  Kept
<1>1. UNCHANGED <<parent, child, faults>> /\ CacheMoves
  BY DEF StartMock, CacheMoves
<1>2. ASSUME NEW call \in Calls,
             Begin(w, call, None, "insertParent", NoUnit, {})
      PROVE  Continues(w)
  <2>1. JobOK([call |-> call, att |-> None, pc |-> "insertParent",
               unit |-> NoUnit, kids |-> {}, seen |-> NoSnapshot, todo |-> 0])
    BY DEF JobOK, ChildSteps, SubmitSteps
  <2>2. "insertParent" \in Steps
    BY DEF Steps, SessionSteps
  <2> QED BY <1>2, <2>1, <2>2, NothingSound, SetJobContinues DEF Begin
<1>3. ASSUME NEW a \in Attempts, parent[a].status = "in_progress",
             NEW call \in Calls, NEW pc \in {"abandon", "bundle"},
             Begin(w, call, a, pc, NoUnit, {})
      PROVE  Continues(w)
  <2>1. Known(a)
    BY <1>3 DEF Known
  <2>2. /\ pc \in Steps
        /\ pc \notin ChildSteps \cup SubmitSteps
        /\ pc \notin {"insertParent", "repair", "finish", "abandonKids",
                      "abandonParent"}
    BY DEF Steps, SessionSteps, ProgressSteps, ChildSteps, SubmitSteps
  <2> QED BY <1>3, <2>1, <2>2, BeginContinues
<1>4. {"startForced", "startNew", "startResumed"} \subseteq Calls
  BY DEF Calls, StartCalls, FreshCalls
<1>5. CASE /\ {a \in Attempts : parent[a].status = "in_progress"} = {}
           /\ Begin(w, IF force THEN "startForced" ELSE "startNew", None,
                    "insertParent", NoUnit, {})
  <2>1. Continues(w)
    BY <1>2, <1>4, <1>5
  <2> QED BY <1>1, <2>1, QuietKept
<1>6. ASSUME NEW a \in Attempts, parent[a].status = "in_progress",
             IF force THEN Begin(w, "startForced", a, "abandon", NoUnit, {})
                      ELSE Begin(w, "startResumed", a, "bundle", NoUnit, {})
      PROVE  Kept
  <2>1. Continues(w)
    BY <1>3, <1>4, <1>6
  <2> QED BY <1>1, <2>1, QuietKept
<1> QED BY <1>5, <1>6 DEF StartMock

LEMMA GetProgressKept ==
  ASSUME IInv, NEW w \in Workers, NEW a \in Attempts, GetProgress(w, a)
  PROVE  Kept
<1>1. /\ Known(a) /\ Progress(w, "progress", a, Bundle(a))
      /\ UNCHANGED <<parent, child, faults>>
  BY DEF GetProgress, Known
<1>2. Bundle(a) \in Snapshot /\ Sound(a, Bundle(a)) /\ "progress" \in Calls
  BY BundleSound DEF IInv, Calls
<1> QED BY <1>1, <1>2, ProgressStep, QuietKept

LEMMA HitSound ==
  ASSUME IInv, NEW a \in Attempts, Hit(a)
  PROVE  cache[a] \in Snapshot /\ Sound(a, cache[a])
BY DEF IInv, Cache, Hit

LEMMA ResumeMockKept ==
  ASSUME IInv, NEW w \in Workers, NEW a \in Attempts, ResumeMock(w, a)
  PROVE  Kept
<1>1. /\ Known(a) /\ UNCHANGED <<parent, child, faults>>
      /\ \/ Progress(w, "resume", a, Bundle(a))
         \/ HitProgress(a) /\ ResumeAt(w, a, cache[a]) /\ UNCHANGED cache
  BY DEF ResumeMock, Known
<1>2. CASE Progress(w, "resume", a, Bundle(a))
  <2>1. Bundle(a) \in Snapshot /\ Sound(a, Bundle(a)) /\ "resume" \in Calls
    BY BundleSound DEF IInv, Calls
  <2> QED BY <1>1, <1>2, <2>1, ProgressStep, QuietKept
<1>3. CASE HitProgress(a) /\ ResumeAt(w, a, cache[a]) /\ UNCHANGED cache
  <2>1. cache[a] \in Snapshot /\ Sound(a, cache[a])
    BY <1>3, HitSound DEF HitProgress
  <2>2. Continues(w) /\ CacheMoves
    BY <1>1, <1>3, <2>1, ResumeAtStep DEF CacheMoves
  <2> QED BY <1>1, <2>2, QuietKept
<1> QED BY <1>1, <1>2, <1>3

LEMMA StartPartKept ==
  ASSUME IInv, NEW w \in Workers, NEW a \in Attempts, NEW u \in Units,
         NEW force \in BOOLEAN, StartPart(w, a, u, force)
  PROVE  Kept
<1> DEFINE now == [Bundle(a) EXCEPT !.status = "absent"]
<1>1. /\ Known(a) /\ UNCHANGED <<parent, child, faults>>
      /\ Begin(w, "module", a, IF force THEN "findForce" ELSE "find", u, {})
  BY DEF StartPart, Known
<1>2. Ready(a, u) /\ CacheMoves
  <2>1. CASE MayOpen(u, now) /\ Cached(a, now)
    <3>1. "absent" \in Status
      BY DEF Status
    <3>2. now \in Snapshot /\ Sound(a, now)
      BY <3>1, BundleSound, StatusSound DEF IInv
    <3> HIDE DEF now
    <3> QED BY <2>1, <3>2, MayOpens, CachedMoves
  <2>2. CASE Hit(a) /\ MayOpen(u, cache[a]) /\ UNCHANGED cache
    BY <2>2, HitSound, MayOpens DEF CacheMoves
  <2> QED BY <2>1, <2>2 DEF StartPart
<1>3. ASSUME NEW pc \in {"find", "findForce"}, Begin(w, "module", a, pc, u, {})
      PROVE  Continues(w)
  <2>1. /\ "module" \in Calls /\ pc \in Steps
        /\ pc \notin {"insertParent", "repair", "finish", "abandonKids",
                      "abandonParent"}
    BY DEF Calls, Steps, ChildSteps
  <2> QED BY <1>1, <1>2, <1>3, <2>1, BeginContinues
<1>4. Continues(w)
  BY <1>1, <1>3
<1> QED BY <1>1, <1>2, <1>4, QuietKept

LEMMA SubmitKept ==
  ASSUME IInv, NEW w \in Workers, NEW c \in Children, Submit(w, c)
  PROVE  Kept
<1> DEFINE a == child[c].of
           u == child[c].unit
<1>1. /\ Exists(c) /\ UNCHANGED <<parent, child, faults>> /\ CacheMoves
      /\ Begin(w, "submit", a, IF u[1] \in Speaking THEN "mark" ELSE "persist",
               u, {c})
  BY DEF Submit, CacheMoves
<1>2. a \in Attempts /\ u \in Units /\ Known(a) /\ Ready(a, u)
  <2>1. child[c] \in Child
    BY <1>1 DEF IInv, Rows, Exists, NoChild
  <2> QED BY <1>1, <2>1 DEF IInv, Rows, Family, Child
<1>3. ASSUME NEW pc \in {"mark", "persist"}, Begin(w, "submit", a, pc, u, {c})
      PROVE  Continues(w)
  <2>1. /\ "submit" \in Calls /\ pc \in Steps
        /\ pc \notin {"insertParent", "repair", "finish", "abandonKids",
                      "abandonParent"}
    BY DEF Calls, Steps, SubmitSteps
  <2> QED BY <1>1, <1>2, <1>3, <2>1, BeginContinues
<1>4. Continues(w)
  BY <1>1, <1>3
<1> QED BY <1>1, <1>4, QuietKept

-----------------------------------------------------------------------------
(* The session: abandon, insert, repair, finish *)

(* The session a call works on.                                            *)
LEMMA CallFacts ==
  ASSUME IInv, NEW w \in Workers, ~Free(w), job[w].pc # "insertParent"
  PROVE  /\ job[w].att \in Attempts /\ Known(job[w].att)
         /\ job[w].call \in Calls /\ job[w].seen \in Snapshot
         /\ Sound(job[w].att, job[w].seen)
         /\ parent[job[w].att].status \in Status \ {"absent"}
         /\ parent[job[w].att].current \in {0} \cup Modules
<1>1. /\ job[w].att \in Attempts /\ Known(job[w].att)
      /\ job[w].call \in Calls /\ job[w].seen \in Snapshot
      /\ Sound(job[w].att, job[w].seen)
  BY BusyJob DEF Job, JobOK
<1> QED BY <1>1 DEF IInv, Rows, Known

(* After the abandon a new session is inserted.                            *)
LEMMA InsertContinues ==
  ASSUME NEW w \in Workers,
         SetJob(w, "startForced", None, "insertParent", NoUnit, {}, NoSnapshot,
                0)
  PROVE  Continues(w)
<1>1. JobOK([call |-> "startForced", att |-> None, pc |-> "insertParent",
             unit |-> NoUnit, kids |-> {}, seen |-> NoSnapshot, todo |-> 0])
  BY DEF JobOK, ChildSteps, SubmitSteps
<1>2. "insertParent" \in Steps /\ "startForced" \in Calls
  BY DEF Steps, SessionSteps, Calls, StartCalls, FreshCalls
<1> QED BY <1>1, <1>2, NothingSound, SetJobContinues

(* The transaction abandons rows that are open and a session in progress.  *)
LEMMA TransactionKept ==
  ASSUME IInv, UNCHANGED faults, NEW a \in Attempts, Known(a),
         AbandonTransaction(a), NEW w \in Workers, Continues(w), CacheMoves
  PROVE  Kept
<1>1. Abandoned(OpenKidsOf(a)) /\ \A c \in OpenKidsOf(a) : Exists(c)
  BY DEF AbandonTransaction, OpenKidsOf, KidsOf
<1>2. ChildrenMove /\ Unsubmitting
  BY <1>1, AbandonedMove DEF IInv, Unsubmitting
<1>3. CASE parent[a].status = "in_progress"
  <2>1. SetParent(a, "abandoned", parent[a].current)
    BY <1>3 DEF AbandonTransaction
  <2>2. /\ "abandoned" \in Status \ {"absent"}
        /\ parent[a].current \in {0} \cup Modules
        /\ ~FreeAccess => \A u \in Units :
             u[1] < parent[a].current => u \in Submitted(a)
    BY DEF Status, IInv, Rows, CurrentIsUnlocked
  <2>3. ParentsMove
    BY <2>1, <2>2, ParentMove DEF IInv
  <2>4. Allowed(a, "abandoned")
    BY <1>3 DEF Allowed
  <2>5. Promised /\ Final
    BY <1>2, <2>1, <2>4, ParentMaps DEF IInv
  <2> QED BY <1>2, <2>3, <2>5, StepKeeps DEF Kept, IInv, Continues
<1>4. CASE parent[a].status # "in_progress"
  <2>1. UNCHANGED parent
    BY <1>4 DEF AbandonTransaction
  <2>2. Promised /\ Final
    BY <1>2, <2>1, StutterMaps
  <2> QED BY <1>2, <2>1, <2>2, ChildKept
<1> QED BY <1>3, <1>4

LEMMA AbandonSessionKept ==
  ASSUME IInv, NEW w \in Workers, AbandonSession(w)
  PROVE  Kept
<1>1. /\ ~Free(w) /\ job[w].pc = "abandon"
      /\ AbandonTransaction(job[w].att) /\ UNCHANGED faults
      /\ Continues(w) /\ CacheMoves
  BY InsertContinues DEF AbandonSession, At, Free, CacheMoves
<1> QED BY <1>1, CallFacts, TransactionKept

LEMMA AbandonUnansweredKept ==
  ASSUME IInv, NEW w \in Workers, AbandonUnanswered(w)
  PROVE  Kept
<1>1. /\ ~Free(w) /\ job[w].pc = "abandon" /\ Goto(w, "abandonKids")
      /\ ~(RpcOutcomes \subseteq {"answered"})
      /\ UNCHANGED faults /\ CacheMoves
      /\ AbandonTransaction(job[w].att) \/ UNCHANGED <<parent, child>>
  BY DEF AbandonUnanswered, At, Free, CacheMoves
<1>2. /\ "abandonKids" \in Steps
      /\ "abandonKids" \notin ChildSteps \cup SubmitSteps
  BY DEF Steps, SessionSteps, ChildSteps, SubmitSteps
<1>3. Continues(w)
  BY <1>1, <1>2, GotoContinues
<1>4. CASE AbandonTransaction(job[w].att)
  BY <1>1, <1>3, <1>4, CallFacts, TransactionKept
<1>5. CASE UNCHANGED <<parent, child>>
  BY <1>1, <1>3, <1>5, QuietKept
<1> QED BY <1>1, <1>4, <1>5

LEMMA AbandonKidsKept ==
  ASSUME IInv, NEW w \in Workers, AbandonKids(w)
  PROVE  Kept
<1>1. /\ ~Free(w) /\ job[w].pc = "abandonKids" /\ Goto(w, "abandonParent")
      /\ Abandoned(OpenKidsOf(job[w].att))
      /\ UNCHANGED <<parent, faults>> /\ CacheMoves
  BY DEF AbandonKids, At, Free, CacheMoves
<1>2. /\ "abandonParent" \in Steps
      /\ "abandonParent" \notin ChildSteps \cup SubmitSteps
      /\ ~(RpcOutcomes \subseteq {"answered"})
  BY <1>1, BusyJob DEF Steps, SessionSteps, ChildSteps, SubmitSteps, JobOK
<1>3. Continues(w)
  BY <1>1, <1>2, GotoContinues
<1>4. \A c \in OpenKidsOf(job[w].att) : Exists(c)
  BY DEF OpenKidsOf, KidsOf
<1> QED BY <1>1, <1>3, <1>4, AbandonedKept

LEMMA AbandonParentKept ==
  ASSUME IInv, NEW w \in Workers, AbandonParent(w)
  PROVE  Kept
<1> DEFINE a == job[w].att
<1>1. /\ ~Free(w) /\ job[w].pc = "abandonParent"
      /\ SetParent(a, "abandoned", parent[a].current)
      /\ UNCHANGED <<child, faults>> /\ Continues(w) /\ CacheMoves
  BY InsertContinues DEF AbandonParent, At, Free, CacheMoves
<1>2. /\ a \in Attempts /\ Known(a) /\ parent[a].current \in {0} \cup Modules
      /\ ~(RpcOutcomes \subseteq {"answered"})
  BY <1>1, CallFacts, BusyJob DEF JobOK
<1>3. ~FreeAccess => \A u \in Units :
        u[1] < parent[a].current => u \in Submitted(a)
  BY <1>2 DEF IInv, Rows, CurrentIsUnlocked
<1>4. Allowed(a, "abandoned") /\ "abandoned" \in Status \ {"absent"}
  BY <1>2 DEF Allowed, Status
<1> QED BY <1>1, <1>2, <1>3, <1>4, ParentKept

LEMMA InsertParentKept ==
  ASSUME IInv, NEW w \in Workers, InsertParent(w)
  PROVE  Kept
<1>1. /\ ~Free(w) /\ job[w].pc = "insertParent"
      /\ UNCHANGED <<child, faults>> /\ CacheMoves
  BY DEF InsertParent, At, Free, CacheMoves
<1>2. CASE Stop(w) /\ UNCHANGED parent
  BY <1>1, <1>2, StopContinues, QuietKept
<1>3. ASSUME NEW a \in Attempts, parent[a].status = "absent",
             \A b \in Attempts : parent[b].status # "in_progress",
             SetParent(a, "in_progress", 1),
             SetJob(w, job[w].call, a, "bundle", NoUnit, {}, NoSnapshot, 0)
      PROVE  Kept
  <2>1. /\ "in_progress" \in Status \ {"absent"} /\ 1 \in {0} \cup Modules
        /\ \A u \in Units : ~(u[1] < 1)
    BY UnitIs DEF Status, Modules
  <2>2. ChildrenMove /\ ParentsMove
    BY <1>1, <1>3, <2>1, ChildrenRest, ParentMove DEF IInv
  <2>3. Allowed(a, "in_progress")
    BY <1>3 DEF Allowed, Known
  <2>4. Promised /\ Final
    BY <1>1, <1>3, <2>3, ChildUnsubmitting, ParentMaps DEF IInv
  <2>5. PICK j \in Job :
          j = [call |-> job[w].call, att |-> a, pc |-> "bundle",
               unit |-> NoUnit, kids |-> {}, seen |-> NoSnapshot, todo |-> 0]
    BY <1>1, BusyJob, NothingSound DEF Job, Steps, ProgressSteps
  <2>6. parent'[a].status = "in_progress"
    BY <1>3 DEF SetParent, IInv, Rows
  <2>7. /\ j.pc = "bundle" /\ j.unit = NoUnit /\ j.todo = 0 /\ j.kids = {}
        /\ j.att = a /\ j.seen = NoSnapshot
        /\ "bundle" \notin ChildSteps \cup SubmitSteps
        /\ job' = [job EXCEPT ![w] = j]
    BY <1>3, <2>5 DEF ChildSteps, SubmitSteps, SetJob
  <2>8. Known(a)' /\ Sound(a, NoSnapshot)'
    BY <2>6 DEF Known, Sound, NoSnapshot
  <2>9. JobOK(j)'
    BY <2>7, <2>8 DEF JobOK
  <2>10. IInv'
    BY <1>1, <2>2, <2>7, <2>9, StepKeeps DEF IInv
  <2> QED BY <2>4, <2>10 DEF Kept
<1> QED BY <1>2, <1>3 DEF InsertParent

LEMMA ReadBundleKept ==
  ASSUME IInv, NEW w \in Workers, ReadBundle(w)
  PROVE  Kept
<1>1. /\ ~Free(w) /\ job[w].pc = "bundle"
      /\ Progress(w, job[w].call, job[w].att, Bundle(job[w].att))
      /\ UNCHANGED <<parent, child, faults>>
  BY DEF ReadBundle, At, Free
<1>2. /\ job[w].att \in Attempts /\ Known(job[w].att) /\ job[w].call \in Calls
      /\ Bundle(job[w].att) \in Snapshot
      /\ Sound(job[w].att, Bundle(job[w].att))
  BY <1>1, CallFacts, BundleSound DEF IInv
<1> QED BY <1>1, <1>2, ProgressStep, QuietKept

(* The repair and the finish of a session with every part submitted.       *)
LEMMA CompletedKept ==
  ASSUME IInv, UNCHANGED <<child, faults>>, NEW a \in Attempts, Known(a),
         Required \subseteq Submitted(a), SetParent(a, "completed", 0),
         NEW w \in Workers, Continues(w), CacheMoves
  PROVE  Kept
<1>1. /\ "completed" \in Status \ {"absent"} /\ 0 \in {0} \cup Modules
      /\ \A u \in Units : ~(u[1] < 0)
  BY UnitIs DEF Status, Modules
<1>2. Allowed(a, "completed")
  BY DEF Allowed
<1> QED BY <1>1, <1>2, ParentKept

(* What completes a session is part of it.                                 *)
LEMMA RequiredIs == Required \subseteq Units
BY UnitIs DEF Required, Modules

LEMMA RepairKept ==
  ASSUME IInv, NEW w \in Workers, Repair(w)
  PROVE  Kept
<1> DEFINE a == job[w].att
           s == [job[w].seen EXCEPT !.status = "completed"]
<1>1. /\ ~Free(w) /\ job[w].pc = "repair" /\ SetParent(a, "completed", 0)
      /\ UseProgress(w, job[w].call, a, s) /\ UNCHANGED <<child, faults>>
  BY DEF Repair, At, Free
<1>2. a \in Attempts /\ Known(a) /\ job[w].call \in Calls
  BY <1>1, CallFacts
<1>3. s \in Snapshot /\ Sound(a, s)
  <2>1. "completed" \in Status
    BY DEF Status
  <2> QED BY <1>1, <2>1, CallFacts, StatusSound
<1>4. Required \subseteq Submitted(a)
  BY <1>1, BusyJob, RequiredIs DEF JobOK
<1> HIDE DEF s
<1>5. Continues(w) /\ CacheMoves
  BY <1>1, <1>2, <1>3, UseProgressStep
<1> QED BY <1>1, <1>2, <1>4, <1>5, CompletedKept

LEMMA FinishKept ==
  ASSUME IInv, NEW w \in Workers, Finish(w)
  PROVE  Kept
<1>1. /\ ~Free(w) /\ job[w].pc = "finish"
      /\ SetParent(job[w].att, "completed", 0)
      /\ UNCHANGED <<child, faults>> /\ Continues(w) /\ CacheMoves
  BY StopContinues DEF Finish, At, Free, CacheMoves
<1>2. Required \subseteq Submitted(job[w].att)
  BY <1>1, BusyJob, RequiredIs DEF JobOK
<1> QED BY <1>1, <1>2, CallFacts, CompletedKept

-----------------------------------------------------------------------------
(* Starting a part *)

(* A call that opens, marks or sweeps children works for a unit.           *)
LEMMA UnitFacts ==
  ASSUME IInv, NEW w \in Workers, ~Free(w),
         job[w].pc \in ChildSteps \cup SubmitSteps
  PROVE  /\ job[w].unit \in Units /\ job[w].unit[1] \in Modules
         /\ job[w].pc # "insertParent"
         /\ job[w].att \in Attempts /\ Known(job[w].att)
         /\ Ready(job[w].att, job[w].unit)
         /\ job[w].kids \in SUBSET Children
         /\ \A c \in job[w].kids : Exists(c)
<1>1. job[w].pc # "insertParent"
  BY DEF ChildSteps, SubmitSteps
<1>2. job[w].unit \in Units /\ job[w].unit # NoUnit
  BY BusyJob, UnitIs DEF JobOK
<1> QED BY <1>1, <1>2, BusyJob, UnitIs DEF JobOK, Job

LEMMA AfterChildContinues ==
  ASSUME IInv, NEW w \in Workers, ~Free(w), job[w].pc \in ChildSteps,
         AfterChild(w)
  PROVE  Continues(w)
<1>1. /\ job[w].unit \in Units /\ job[w].unit[1] \in Modules
      /\ job[w].att \in Attempts /\ Known(job[w].att)
      /\ Ready(job[w].att, job[w].unit) /\ job[w].pc # "insertParent"
  BY UnitFacts
<1>2. ASSUME NEW pc \in {"current", "cleanup"}, Goto(w, pc)
      PROVE  Continues(w)
  <2>1. /\ pc \in Steps
        /\ pc \notin {"insertParent", "repair", "finish", "abandonKids",
                      "abandonParent"}
    BY DEF Steps, ChildSteps
  <2> QED BY <1>1, <1>2, <2>1, GotoContinues
<1>3. CASE SetJob(w, "resume", job[w].att, "current", job[w].unit, {},
                  NoSnapshot, job[w].unit[1])
  <2>1. "resume" \in Calls /\ "current" \in Steps
    BY DEF Calls, Steps, ChildSteps
  <2> QED BY <1>1, <1>3, <2>1, OpenContinues
<1>4. CASE Stop(w)
  BY <1>4, StopContinues
<1>5. \/ Goto(w, "current") \/ Goto(w, "cleanup") \/ Stop(w)
      \/ SetJob(w, "resume", job[w].att, "current", job[w].unit, {},
                NoSnapshot, job[w].unit[1])
  <2>1. CASE job[w].call = "start"
    BY <2>1 DEF AfterChild
  <2>2. CASE job[w].call = "resume"
    BY <2>2 DEF AfterChild
  <2>3. CASE job[w].call = "module"
    <3>1. CASE job[w].unit[1] \in Tidied
      BY <2>3, <3>1 DEF AfterChild
    <3>2. CASE job[w].unit[1] \notin Tidied
      BY <2>3, <3>2 DEF AfterChild
    <3> QED BY <3>1, <3>2
  <2>4. CASE job[w].call \notin {"start", "resume", "module"}
    BY <2>4 DEF AfterChild
  <2> QED BY <2>1, <2>2, <2>3, <2>4
<1> QED BY <1>2, <1>3, <1>4, <1>5

LEMMA FindChildKept ==
  ASSUME IInv, NEW w \in Workers, FindChild(w)
  PROVE  Kept
<1> DEFINE found == OpenKids(job[w].att, job[w].unit)
<1>1. /\ ~Free(w) /\ job[w].pc \in ChildSteps
      /\ UNCHANGED <<parent, child, faults>> /\ CacheMoves
  BY DEF FindChild, At, Free, CacheMoves, ChildSteps
<1>2. job[w].unit \in Units /\ job[w].pc # "insertParent"
  BY <1>1, UnitFacts
<1>3. CASE Goto(w, "insertChild")
  <2>1. "insertChild" \in Steps
    BY DEF Steps, ChildSteps
  <2>2. Continues(w)
    BY <1>1, <1>2, <1>3, <2>1, GotoContinues
  <2> QED BY <1>1, <2>2, QuietKept
<1>4. ASSUME NEW c \in found, GotoKids(w, "abandonChild", {c})
      PROVE  Kept
  <2>1. /\ {c} \in SUBSET Children /\ Exists(c)
        /\ "abandonChild" \in ChildSteps \cup SubmitSteps
    BY DEF OpenKids, KidsOf, ChildSteps
  <2>2. Continues(w)
    BY <1>1, <1>2, <1>4, <2>1, KidsContinues
  <2> QED BY <1>1, <2>2, QuietKept
<1>5. CASE AfterChild(w)
  BY <1>1, <1>5, AfterChildContinues, QuietKept
<1>6. \/ Goto(w, "insertChild") \/ AfterChild(w)
      \/ \E c \in found : GotoKids(w, "abandonChild", {c})
  BY DEF FindChild
<1> HIDE DEF found
<1> QED BY <1>3, <1>4, <1>5, <1>6

LEMMA AbandonChildKept ==
  ASSUME IInv, NEW w \in Workers, AbandonChild(w)
  PROVE  Kept
<1>1. /\ ~Free(w) /\ job[w].pc \in ChildSteps \cup SubmitSteps
      /\ Abandoned(job[w].kids) /\ GotoKids(w, "insertChild", {})
      /\ "insertChild" \in ChildSteps \cup SubmitSteps
      /\ UNCHANGED <<parent, faults>> /\ CacheMoves
  BY DEF AbandonChild, At, Free, CacheMoves, ChildSteps
<1>2. job[w].unit \in Units /\ \A c \in job[w].kids : Exists(c)
  BY <1>1, UnitFacts
<1>3. Continues(w)
  BY <1>1, <1>2, KidsContinues
<1> QED BY <1>1, <1>2, <1>3, AbandonedKept

LEMMA InsertChildKept ==
  ASSUME IInv, NEW w \in Workers, InsertChild(w)
  PROVE  Kept
<1> DEFINE a == job[w].att
           u == job[w].unit
<1>1. /\ ~Free(w) /\ job[w].pc \in ChildSteps
      /\ UNCHANGED <<parent, faults>> /\ CacheMoves
  BY DEF InsertChild, At, Free, CacheMoves, ChildSteps
<1>2. /\ u \in Units /\ a \in Attempts /\ Known(a) /\ Ready(a, u)
  BY <1>1, UnitFacts
<1>3. CASE Stop(w) /\ UNCHANGED child
  BY <1>1, <1>3, StopContinues, QuietKept
<1>4. ASSUME NEW c \in Children, ~Exists(c),
             child' = [child EXCEPT ![c] =
                         [status |-> "in_progress", of |-> a, unit |-> u,
                          submitted |-> FALSE]],
             AfterChild(w)
      PROVE  Kept
  <2>1. ChildrenMove /\ Unsubmitting
    BY <1>2, <1>4, InsertedMove DEF IInv, Unsubmitting
  <2>2. Promised /\ Final
    BY <1>1, <2>1, StutterMaps
  <2>3. Continues(w)
    BY <1>1, <1>4, AfterChildContinues
  <2> QED BY <1>1, <2>1, <2>2, <2>3, ChildKept
<1> QED BY <1>3, <1>4 DEF InsertChild

LEMMA SetCurrentKept ==
  ASSUME IInv, NEW w \in Workers, SetCurrent(w)
  PROVE  Kept
<1> DEFINE a == job[w].att
           m == job[w].todo
<1>1. /\ ~Free(w) /\ m # 0 /\ SetParent(a, parent[a].status, m)
      /\ SetJob(w, job[w].call, a, job[w].pc, job[w].unit, job[w].kids,
                job[w].seen, 0)
      /\ UNCHANGED <<child, faults>> /\ CacheMoves
  BY DEF SetCurrent, CacheMoves
<1>2. job[w] \in Job /\ JobOK(job[w])
  BY <1>1, BusyJob
<1>3. /\ a \in Attempts /\ Known(a) /\ job[w].pc # "insertParent"
      /\ job[w].unit \in Units /\ m = job[w].unit[1] /\ m \in {0} \cup Modules
      /\ Ready(a, job[w].unit)
  BY <1>1, <1>2, UnitIs DEF JobOK, Job
<1>4. Continues(w)
  <2>1. JobOK([call |-> job[w].call, att |-> a, pc |-> job[w].pc,
               unit |-> job[w].unit, kids |-> job[w].kids,
               seen |-> job[w].seen, todo |-> 0])
    BY <1>2, <1>3 DEF JobOK
  <2>2. /\ job[w].call \in Calls /\ job[w].pc \in Steps
        /\ job[w].kids \in SUBSET Children /\ job[w].seen \in Snapshot
    BY <1>2 DEF Job
  <2> QED BY <1>1, <1>3, <2>1, <2>2, SetJobContinues
<1>5. ~FreeAccess => \A u \in Units : u[1] < m => u \in Submitted(a)
  BY <1>3, ReadyIs
<1>6. parent[a].status \in Status \ {"absent"} /\ Allowed(a, parent[a].status)
  BY <1>1, <1>3, CallFacts DEF Allowed
<1> QED BY <1>1, <1>3, <1>4, <1>5, <1>6, ParentKept

LEMMA StartedKept ==
  ASSUME IInv, NEW w \in Workers, Started(w)
  PROVE  Kept
<1> DEFINE a == job[w].att
<1>1. /\ ~Free(w) /\ job[w].pc = "current"
      /\ UNCHANGED <<parent, child, faults>>
      /\ \/ Stop(w) /\ UNCHANGED cache
         \/ Progress(w, "progress", a, Bundle(a))
  BY DEF Started, At, Free
<1>2. /\ a \in Attempts /\ Known(a) /\ "progress" \in Calls
      /\ Bundle(a) \in Snapshot /\ Sound(a, Bundle(a))
  BY <1>1, CallFacts, BundleSound DEF IInv, Calls
<1>3. Continues(w) /\ CacheMoves
  <2>1. CASE Stop(w) /\ UNCHANGED cache
    BY <2>1, StopContinues DEF CacheMoves
  <2>2. CASE Progress(w, "progress", a, Bundle(a))
    BY <1>2, <2>2, ProgressStep
  <2> QED BY <1>1, <2>1, <2>2
<1> QED BY <1>1, <1>3, QuietKept

LEMMA CleanupKept ==
  ASSUME IInv, NEW w \in Workers, Cleanup(w)
  PROVE  Kept
<1>1. /\ ~Free(w) /\ job[w].pc \in ChildSteps \cup SubmitSteps
      /\ UNCHANGED <<parent, child, faults>> /\ CacheMoves
      /\ "sweep" \in ChildSteps \cup SubmitSteps
  BY DEF Cleanup, At, Free, CacheMoves, ChildSteps
<1>2. CASE Stop(w)
  BY <1>1, <1>2, StopContinues, QuietKept
<1>3. ASSUME NEW kids \in SUBSET Children, \A c \in kids : Exists(c),
             GotoKids(w, "sweep", kids)
      PROVE  Kept
  <2>1. Continues(w)
    BY <1>1, <1>3, UnitFacts, KidsContinues
  <2> QED BY <1>1, <2>1, QuietKept
<1>4. Stop(w) \/ \E kids \in SUBSET Children :
        (\A c \in kids : Exists(c)) /\ GotoKids(w, "sweep", kids)
  <2> DEFINE stale == {c \in Children :
                         Exists(c) /\ child[c].status = "in_progress"
                         /\ child[c].unit = job[w].unit
                         /\ (child[c].of # job[w].att
                             \/ job[w].unit \in DoneOf(job[w].att))}
  <2>1. Stop(w) \/ GotoKids(w, "sweep", stale)
    BY DEF Cleanup
  <2>2. stale \in SUBSET Children /\ \A c \in stale : Exists(c)
    OBVIOUS
  <2> HIDE DEF stale
  <2> QED BY <2>1, <2>2
<1> QED BY <1>2, <1>3, <1>4

LEMMA SweepKept ==
  ASSUME IInv, NEW w \in Workers, Sweep(w)
  PROVE  Kept
<1>1. /\ ~Free(w) /\ job[w].pc \in ChildSteps \cup SubmitSteps
      /\ UNCHANGED <<parent, faults>> /\ CacheMoves
      /\ "sweep" \in ChildSteps \cup SubmitSteps
  BY DEF Sweep, At, Free, CacheMoves, ChildSteps
<1>2. /\ job[w].kids \in SUBSET Children /\ \A c \in job[w].kids : Exists(c)
      /\ job[w].unit \in Units
  BY <1>1, UnitFacts
<1>3. PICK c \in job[w].kids :
        /\ Abandoned({c})
        /\ Stop(w) \/ GotoKids(w, "sweep", job[w].kids \ {c})
  BY DEF Sweep
<1>4. Continues(w)
  <2>1. CASE Stop(w)
    BY <2>1, StopContinues
  <2>2. CASE GotoKids(w, "sweep", job[w].kids \ {c})
    <3>1. /\ job[w].kids \ {c} \in SUBSET Children
          /\ \A d \in job[w].kids \ {c} : Exists(d)
      BY <1>2
    <3> QED BY <1>1, <1>2, <2>2, <3>1, KidsContinues
  <2> QED BY <1>3, <2>1, <2>2
<1>5. \A d \in {c} : Exists(d)
  BY <1>2
<1> QED BY <1>1, <1>3, <1>4, <1>5, AbandonedKept

-----------------------------------------------------------------------------
(* Submitting a part *)

(* The write of completed_at, by whichever path.                           *)
LEMMA DoneKept ==
  ASSUME IInv, UNCHANGED <<parent, faults>>, NEW c \in Children, Exists(c),
         SetDone(c), NEW w \in Workers, Continues(w), CacheMoves
  PROVE  Kept
<1>1. ChildrenMove
  BY DoneMove DEF IInv
<1>2. Promised /\ Final
  BY DoneMaps DEF IInv
<1> QED BY <1>1, <1>2, ChildKept

LEMMA TransactionDoneKept ==
  ASSUME IInv, UNCHANGED <<parent, faults>>, NEW w \in Workers, ~Free(w),
         job[w].pc \in ChildSteps \cup SubmitSteps, PersistTransaction(w),
         Continues(w), CacheMoves
  PROVE  Kept
<1>1. job[w].kids \in SUBSET Children /\ \A c \in job[w].kids : Exists(c)
  BY UnitFacts
<1>2. CASE Open(w)
  <2>1. PICK c \in job[w].kids : SetDone(c)
    BY <1>2 DEF PersistTransaction
  <2> QED BY <1>1, <2>1, DoneKept
<1>3. CASE ~Open(w)
  <2>1. UNCHANGED child
    BY <1>3 DEF PersistTransaction
  <2> QED BY <2>1, QuietKept
<1> QED BY <1>2, <1>3

(* The steps a submit goes on to.                                          *)
LEMMA SubmitContinues ==
  ASSUME IInv, NEW w \in Workers, ~Free(w),
         job[w].pc \in ChildSteps \cup SubmitSteps, NEW pc \in SubmitSteps,
         Goto(w, pc) \/ GotoKids(w, pc, {})
  PROVE  Continues(w)
<1>1. job[w].unit \in Units /\ job[w].pc # "insertParent"
  BY UnitFacts
<1>2. CASE Goto(w, pc)
  <2>1. /\ pc \in Steps
        /\ pc \notin {"insertParent", "repair", "finish", "abandonKids",
                      "abandonParent"}
    BY DEF Steps, SubmitSteps
  <2> QED BY <1>1, <1>2, <2>1, GotoContinues
<1>3. CASE GotoKids(w, pc, {})
  BY <1>1, <1>3, KidsContinues
<1> QED BY <1>2, <1>3

LEMMA PersistKept ==
  ASSUME IInv, NEW w \in Workers, Persist(w)
  PROVE  Kept
<1>1. /\ ~Free(w) /\ job[w].pc \in ChildSteps \cup SubmitSteps
      /\ PersistTransaction(w) /\ UNCHANGED <<parent, faults>> /\ CacheMoves
      /\ GotoKids(w, "submitBundle", {}) \/ Stop(w)
      /\ "submitBundle" \in SubmitSteps
  BY DEF Persist, At, Free, CacheMoves, SubmitSteps
<1>2. Continues(w)
  BY <1>1, SubmitContinues, StopContinues
<1> QED BY <1>1, <1>2, TransactionDoneKept

LEMMA PersistUnansweredKept ==
  ASSUME IInv, NEW w \in Workers, PersistUnanswered(w)
  PROVE  Kept
<1>1. /\ ~Free(w) /\ job[w].pc \in ChildSteps \cup SubmitSteps
      /\ PersistTransaction(w) \/ UNCHANGED child
      /\ UNCHANGED <<parent, faults>> /\ CacheMoves
      /\ Goto(w, "fbRead") /\ "fbRead" \in SubmitSteps
  BY DEF PersistUnanswered, At, Free, CacheMoves, SubmitSteps
<1>2. Continues(w)
  BY <1>1, SubmitContinues
<1>3. CASE PersistTransaction(w)
  BY <1>1, <1>2, <1>3, TransactionDoneKept
<1>4. CASE UNCHANGED child
  BY <1>1, <1>2, <1>4, QuietKept
<1> QED BY <1>1, <1>3, <1>4

LEMMA FallbackReadKept ==
  ASSUME IInv, NEW w \in Workers, FallbackRead(w)
  PROVE  Kept
<1>1. /\ ~Free(w) /\ job[w].pc \in ChildSteps \cup SubmitSteps
      /\ UNCHANGED <<parent, child, faults>> /\ CacheMoves
      /\ Goto(w, "mark") \/ Stop(w)
      /\ "mark" \in SubmitSteps
  BY DEF FallbackRead, At, Free, CacheMoves, SubmitSteps
<1>2. Continues(w)
  BY <1>1, SubmitContinues, StopContinues
<1> QED BY <1>1, <1>2, QuietKept

LEMMA MarkDoneKept ==
  ASSUME IInv, NEW w \in Workers, MarkDone(w)
  PROVE  Kept
<1>1. /\ ~Free(w) /\ job[w].pc \in ChildSteps \cup SubmitSteps
      /\ UNCHANGED <<parent, faults>> /\ CacheMoves
      /\ GotoKids(w, "submitBundle", {}) /\ "submitBundle" \in SubmitSteps
      /\ \E c \in job[w].kids : SetDone(c)
  BY DEF MarkDone, At, Free, CacheMoves, SubmitSteps
<1>2. Continues(w)
  BY <1>1, SubmitContinues
<1>3. PICK c \in job[w].kids : SetDone(c)
  BY <1>1
<1>4. c \in Children /\ Exists(c)
  BY <1>1, UnitFacts
<1> QED BY <1>1, <1>2, <1>3, <1>4, DoneKept

LEMMA SubmitBundleKept ==
  ASSUME IInv, NEW w \in Workers, SubmitBundle(w)
  PROVE  Kept
<1>1. /\ ~Free(w) /\ job[w].pc \in ChildSteps \cup SubmitSteps
      /\ UNCHANGED <<parent, child, faults>> /\ CacheMoves
      /\ GotoSeen(w, "patch", Bundle(job[w].att))
  BY DEF SubmitBundle, At, Free, CacheMoves, SubmitSteps
<1>2. /\ "patch" \in Steps
      /\ "patch" \notin {"insertParent", "repair", "finish", "abandonKids",
                         "abandonParent"}
  BY DEF Steps, SubmitSteps
<1>3. /\ Bundle(job[w].att) \in Snapshot
      /\ Sound(job[w].att, Bundle(job[w].att))
  BY <1>1, UnitFacts, BundleSound DEF IInv
<1>4. Continues(w)
  BY <1>1, <1>2, <1>3, UnitFacts, CallContinues DEF GotoSeen
<1> QED BY <1>1, <1>4, QuietKept

LEMMA AdvanceParentKept ==
  ASSUME IInv, NEW w \in Workers, AdvanceParent(w)
  PROVE  Kept
<1> DEFINE a == job[w].att
           u == job[w].unit
           m == u[1]
           s == job[w].seen
           t == [s EXCEPT !.status = "completed"]
<1>1. /\ ~Free(w) /\ job[w].pc \in ChildSteps \cup SubmitSteps
      /\ UNCHANGED <<child, faults>> /\ "submit" \in Calls
  BY DEF AdvanceParent, At, Free, SubmitSteps, Calls
<1>2. /\ a \in Attempts /\ Known(a) /\ u \in Units /\ m \in Modules
      /\ Ready(a, u)
  BY <1>1, UnitFacts
<1>3. /\ s \in Snapshot /\ Sound(a, s)
      /\ parent[a].status \in Status \ {"absent"}
  BY <1>1, UnitFacts, CallFacts
<1>4. ~FreeAccess => \A v \in Units : v[1] < m => v \in Submitted(a)
  BY <1>2, ReadyIs
<1>5. Complete(m, s) => \A v \in Units : v[1] = m => v \in Submitted(a)
  BY <1>2, <1>3, UnitIs DEF Complete, Sound
<1>6. CASE Complete(m, s) /\ m = NModules
  <2>1. SetParent(a, "completed", 0) /\ Progress(w, "submit", a, t)
    BY <1>6 DEF AdvanceParent
  <2>2. t \in Snapshot /\ Sound(a, t)
    <3>1. "completed" \in Status
      BY DEF Status
    <3> QED BY <1>3, <3>1, StatusSound
  <2>3. Continues(w) /\ CacheMoves
    <3> HIDE DEF t
    <3> QED BY <1>1, <1>2, <2>1, <2>2, ProgressStep
  <2>4. Required \subseteq Submitted(a)
    <3>1. CASE FreeAccess
      BY <1>2, <1>5, <1>6, <3>1, UnitIs DEF Required
    <3>2. CASE ~FreeAccess
      <4>1. \A v \in Units : v[1] < m \/ v[1] = m
        BY <1>6, UnitIs DEF Modules
      <4> QED BY <1>4, <1>5, <1>6, <3>2, <4>1 DEF Required
    <3> QED BY <3>1, <3>2
  <2> QED BY <1>1, <1>2, <2>1, <2>3, <2>4, CompletedKept
<1>7. CASE ~(Complete(m, s) /\ m = NModules)
  <2> DEFINE n == IF Complete(m, s) THEN m + 1 ELSE m
  <2>1. SetParent(a, parent[a].status, n) /\ Progress(w, "submit", a, s)
    BY <1>7 DEF AdvanceParent
  <2>2. Continues(w) /\ CacheMoves
    BY <1>1, <1>2, <1>3, <2>1, ProgressStep
  <2>3. n \in {0} \cup Modules
    BY <1>2, <1>7 DEF Modules
  <2>4. ~FreeAccess => \A v \in Units : v[1] < n => v \in Submitted(a)
    <3>1. ASSUME NEW v \in Units, v[1] < n
          PROVE  v[1] < m \/ (Complete(m, s) /\ v[1] = m)
      <4>1. v[1] \in Nat /\ m \in Nat
        BY <1>2, UnitIs DEF Modules
      <4> QED BY <3>1, <4>1
    <3> QED BY <1>4, <1>5, <3>1
  <2>5. Allowed(a, parent[a].status)
    BY DEF Allowed
  <2> HIDE DEF n
  <2> QED BY <1>1, <1>2, <1>3, <2>1, <2>2, <2>3, <2>4, <2>5, ParentKept
<1> QED BY <1>6, <1>7

-----------------------------------------------------------------------------
(* The specification *)

LEMMA StepKept ==
  ASSUME IInv, NEW w \in Workers, Step(w)
  PROVE  Kept
BY AbandonSessionKept, AbandonUnansweredKept, AbandonKidsKept,
   AbandonParentKept, InsertParentKept, ReadBundleKept, RepairKept, FinishKept,
   FindChildKept, AbandonChildKept, InsertChildKept, SetCurrentKept,
   StartedKept, CleanupKept, SweepKept, PersistKept, PersistUnansweredKept,
   FallbackReadKept, MarkDoneKept, SubmitBundleKept, AdvanceParentKept
   DEF Step

LEMMA ArriveKept ==
  ASSUME IInv, NEW w \in Workers, Arrive(w)
  PROVE  Kept
BY StartMockKept, GetProgressKept, ResumeMockKept, StartPartKept, SubmitKept
   DEF Arrive

LEMMA KilledKept ==
  ASSUME IInv, NEW w \in Workers, Killed(w)
  PROVE  Kept
<1>1. /\ Continues(w) /\ CacheMoves /\ UNCHANGED <<parent, child>>
      /\ faults' \in 0..MaxFaults
  BY StopContinues DEF Killed, CacheMoves, IInv
<1>2. ChildrenMove /\ ParentsMove
  BY <1>1, ChildrenRest, ParentsRest DEF IInv
<1>3. Promised /\ Final
  BY <1>1, StutterMaps, ChildUnsubmitting
<1> QED BY <1>1, <1>2, <1>3, StepKeeps DEF Kept, Continues

LEMMA NextKept ==
  ASSUME IInv, [Next]_vars
  PROVE  Kept
<1>1. CASE Next
  BY <1>1, ArriveKept, StepKept, KilledKept DEF Next
<1>2. CASE UNCHANGED vars
  <2>1. UNCHANGED <<parent, child, cache, job, faults>>
    BY <1>2 DEF vars
  <2>2. Promised /\ Final
    BY <2>1, StutterMaps, ChildUnsubmitting
  <2>3. Rows' /\ Grows
    BY <2>1, ChildrenRest, ParentsRest, RowsMove DEF IInv
  <2>4. Jobs' /\ Cache' /\ faults' \in 0..MaxFaults
    BY <2>1, <2>3, JobStays, SoundStays DEF IInv, Jobs, Cache, Hit
  <2> QED BY <2>2, <2>3, <2>4 DEF Kept, IInv
<1> QED BY <1>1, <1>2

LEMMA InitHolds ==
  ASSUME Init
  PROVE  IInv
<1>1. Rows
  <2>1. \A c \in Children : ~Exists(c)
    BY DEF Init, Exists, NoChild
  <2>2. parent \in [Attempts -> [status : Status, current : {0} \cup Modules]]
    BY DEF Init, Status
  <2>3. CurrentIsUnlocked
    BY UnitIs DEF Init, CurrentIsUnlocked, Modules
  <2> QED BY <2>1, <2>2, <2>3 DEF Init, Rows, Family
<1>2. Jobs
  BY DEF Init, Jobs, Job, Idle, Calls, StartCalls, FreshCalls
<1>3. Cache
  BY DEF Init, Cache, Hit
<1> QED BY <1>1, <1>2, <1>3 DEF Init, IInv

(* The strengthening holds in every reachable state.                       *)
LEMMA Invariance == Spec => []IInv
<1>1. IInv /\ [Next]_vars => IInv'
  BY NextKept DEF Kept
<1> QED BY InitHolds, <1>1, PTL DEF Spec

(* The rows, the cached snapshots and the calls under way are well formed. *)
THEOREM TypeCorrect == Spec => []TypeOK
<1>1. IInv => TypeOK
  BY DEF IInv, Rows, Jobs, Cache, TypeOK
<1> QED BY <1>1, Invariance, PTL

(* No part is opened before what precedes it was submitted, whatever the   *)
(* progress cache still says and whichever calls race (start_mock,         *)
(* resume_mock, _validate_unlock_from_snapshot).                           *)
THEOREM ExamOrderCorrect == Spec => []ExamOrder
<1>1. IInv => ExamOrder
  BY DEF IInv, Rows, Family, Ready, ExamOrder
<1> QED BY <1>1, Invariance, PTL

(* The module an attempt points at is one its user may open, whichever of  *)
(* several calls wrote current_module last.                                *)
THEOREM CurrentIsUnlockedCorrect == Spec => []CurrentIsUnlocked
<1>1. IInv => CurrentIsUnlocked
  BY DEF IInv, Rows
<1> QED BY <1>1, Invariance, PTL

(* A completed attempt stays completed as long as the abandon RPC answers: *)
(* its guard is the only thing between a forced restart and a finished     *)
(* exam, and the sequential fallback does not have it.                     *)
THEOREM CompletedIsFinalCorrect ==
  ASSUME RpcOutcomes \subseteq {"answered"}
  PROVE  Spec => CompletedIsFinal
<1>1. IInv /\ [Next]_vars =>
        [\A a \in Attempts : parent[a].status = "completed" =>
                               parent'[a].status = "completed"]_vars
  BY NextKept DEF Kept, Final
<1> QED BY <1>1, Invariance, PTL DEF Spec, CompletedIsFinal

(* The mock orchestrator implements ExamSession: units are submitted in    *)
(* exam order, none is taken back, and a session is completed only by a    *)
(* user who submitted what completing it requires.                         *)
THEOREM Implements == Spec => ImplementsExamSession
<1>1. Init => Promise!Init
  <2> SUFFICES ASSUME Init PROVE Promise!Init
    OBVIOUS
  <2>1. \A a \in Attempts : parent[a].status = "absent" /\ Submitted(a) = {}
    BY DEF Init, Submitted, KidsOf, Exists, NoChild
  <2> QED BY <2>1 DEF Promise!Init
<1>2. IInv /\ [Next]_vars => [Promise!Next]_(Promise!vars)
  BY NextKept DEF Kept, Promised
<1> QED BY <1>1, <1>2, Invariance, PTL
        DEF Spec, ImplementsExamSession, Promise!Spec

-----------------------------------------------------------------------------
(* What the promise is worth *)

(* A session that says completed has what completing it requires, what was *)
(* submitted was submitted in exam order, and one session at a time is in  *)
(* progress.                                                               *)
Earned ==
  /\ \A a \in Attempts :
       parent[a].status = "completed" => Required \subseteq Submitted(a)
  /\ \A a \in Attempts : \A u \in Submitted(a) : Ready(a, u)
  /\ \A a, b \in Attempts :
       parent[a].status = "in_progress" /\ parent[b].status = "in_progress"
         => a = b

(* The steps of ExamSession keep it, whatever the mock orchestrator does   *)
(* to make them.                                                           *)
LEMMA EarnedStays ==
  ASSUME Earned, Promised
  PROVE  Earned'
<1> DEFINE st == [a \in Attempts |-> parent[a].status]
           sb == [a \in Attempts |-> Submitted(a)]
<1>0. /\ \A a \in Attempts : st[a] = parent[a].status
      /\ \A a \in Attempts : st'[a] = parent'[a].status
      /\ \A a \in Attempts : sb[a] = Submitted(a) /\ sb'[a] = Submitted(a)'
  OBVIOUS
<1>1. ASSUME \A a \in Attempts : Submitted(a)' = Submitted(a),
             NEW s \in Attempts,
             \A a \in Attempts : a # s => parent'[a].status = parent[a].status,
             parent'[s].status = "completed" =>
               Required \subseteq Submitted(s),
             \/ parent'[s].status # "in_progress"
             \/ \A a \in Attempts : parent[a].status # "in_progress"
      PROVE  Earned'
  BY <1>1 DEF Earned, Ready, Before, Required
<1>2. CASE UNCHANGED Promise!vars
  <2>1. st' = st /\ sb' = sb
    BY <1>2 DEF Promise!vars
  <2>2. \A a \in Attempts : parent'[a].status = parent[a].status
                            /\ Submitted(a)' = Submitted(a)
    BY <1>0, <2>1
  <2> QED BY <2>2 DEF Earned, Ready, Before, Required
<1>3. ASSUME NEW s \in Attempts, Promise!Open(s) PROVE Earned'
  <2>1. /\ \A a \in Attempts : st[a] # "in_progress"
        /\ st' = [st EXCEPT ![s] = "in_progress"] /\ sb' = sb
    BY <1>3 DEF Promise!Open
  <2> HIDE DEF st, sb
  <2>2. /\ \A a \in Attempts : parent[a].status # "in_progress"
        /\ \A a \in Attempts : Submitted(a)' = Submitted(a)
    BY <1>0, <2>1
  <2>3. /\ \A a \in Attempts : a # s => parent'[a].status = parent[a].status
        /\ parent'[s].status = "in_progress"
    BY <1>0, <2>1 DEF st
  <2> QED BY <1>1, <2>2, <2>3
<1>4. ASSUME NEW s \in Attempts, Promise!Complete(s) \/ Promise!Drop(s)
      PROVE  Earned'
  <2>1. /\ sb' = sb
        /\ \/ /\ Required \subseteq sb[s]
              /\ st' = [st EXCEPT ![s] = "completed"]
           \/ st' = [st EXCEPT ![s] = "abandoned"]
    BY <1>4 DEF Promise!Complete, Promise!Drop
  <2> HIDE DEF st, sb
  <2>2. \A a \in Attempts : Submitted(a)' = Submitted(a)
    BY <1>0, <2>1
  <2>3. /\ \A a \in Attempts : a # s => parent'[a].status = parent[a].status
        /\ parent'[s].status # "in_progress"
        /\ parent'[s].status = "completed" => Required \subseteq Submitted(s)
    BY <1>0, <2>1 DEF st
  <2> QED BY <1>1, <2>2, <2>3
<1>5. ASSUME NEW s \in Attempts, NEW u \in Units, Promise!Submit(s, u)
      PROVE  Earned'
  <2>1. /\ Before(u) \subseteq sb[s] /\ st' = st
        /\ sb' = [sb EXCEPT ![s] = @ \cup {u}]
    BY <1>5 DEF Promise!Submit
  <2> HIDE DEF st, sb
  <2>2. \A a \in Attempts : parent'[a].status = parent[a].status
    BY <1>0, <2>1
  <2>3. /\ \A a \in Attempts : a # s => Submitted(a)' = Submitted(a)
        /\ Submitted(s)' = Submitted(s) \cup {u}
        /\ Before(u) \subseteq Submitted(s)
    BY <1>0, <2>1 DEF sb
  <2>4. ASSUME NEW a \in Attempts, NEW v \in Submitted(a)'
        PROVE  Ready(a, v)'
    <3>1. Ready(a, v)
      BY <2>3 DEF Earned, Ready
    <3> QED BY <2>3, <3>1 DEF Ready, Before
  <2>5. \A a \in Attempts : Submitted(a) \subseteq Submitted(a)'
    BY <2>3
  <2> QED BY <2>2, <2>4, <2>5 DEF Earned, Required
<1> QED BY <1>2, <1>3, <1>4, <1>5 DEF Promised, Promise!Next

(* A completed session was earned, its parts were submitted in exam order  *)
(* and no other one is in progress beside the present one, through every   *)
(* abandon, fallback, repair and late submission.                          *)
THEOREM EarnedCorrect == Spec => []Earned
<1>1. Init => Earned
  <2> SUFFICES ASSUME Init PROVE Earned
    OBVIOUS
  <2>1. \A a \in Attempts : parent[a].status = "absent" /\ Submitted(a) = {}
    BY DEF Init, Submitted, KidsOf, Exists, NoChild
  <2> QED BY <2>1 DEF Earned
<1>2. IInv /\ Earned /\ [Next]_vars => Earned'
  BY NextKept, EarnedStays DEF Kept
<1> QED BY <1>1, <1>2, Invariance, PTL DEF Spec
=============================================================================
