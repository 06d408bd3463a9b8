-------------------------- MODULE DeploymentProofs --------------------------
(***************************************************************************)
(* Theorems about Deployment for every number of versions, runtimes,       *)
(* workers, overlapping tasks, failures and passes of the collector.       *)
(***************************************************************************)
EXTENDS Deployment, WellFoundedInduction, TLAPS

(* A leaf that names no prover goes to the SMT solver, which is called again *)
(* when its time ran out, and in the end to Zenon.                           *)
USE SMTT(120), Z3T(120), SMTT(90), Z3T(90), ZenonT(60)

\* The version that is served, 0 when there is none.
Floor == IF entry = NoDoc THEN 0 ELSE entry.code

Tasks == [msg : Message \cup {<<"idle", 0>>},
          pc : {"idle", "begin", "purge", "set", "check", "purge_again", "activate", "tail",
                "configs", "assets"},
          v : 0..MaxVersion, todo : SUBSET Version, held : BOOLEAN]

\* Only a version that is to be activated is pending, and it is not an older one.
EntrySound ==
    /\ entry \in Manifest \cup {NoDoc}
    /\ entry # NoDoc =>
         IF entry.st = "PRE_PURGE" THEN entry.pending # 0 /\ entry.code <= entry.pending
         ELSE entry.pending = 0

\* A version on its way through the compiler, or with its record written.
UnderWay(v) == (\E n \in notices : n[2] = v) \/ (\E j \in jobs : j[1] = v)
Live(v) == UnderWay(v) \/ docs[v] # {}

\* From the served version upwards nothing that a version needs is missing.
Shelf(v) ==
    /\ client[v] # "new" => v \in configs
    /\ client[v] = "assets" \/ Live(v) => v \in assets
    /\ \A r \in Runtimes :
         <<"compiled", v, r>> \in notices \/ r \in docs[v] => <<v, r>> \in compiled

Shelves == \A v \in Version : v >= Floor => Shelf(v)

\* Only a client that is done has set the compiler to work, and a version whose
\* upload is a day old is not on its way any more.
Intake ==
    /\ client \in [Version -> {"new", "granted", "assets", "done", "failed"}]
    /\ docs \in [Version -> SUBSET Runtimes]
    /\ configs \subseteq Version /\ assets \subseteq Version
    /\ originals \subseteq Version /\ aged \subseteq Version /\ gc.now.aged \subseteq Version
    /\ \A v \in Version : Live(v) \/ v \in originals \cup aged \cup gc.now.aged => client[v] = "done"
    /\ \A v \in aged \cup gc.now.aged : ~UnderWay(v)

\* What the prune task is about to delete lies below the served version.
Bounded(t, floor) == t.v <= floor /\ \A u \in t.todo : u < floor
Pruning == task \in [Slots -> Tasks] /\ \A s \in Slots : Bounded(task[s], Floor)

\* What the collector is about to delete lies below it too, or was abandoned.
Collecting ==
    /\ gc = [pc |-> gc.pc, now |-> gc.now, latest |-> gc.latest, pending |-> gc.pending,
             todo |-> gc.todo, objs |-> gc.objs]
    /\ gc.latest \in 0..MaxVersion /\ gc.latest <= Floor /\ gc.todo \subseteq Version
    /\ gc.pc = "doc" => gc.todo # {}
    /\ gc.pc \in {"objects", "doc"} => \A u \in gc.todo : u < Floor
    /\ gc.pc = "orphan" => gc.todo \subseteq gc.now.aged

\* What is served, or about to be, has its record.
ServedRecorded ==
    entry # NoDoc => \A v \in {entry.code, entry.pending} \ {0} : docs[v] # {}

\* The inductive invariant.
Deploying == EntrySound /\ Shelves /\ Intake /\ Pruning /\ Collecting /\ ServedRecorded

-----------------------------------------------------------------------------
(* Operators.                                                               *)

LEMMA MinIsMember ==
  ASSUME NEW S \in SUBSET Version, S # {}
  PROVE  Min(S) \in S
  <1>1. S \subseteq Nat
    BY DeploymentAssumption DEF Version
  <1>2. PICK x \in S : \A y \in S : ~(<<y, x>> \in OpToRel(<, Nat))
    BY <1>1, NatLessThanWellFounded, WFMin, ZenonT(60)
  <1>3. ASSUME NEW y \in S PROVE x <= y
    <2>1. x \in Nat /\ y \in Nat
      BY <1>1
    <2>2. y < x => <<y, x>> \in OpToRel(<, Nat)
      BY <2>1 DEF OpToRel
    <2>3. ~(y < x)
      BY <1>2, <2>2, ZenonT(60)
    <2> QED BY <2>1, <2>3
  <1> QED BY <1>3 DEF Min

LEMMA PrunableBelow ==
  ASSUME NEW S, NEW a, NEW v \in Prunable(S, a)
  PROVE  v \in S /\ v < a
  BY DEF Prunable

-----------------------------------------------------------------------------
(* The manifest's entry.                                                    *)

Advances == entry # NoDoc => entry' # NoDoc /\ entry'.code >= entry.code

LEMMA EntryStays ==
  ASSUME EntrySound, entry' = entry
  PROVE  EntrySound' /\ Advances
  BY DeploymentAssumption DEF EntrySound, Manifest, Advances

LEMMA EntryMoves ==
  ASSUME EntrySound, NEW e \in Manifest, entry' = e,
         IF e.st = "PRE_PURGE" THEN e.pending # 0 /\ e.code <= e.pending ELSE e.pending = 0,
         entry # NoDoc => e.code >= entry.code
  PROVE  EntrySound' /\ Advances
  BY DeploymentAssumption DEF EntrySound, Advances

LEMMA BundleCompiledEntry ==
  ASSUME EntrySound, NEW v \in Version, NEW r \in Runtimes, BundleCompiled(v, r)
  PROVE  EntrySound' /\ Advances
  BY DeploymentAssumption, EntryMoves, EntryStays DEF BundleCompiled, Bump, EntrySound, Version,
     Superseded, Manifest, Supersedes

LEMMA DomainSetEntry ==
  ASSUME EntrySound, DomainSet
  PROVE  EntrySound' /\ Advances
  BY EntryStays, DeploymentAssumption, EntryMoves DEF DomainSet, Bump, Manifest

LEMMA ActivationEntry ==
  ASSUME EntrySound, NEW s \in Slots, ActivationStep(s)
  PROVE  EntrySound' /\ Advances
  <1>1. CASE entry' = entry
    BY <1>1, EntryStays
  <1>2. CASE SetActivating(s) /\ entry' # entry
    BY <1>2, DeploymentAssumption, EntryMoves DEF SetActivating, Bump, EntrySound, Manifest
  <1>3. CASE SetActive(s) /\ entry' # entry
    BY <1>3, DeploymentAssumption, EntryMoves DEF SetActive, Bump, EntrySound, Manifest
  <1> QED BY <1>1, <1>2, <1>3, ZenonT(60)
       DEF ActivationStep, ActivationBegin, PurgeUserZone, ActivationCheck, ActivationTail

\* Every other step leaves the manifest alone.
LEMMA EntryLeftAlone ==
  ASSUME \/ UNCHANGED vars
         \/ \E v \in Version :
              \/ Deploy(v) \/ UploadAssets(v) \/ UploadBundle(v) \/ BundleUploaded(v)
              \/ \E r \in Runtimes : Compile(v, r)
         \/ \E n \in Notice : LoseNotice(n)
         \/ PromotePendingRuntime \/ \E r \in Runtimes : SetPendingRuntime(r)
         \/ \E s \in Slots :
              (\E m \in Message : Start(s, m)) \/ PruneStep(s) \/ Redeliver(s) \/ Die(s)
         \/ Gc \/ MinutePasses \/ DayPasses
         \/ \E w \in Workers :
              Poll(w) \/ FetchBegin(w) \/ FetchEnd(w) \/ Evict(w) \/ ServeStatic(w)
  PROVE  entry' = entry
  <1>1. CASE UNCHANGED vars
    BY <1>1 DEF vars
  <1>2. CASE \/ \E v \in Version :
                  \/ Deploy(v) \/ UploadAssets(v) \/ UploadBundle(v) \/ BundleUploaded(v)
                  \/ \E r \in Runtimes : Compile(v, r)
             \/ \E n \in Notice : LoseNotice(n)
             \/ PromotePendingRuntime \/ \E r \in Runtimes : SetPendingRuntime(r)
    BY <1>2, ZenonT(60) DEF Deploy, UploadAssets, UploadBundle, BundleUploaded, Compile, LoseNotice,
                PromotePendingRuntime, SetPendingRuntime
  <1>3. CASE \E s \in Slots :
               (\E m \in Message : Start(s, m)) \/ PruneStep(s) \/ Redeliver(s) \/ Die(s)
    BY <1>3, ZenonT(60) DEF Start, PruneStep, PruneBegin, PruneConfig, PruneCheck, PruneAssets, Redeliver, Die
  <1>4. CASE Gc \/ MinutePasses \/ DayPasses
    BY <1>4, ZenonT(60) DEF Gc, GcStart, GcScan, GcObjects, GcDoc, GcAssets, GcListOrphans, GcOrphan, GcEnd,
                gcUnchanged, MinutePasses, DayPasses
  <1>5. CASE \E w \in Workers :
               Poll(w) \/ FetchBegin(w) \/ FetchEnd(w) \/ Evict(w) \/ ServeStatic(w)
    BY <1>5 DEF Poll, FetchBegin, FetchEnd, Evict, ServeStatic, workerUnchanged
  <1> QED BY <1>1, <1>2, <1>3, <1>4, <1>5

LEMMA NextEntry == EntrySound /\ [Next]_vars => EntrySound' /\ Advances
  BY EntryLeftAlone, EntryStays, BundleCompiledEntry, DomainSetEntry, ActivationEntry DEF Next

LEMMA EntryHolds == Spec => []EntrySound
  <1>1. Init => EntrySound
    BY DEF Init, EntrySound
  <1> QED BY <1>1, NextEntry, PTL DEF Spec

\* The version a project serves never goes back: whatever the order in which
\* bundles are compiled, their notices repeated and activation messages
\* delivered, and however many tasks, runtimes and versions there are
\* (bundle_compiled, set_activating, domain_set).
THEOREM VersionsAdvanceHolds == Spec => VersionsAdvance
  <1>1. EntrySound /\ [Next]_vars
          => [entry # NoDoc => entry' # NoDoc /\ entry'.code >= entry.code]_vars
    BY NextEntry DEF Advances
  <1> QED BY <1>1, EntryHolds, PTL DEF Spec, VersionsAdvance

-----------------------------------------------------------------------------
(* What is about to be deleted.                                             *)

LEMMA FloorRises ==
  ASSUME EntrySound, EntrySound', Advances
  PROVE  Floor \in 0..MaxVersion /\ Floor' \in 0..MaxVersion /\ Floor <= Floor'
  BY DeploymentAssumption DEF Manifest, EntrySound, Floor, Advances

LEMMA BoundedAbove ==
  ASSUME NEW t \in Tasks, NEW f \in 0..MaxVersion, NEW g \in 0..MaxVersion, f <= g, Bounded(t, f)
  PROVE  Bounded(t, g)
  BY DeploymentAssumption DEF Tasks, Bounded, Version

LEMMA TaskMoves ==
  ASSUME Pruning, EntrySound, EntrySound', Advances, NEW s \in Slots, NEW t \in Tasks,
         Bounded(t, Floor), task' = [task EXCEPT ![s] = t]
  PROVE  Pruning'
  BY FloorRises, BoundedAbove DEF Pruning

LEMMA TasksStay ==
  ASSUME Pruning, EntrySound, EntrySound', Advances, task' = task
  PROVE  Pruning'
  BY FloorRises, BoundedAbove DEF Pruning

LEMMA IdleBounded ==
  ASSUME EntrySound
  PROVE  IdleTask \in Tasks /\ Bounded(IdleTask, Floor)
  BY DeploymentAssumption DEF IdleTask, Tasks, EntrySound, Floor, Manifest, Bounded

\* A step of a task that only moves its counter, or lets its message go.
LEMMA TaskGoes ==
  ASSUME Pruning, EntrySound, EntrySound', Advances, NEW s \in Slots,
         \/ task' = [task EXCEPT ![s] = IdleTask]
         \/ \E pc \in {"purge", "set", "check", "purge_again", "activate", "tail"} :
              task' = [task EXCEPT ![s].pc = pc]
         \/ task' = [task EXCEPT ![s].held = FALSE]
  PROVE  Pruning'
  <1>1. task \in [Slots -> Tasks] /\ task[s] \in Tasks /\ Bounded(task[s], Floor)
    BY DEF Pruning
  <1>2. CASE task' = [task EXCEPT ![s] = IdleTask]
    BY <1>2, IdleBounded, TaskMoves, ZenonT(60)
  <1>3. ASSUME NEW pc \in {"purge", "set", "check", "purge_again", "activate", "tail"},
               task' = [task EXCEPT ![s].pc = pc]
        PROVE  Pruning'
    BY <1>1, <1>3, TaskMoves, ZenonT(60) DEF Tasks, Bounded
  <1>4. CASE task' = [task EXCEPT ![s].held = FALSE]
    BY <1>1, <1>4, TaskMoves, ZenonT(60) DEF Tasks, Bounded
  <1> QED BY <1>2, <1>3, <1>4

LEMMA StartPruning ==
  ASSUME Pruning, EntrySound, EntrySound', Advances, NEW s \in Slots, NEW m \in Message,
         Start(s, m)
  PROVE  Pruning'
  BY IdleBounded, TaskMoves, ZenonT(60) DEF Start, Tasks, Bounded

\* The tasks of a prune: what they list lies below the version they went by.
LEMMA PrunePruning ==
  ASSUME Pruning, EntrySound, EntrySound', Advances, NEW s \in Slots, PruneStep(s),
         configs \subseteq Version, assets \subseteq Version
  PROVE  Pruning'
  <1>1. task \in [Slots -> Tasks] /\ task[s] \in Tasks /\ Bounded(task[s], Floor)
    BY DEF Pruning
  <1>2. Floor \in 0..MaxVersion
    BY FloorRises
  <1>3. CASE Acked(s)
    BY <1>3, TaskGoes, ZenonT(60) DEF Acked
  <1>4. ASSUME NEW T, T \subseteq task[s].todo, task' = [task EXCEPT ![s].todo = T]
        PROVE  Pruning'
    BY <1>1, <1>4, TaskMoves, ZenonT(60) DEF Tasks, Bounded
  <1>5. CASE PruneBegin(s) /\ ~Acked(s)
    <2> DEFINE T == Prunable(configs, entry.code)
               t1 == [task[s] EXCEPT !.pc = "configs"]
               t2 == [t1 EXCEPT !.v = entry.code]
               t == [t2 EXCEPT !.todo = T]
    <2>1. /\ entry # NoDoc
          /\ task' = [task EXCEPT ![s].pc = "configs", ![s].v = entry.code, ![s].todo = T]
      BY <1>5 DEF PruneBegin
    <2>2. entry.code = Floor
      BY <2>1 DEF Floor
    <2>3. T \subseteq Version /\ \A u \in T : u < Floor
      BY <2>2, PrunableBelow
    <2> HIDE DEF T
    <2>4. task' = [task EXCEPT ![s] = t]
      BY <1>1, <2>1, ZenonT(60)
    <2>5. t1 \in Tasks
      BY <1>1 DEF Tasks
    <2> HIDE DEF t1
    <2>6. t2 \in Tasks /\ t2.v = Floor
      BY <1>2, <2>2, <2>5 DEF Tasks
    <2> HIDE DEF t2
    <2>7. t \in Tasks /\ t.v = Floor /\ t.todo = T
      BY <2>3, <2>6 DEF Tasks
    <2> HIDE DEF t
    <2>8. Bounded(t, Floor)
      BY <1>2, <2>3, <2>7 DEF Bounded
    <2> QED BY <2>4, <2>7, <2>8, TaskMoves, ZenonT(60)
  <1>6. CASE PruneConfig(s)
    BY <1>6, <1>1, <1>4 DEF PruneConfig
  <1>7. CASE PruneCheck(s) /\ ~Acked(s)
    <2> DEFINE T == Prunable(assets, task[s].v)
               t1 == [task[s] EXCEPT !.pc = "assets"]
               t == [t1 EXCEPT !.todo = T]
    <2>1. task' = [task EXCEPT ![s].pc = "assets", ![s].todo = T]
      BY <1>7 DEF PruneCheck
    <2>2. task[s].v \in 0..MaxVersion /\ task[s].v <= Floor
      BY <1>1 DEF Tasks, Bounded
    <2>3. T \subseteq Version /\ \A u \in T : u < Floor
      <3>1. \A u \in T : u \in Version /\ u < task[s].v
        BY PrunableBelow
      <3> HIDE DEF T
      <3> QED BY <1>2, <2>2, <3>1, DeploymentAssumption DEF Version
    <2> HIDE DEF T
    <2>4. task' = [task EXCEPT ![s] = t]
      BY <1>1, <2>1, ZenonT(60)
    <2>5. t1 \in Tasks /\ t1.v = task[s].v
      BY <1>1 DEF Tasks
    <2> HIDE DEF t1
    <2>6. t \in Tasks /\ t.v = task[s].v /\ t.todo = T
      BY <2>3, <2>5 DEF Tasks
    <2> HIDE DEF t
    <2>7. Bounded(t, Floor)
      BY <2>2, <2>3, <2>6 DEF Bounded
    <2> QED BY <2>4, <2>6, <2>7, TaskMoves, ZenonT(60)
  <1>8. CASE PruneAssets(s) /\ ~Acked(s)
    BY <1>8, <1>1, <1>4 DEF PruneAssets
  <1> QED BY <1>3, <1>5, <1>6, <1>7, <1>8 DEF PruneStep

LEMMA NextPruning ==
  ASSUME Pruning, Intake, EntrySound, EntrySound', Advances, [Next]_vars
  PROVE  Pruning'
  <1>1. CASE UNCHANGED vars
    BY <1>1, TasksStay DEF vars
  <1>2. CASE task' = task
    BY <1>2, TasksStay
  <1>3. ASSUME NEW s \in Slots, NEW m \in Message, Start(s, m) PROVE Pruning'
    BY <1>3, StartPruning
  <1>4. ASSUME NEW s \in Slots, ActivationStep(s) PROVE Pruning'
    <2>1. \/ task' = [task EXCEPT ![s] = IdleTask]
          \/ \E pc \in {"purge", "set", "check", "purge_again", "activate", "tail"} :
               task' = [task EXCEPT ![s].pc = pc]
      BY <1>4, ZenonT(60) DEF ActivationStep, ActivationBegin, PurgeUserZone, SetActivating, ActivationCheck,
                  SetActive, ActivationTail, ActivationStage, Goes, Acked
    <2> QED BY <2>1, TaskGoes
  <1>5. ASSUME NEW s \in Slots, PruneStep(s) PROVE Pruning'
    BY <1>5, PrunePruning DEF Intake
  <1>6. ASSUME NEW s \in Slots, Redeliver(s) \/ Die(s) PROVE Pruning'
    BY <1>6, TaskGoes DEF Redeliver, Die
  <1>7. CASE \/ \E v \in Version :
                  \/ Deploy(v) \/ UploadAssets(v) \/ UploadBundle(v) \/ BundleUploaded(v)
                  \/ \E r \in Runtimes : Compile(v, r) \/ BundleCompiled(v, r)
             \/ \E n \in Notice : LoseNotice(n)
             \/ DomainSet \/ PromotePendingRuntime \/ \E r \in Runtimes : SetPendingRuntime(r)
    BY <1>2, <1>7, ZenonT(60) DEF Deploy, UploadAssets, UploadBundle, BundleUploaded, Compile, BundleCompiled,
                      LoseNotice, DomainSet, PromotePendingRuntime, SetPendingRuntime
  <1>8. CASE Gc \/ MinutePasses \/ DayPasses
    BY <1>2, <1>8 DEF Gc, GcStart, GcScan, GcObjects, GcDoc, GcAssets, GcListOrphans, GcOrphan,
                      GcEnd, gcUnchanged, MinutePasses, DayPasses
  <1>9. CASE \E w \in Workers :
               Poll(w) \/ FetchBegin(w) \/ FetchEnd(w) \/ Evict(w) \/ ServeStatic(w)
    BY <1>2, <1>9 DEF Poll, FetchBegin, FetchEnd, Evict, ServeStatic, workerUnchanged
  <1>10. CASE Next
    BY <1>3, <1>4, <1>5, <1>6, <1>7, <1>8, <1>9, <1>10, ZenonT(60) DEF Next
  <1> QED BY <1>1, <1>10

LEMMA PassStays ==
  ASSUME Collecting, EntrySound, EntrySound', Advances, gc' = gc
  PROVE  Collecting'
  BY FloorRises, DeploymentAssumption DEF Collecting, Version

\* The collector's pass: everything it goes by was true when it was read, and
\* the served version has not gone back since.
LEMMA GcCollecting ==
  ASSUME Collecting, Intake, EntrySound, EntrySound', Advances, Gc
  PROVE  Collecting'
  <1>1. Floor \in 0..MaxVersion /\ Floor' = Floor
    BY FloorRises, EntryLeftAlone DEF Floor
  <1>2. /\ gc = [pc |-> gc.pc, now |-> gc.now, latest |-> gc.latest, pending |-> gc.pending,
                 todo |-> gc.todo, objs |-> gc.objs]
        /\ gc.latest \in 0..MaxVersion /\ gc.latest <= Floor /\ gc.todo \subseteq Version
    BY DEF Collecting
  <1>3. ASSUME NEW pc \in {"idle", "scan", "objects", "doc", "orphans", "orphan"}, NEW now,
               NEW latest \in 0..MaxVersion, NEW pending, NEW todo \in SUBSET Version, NEW objs,
               gc' = [pc |-> pc, now |-> now, latest |-> latest, pending |-> pending,
                      todo |-> todo, objs |-> objs],
               latest <= Floor, pc = "doc" => todo # {},
               pc \in {"objects", "doc"} => \A u \in todo : u < Floor,
               pc = "orphan" => todo \subseteq now.aged
        PROVE  Collecting'
    BY <1>1, <1>3 DEF Collecting
  <1>4. CASE GcStart
    <2>1. gc' = [pc |-> "scan", now |-> [age |-> age, aged |-> aged], latest |-> 0,
                 pending |-> runtime.pending, todo |-> {}, objs |-> {}]
      BY <1>4, ZenonT(60) DEF GcStart, IdleGc
    <2> QED BY <1>1, <1>3, <2>1, DeploymentAssumption
  <1>5. CASE GcScan
    <2> DEFINE latest == IF entry = NoDoc THEN 0 ELSE entry.code
               todo == Stale(latest, gc.pending)
               objs == {c \in todo \X Runtimes : c[2] \in docs[c[1]]}
    <2>1. \/ gc' = [gc EXCEPT !.pc = "orphans"]
          \/ \E l \in {0, latest} :
               gc' = [gc EXCEPT !.pc = "objects", !.latest = l, !.todo = todo, !.objs = objs]
      BY <1>5, ZenonT(60) DEF GcScan
    <2>2. latest = Floor
      BY DEF Floor
    <2>3. todo \in SUBSET Version /\ \A u \in todo : u < Floor
      BY <2>2 DEF Stale
    <2> HIDE DEF latest, todo, objs
    <2>4. CASE gc' = [gc EXCEPT !.pc = "orphans"]
      BY <1>2, <2>4, <1>3
    <2>5. ASSUME NEW l \in {0, latest},
                 gc' = [gc EXCEPT !.pc = "objects", !.latest = l, !.todo = todo, !.objs = objs]
          PROVE  Collecting'
      <3>1. gc' = [pc |-> "objects", now |-> gc.now, latest |-> l, pending |-> gc.pending,
                   todo |-> todo, objs |-> objs]
        BY <1>2, <2>5, ZenonT(60)
      <3>2. l \in 0..MaxVersion /\ l <= Floor
        BY <1>1, <2>2, DeploymentAssumption
      <3> QED BY <1>3, <2>3, <3>1, <3>2
    <2> QED BY <2>1, <2>4, <2>5
  <1>6. CASE GcObjects
    BY <1>2, <1>6, <1>3 DEF GcObjects, Collecting
  <1>7. CASE GcDoc
    <2>1. /\ gc.pc = "doc"
          /\ gc' = [pc |-> "objects", now |-> gc.now, latest |-> gc.latest,
                    pending |-> gc.pending, todo |-> gc.todo \ {Min(gc.todo)}, objs |-> gc.objs]
      BY <1>2, <1>7, ZenonT(60) DEF GcDoc
    <2>2. \A u \in gc.todo : u < Floor
      BY <2>1 DEF Collecting
    <2> QED BY <1>2, <1>3, <2>1, <2>2
  <1>8. CASE GcAssets
    <2>1. gc' = [pc |-> "orphans", now |-> gc.now, latest |-> gc.latest,
                 pending |-> gc.pending, todo |-> gc.todo, objs |-> {}]
      BY <1>2, <1>8, ZenonT(60) DEF GcAssets
    <2> QED BY <1>2, <1>3, <2>1
  <1>9. CASE GcListOrphans
    <2> DEFINE todo == {v \in originals \cap gc.now.aged : \A c \in compiled : c[1] # v}
    <2>1. gc' = [pc |-> "orphan", now |-> gc.now, latest |-> gc.latest,
                 pending |-> gc.pending, todo |-> todo, objs |-> gc.objs]
      BY <1>2, <1>9, ZenonT(60) DEF GcListOrphans
    <2>2. todo \in SUBSET Version /\ todo \subseteq gc.now.aged
      BY DEF Intake
    <2> HIDE DEF todo
    <2> QED BY <1>2, <1>3, <2>1, <2>2
  <1>10. CASE GcOrphan
    <2>1. /\ gc.pc = "orphan"
          /\ gc' = [pc |-> "orphan", now |-> gc.now, latest |-> gc.latest,
                    pending |-> gc.pending, todo |-> gc.todo \ {Min(gc.todo)}, objs |-> gc.objs]
      BY <1>2, <1>10 DEF GcOrphan
    <2>2. gc.todo \subseteq gc.now.aged
      BY <2>1 DEF Collecting
    <2> QED BY <1>2, <1>3, <2>1, <2>2
  <1>11. CASE GcEnd
    BY <1>11, <1>1, <1>3, DeploymentAssumption DEF GcEnd, IdleGc
  <1> QED BY <1>4, <1>5, <1>6, <1>7, <1>8, <1>9, <1>10, <1>11 DEF Gc

-----------------------------------------------------------------------------
(* What is there.                                                           *)

stock == <<client, configs, assets, originals, compiled, docs, aged, notices, jobs>>

LEMMA StockStays ==
  ASSUME Shelves, Intake, ServedRecorded, EntrySound, EntrySound', Advances, UNCHANGED stock,
         gc' = gc
  PROVE  Shelves' /\ Intake'
  <1>1. Floor \in 0..MaxVersion /\ Floor' \in 0..MaxVersion /\ Floor <= Floor'
    BY FloorRises
  <1>2. ASSUME NEW v \in Version, v >= Floor' PROVE Shelf(v)'
    BY <1>1, <1>2, DeploymentAssumption DEF Version, Shelves, Shelf, Live, UnderWay, stock
  <1>3. Shelves'
    BY <1>2 DEF Shelves
  <1>4. Intake'
    BY DEF Intake, Live, UnderWay, stock
  <1> QED BY <1>3, <1>4

\* The owner's side: a version's things are put on the shelf before it goes on.
LEMMA ClientHolds ==
  ASSUME Shelves, Intake, NEW v \in Version,
         Deploy(v) \/ UploadAssets(v) \/ UploadBundle(v)
  PROVE  Shelves' /\ Intake'
  <1>1. Floor' = Floor /\ UNCHANGED <<docs, jobs, compiled, aged, gc>>
    BY DEF Deploy, UploadAssets, UploadBundle, Floor
  <1>2. /\ client \in [Version -> {"new", "granted", "assets", "done", "failed"}]
        /\ Live(v) \/ v \in originals \cup aged \cup gc.now.aged => client[v] = "done"
    BY DEF Intake
  <1>3. CASE Deploy(v)
    BY <1>3, <1>2, <1>1 DEF Deploy, Live, UnderWay, Shelves, Shelf, Intake
  <1>4. CASE UploadAssets(v)
    BY <1>4, <1>2, <1>1 DEF UploadAssets, Live, UnderWay, Shelves, Shelf, Intake
  <1>5. CASE UploadBundle(v)
    <2>1. /\ client[v] = "assets" /\ client' = [client EXCEPT ![v] = "done"]
          /\ originals' = originals \cup {v} /\ UNCHANGED <<configs, assets>>
          /\ notices' = notices \cup {<<"uploaded", v, NoRuntime>>}
      BY <1>5 DEF UploadBundle
    <2>2. \A u \in Version : client'[u] = IF u = v THEN "done" ELSE client[u]
      BY <1>2, <2>1
    <2>3. \A u \in Version : u # v => (Live(u)' <=> Live(u)) /\ (UnderWay(u)' <=> UnderWay(u))
      BY <1>1, <2>1 DEF Live, UnderWay
    <2>4. \A u \in Version, r \in Runtimes :
            <<"compiled", u, r>> \in notices' <=> <<"compiled", u, r>> \in notices
      BY <2>1
    <2>5. Shelves'
      BY <1>1, <1>2, <2>1, <2>2, <2>3, <2>4 DEF Shelves, Shelf
    <2>6. Intake'
      <3>1. v \notin aged \cup gc.now.aged
        BY <1>2, <2>1
      <3> QED BY <1>1, <1>2, <2>1, <2>2, <2>3, <3>1 DEF Intake
    <2> QED BY <2>5, <2>6
  <1> QED BY <1>3, <1>4, <1>5

\* The compiler's side, up to its notices.
LEMMA CompilerHolds ==
  ASSUME Shelves, Intake, NEW v \in Version,
         BundleUploaded(v) \/ \E r \in Runtimes : Compile(v, r)
  PROVE  Shelves' /\ Intake'
  <1>1. Floor' = Floor /\ UNCHANGED <<client, configs, assets, originals, docs, aged, gc>>
    BY ZenonT(60) DEF BundleUploaded, Compile, Floor, stores
  <1>2. \A u \in Version : UnderWay(u)' => UnderWay(u)
    <2>1. CASE BundleUploaded(v)
      BY <2>1 DEF BundleUploaded, Noticed, Dropped, UnderWay
    <2>2. ASSUME NEW r \in Runtimes, Compile(v, r)
          PROVE  \A u \in Version : UnderWay(u)' => UnderWay(u)
      BY <2>2 DEF Compile, UnderWay
    <2> QED BY <2>1, <2>2
  <1>3. \A u \in Version : Live(u)' => Live(u)
    BY <1>1, <1>2 DEF Live
  <1>4. \A u \in Version, q \in Runtimes :
          /\ <<u, q>> \in compiled => <<u, q>> \in compiled'
          /\ <<"compiled", u, q>> \in notices' =>
               <<"compiled", u, q>> \in notices \/ <<u, q>> \in compiled'
    <2>1. CASE BundleUploaded(v)
      BY <2>1 DEF BundleUploaded, Noticed, Dropped, stores
    <2>2. ASSUME NEW r \in Runtimes, Compile(v, r)
          PROVE  \A u \in Version, q \in Runtimes :
                   /\ <<u, q>> \in compiled => <<u, q>> \in compiled'
                   /\ <<"compiled", u, q>> \in notices' =>
                        <<"compiled", u, q>> \in notices \/ <<u, q>> \in compiled'
      BY <2>2 DEF Compile
    <2> QED BY <2>1, <2>2, ZenonT(60)
  <1>5. Shelves'
    BY <1>1, <1>3, <1>4 DEF Shelves, Shelf
  <1>6. Intake'
    BY <1>1, <1>2, <1>3 DEF Intake
  <1> QED BY <1>5, <1>6

LEMMA LoseNoticeHolds ==
  ASSUME Shelves, Intake, NEW n \in Notice, LoseNotice(n)
  PROVE  Shelves' /\ Intake'
  BY DEF LoseNotice, Dropped, Floor, stores, Live, UnderWay, Shelves, Shelf, Intake

\* bundle_compiled: a version is recorded and made pending only after its things
\* are on the shelf, and while the version is on its way nothing collects it.
LEMMA BundleCompiledHolds ==
  ASSUME Shelves, Intake, ServedRecorded, EntrySound, EntrySound', Advances,
         NEW v \in Version, NEW r \in Runtimes, BundleCompiled(v, r)
  PROVE  Shelves' /\ Intake' /\ ServedRecorded'
  <1>1. Floor \in 0..MaxVersion /\ Floor' \in 0..MaxVersion /\ Floor <= Floor'
    BY FloorRises
  <1>2. /\ <<"compiled", v, r>> \in notices /\ notices' \subseteq notices
        /\ docs' = [docs EXCEPT ![v] = @ \cup {r}]
        /\ UNCHANGED <<client, configs, assets, originals, compiled, aged, jobs, gc>>
    BY DEF BundleCompiled, Noticed, Dropped
  <1>3. /\ docs \in [Version -> SUBSET Runtimes] /\ docs' \in [Version -> SUBSET Runtimes]
        /\ \A u \in Version : docs'[u] = IF u = v THEN docs[u] \cup {r} ELSE docs[u]
    BY <1>2, ZenonT(60) DEF Intake
  <1>4. UnderWay(v)
    BY <1>2 DEF UnderWay
  <1>5. \A u \in Version : (UnderWay(u)' => UnderWay(u)) /\ (Live(u)' => Live(u))
    BY <1>2, <1>3, <1>4 DEF Live, UnderWay
  <1>6. Shelves'
    <2> SUFFICES ASSUME NEW u \in Version, u >= Floor' PROVE Shelf(u)'
      BY DEF Shelves
    <2>1. u >= Floor
      BY <1>1, DeploymentAssumption DEF Version
    <2>2. Shelf(u)
      BY <2>1 DEF Shelves
    <2>3. ASSUME NEW q \in Runtimes, <<"compiled", u, q>> \in notices' \/ q \in docs'[u]
          PROVE  <<u, q>> \in compiled'
      <3>1. <<"compiled", u, q>> \in notices \/ q \in docs[u]
        BY <1>2, <1>3, <2>3
      <3> QED BY <1>2, <2>2, <3>1 DEF Shelf
    <2> QED BY <1>2, <1>5, <2>2, <2>3 DEF Shelf
  <1>7. Intake'
    BY <1>2, <1>3, <1>5 DEF Intake
  <1>8. ServedRecorded'
    BY DeploymentAssumption, <1>3 DEF ServedRecorded, EntrySound, Manifest, Version, Superseded,
       BundleCompiled, Bump
  <1> QED BY <1>6, <1>7, <1>8

\* A version from the served one upwards has its record below no deletion.
LEMMA RecordsStay ==
  ASSUME ServedRecorded, EntrySound, entry' = entry,
         \A u \in Version : u >= Floor => docs'[u] = docs[u]
  PROVE  ServedRecorded'
  BY DeploymentAssumption DEF ServedRecorded, EntrySound, Floor, Manifest, Version

\* Deletions below the served version leave the shelves above alone.
LEMMA DeletionBelow ==
  ASSUME Shelves, Intake, Floor' = Floor,
         configs' \subseteq configs, assets' \subseteq assets, originals' \subseteq originals,
         docs' \in [Version -> SUBSET Runtimes], \A u \in Version : docs'[u] \subseteq docs[u],
         \A u \in Version : u >= Floor =>
           /\ u \in configs => u \in configs'
           /\ u \in assets => u \in assets'
           /\ \A r \in Runtimes : <<u, r>> \in compiled => <<u, r>> \in compiled'
           /\ docs'[u] = docs[u],
         gc'.now = gc.now, UNCHANGED <<client, aged, notices, jobs>>
  PROVE  Shelves' /\ Intake'
  BY DEF Live, UnderWay, Shelves, Shelf, Intake

LEMMA PruneHolds ==
  ASSUME Shelves, Intake, ServedRecorded, EntrySound, EntrySound', Advances, Pruning,
         NEW s \in Slots, PruneStep(s)
  PROVE  Shelves' /\ Intake' /\ ServedRecorded'
  <1>1. entry' = entry /\ Floor' = Floor /\ Floor \in 0..MaxVersion /\ gc' = gc /\ docs' = docs
    BY FloorRises DEF PruneStep, PruneBegin, PruneConfig, PruneCheck, PruneAssets, Floor, stores
  <1>2. ServedRecorded'
    BY <1>1, RecordsStay
  <1>3. CASE UNCHANGED stock
    BY <1>1, <1>2, <1>3, StockStays
  <1>4. CASE (PruneConfig(s) \/ PruneAssets(s)) /\ ~UNCHANGED stock
    <2> DEFINE v == Min(task[s].todo)
    <2>1. /\ task[s].todo # {} /\ UNCHANGED <<client, originals, compiled, docs, aged, notices, jobs>>
          /\ \/ configs' = configs \ {v} /\ assets' = assets
             \/ assets' = assets \ {v} /\ configs' = configs
      BY <1>4 DEF PruneConfig, PruneAssets, stock, intake, Acked
    <2>2. task[s].todo \in SUBSET Version /\ \A u \in task[s].todo : u < Floor
      BY DEF Pruning, Tasks, Bounded
    <2>3. v \in Version /\ v < Floor
      BY <2>1, <2>2, MinIsMember
    <2> HIDE DEF v
    <2>4. \A u \in Version : u >= Floor => u # v
      BY <1>1, <2>3, DeploymentAssumption DEF Version
    <2>5. Shelves' /\ Intake'
      BY <1>1, <2>1, <2>4, DeletionBelow, ZenonT(60) DEF Intake
    <2> QED BY <1>2, <2>5
  <1>5. CASE PruneBegin(s) \/ PruneCheck(s)
    BY <1>3, <1>5 DEF PruneBegin, PruneCheck, stock, stores, intake
  <1> QED BY <1>3, <1>4, <1>5 DEF PruneStep

\* bundle_gc, which deletes below the served version and what was abandoned.
LEMMA GcHolds ==
  ASSUME Shelves, Intake, ServedRecorded, EntrySound, EntrySound', Advances, Collecting, Gc
  PROVE  Shelves' /\ Intake' /\ ServedRecorded'
  <1>1. entry' = entry /\ Floor' = Floor /\ Floor \in 0..MaxVersion
    BY FloorRises, EntryLeftAlone DEF Floor
  <1>2. /\ gc = [pc |-> gc.pc, now |-> gc.now, latest |-> gc.latest, pending |-> gc.pending,
                 todo |-> gc.todo, objs |-> gc.objs]
        /\ gc.latest \in 0..MaxVersion /\ gc.latest <= Floor /\ gc.todo \subseteq Version
    BY DEF Collecting
  <1>3. UNCHANGED <<client, notices, jobs, aged>>
    BY DEF Gc, GcStart, GcScan, GcObjects, GcDoc, GcAssets, GcListOrphans, GcOrphan, GcEnd,
           gcUnchanged, intake, stores
  <1>4. ASSUME UNCHANGED stock, gc'.now.aged \in {gc.now.aged, aged, {}}
        PROVE  Shelves' /\ Intake' /\ ServedRecorded'
    BY <1>4, <1>1, RecordsStay DEF Live, UnderWay, stock, Shelves, Shelf, Intake
  <1>5. CASE GcStart
    BY <1>5, <1>4 DEF GcStart, IdleGc, gcUnchanged, intake, stores, stock
  <1>6. CASE GcScan \/ GcListOrphans
    BY <1>2, <1>6, <1>4, ZenonT(60) DEF GcScan, GcListOrphans, gcUnchanged, intake, stores,
       stock
  <1>7. CASE GcEnd
    BY <1>7, <1>4 DEF GcEnd, IdleGc, NoTime, gcUnchanged, intake, stores, stock
  <1>8. CASE GcObjects \/ GcDoc
    <2> DEFINE v == Min(gc.todo)
    <2>1. gc.todo # {} /\ \A u \in gc.todo : u < Floor
      BY <1>8 DEF Collecting, GcObjects, GcDoc
    <2>2. v \in Version /\ v < Floor
      BY <1>2, <2>1, MinIsMember
    <2>3. /\ UNCHANGED <<configs, assets>> /\ gc'.now = gc.now /\ originals' \subseteq originals
          /\ \/ docs' = docs /\ compiled' = {c \in compiled : ~(c[1] = v /\ c \in gc.objs)}
             \/ docs' = [docs EXCEPT ![v] = {}] /\ compiled' = compiled
      BY <1>2, <1>8, ZenonT(60) DEF GcObjects, GcDoc
    <2> HIDE DEF v
    <2>4. \A u \in Version : u >= Floor => u # v
      BY <1>1, <2>2, DeploymentAssumption DEF Version
    <2>5. /\ docs \in [Version -> SUBSET Runtimes] /\ docs' \in [Version -> SUBSET Runtimes]
          /\ \A u \in Version : docs'[u] = docs[u] \/ (u = v /\ docs'[u] = {})
      BY <2>3 DEF Intake
    <2>6. \A u \in Version, r \in Runtimes :
            u # v /\ <<u, r>> \in compiled => <<u, r>> \in compiled'
      BY <2>3
    <2>7. Shelves' /\ Intake'
      BY <1>1, <1>3, <2>3, <2>4, <2>5, <2>6, DeletionBelow
    <2>8. ServedRecorded'
      BY <1>1, <2>4, <2>5, RecordsStay
    <2> QED BY <2>7, <2>8
  <1>9. CASE GcAssets
    <2>1. /\ assets' = {u \in assets : u >= gc.latest} /\ gc'.now = gc.now
          /\ UNCHANGED <<configs, originals, compiled, docs>>
      BY <1>2, <1>9 DEF GcAssets
    <2>2. \A u \in Version : u >= Floor => u >= gc.latest
      BY <1>1, <1>2, DeploymentAssumption DEF Version
    <2>3. Shelves' /\ Intake'
      BY <1>1, <1>3, <2>1, <2>2, DeletionBelow, ZenonT(60) DEF Intake
    <2>4. ServedRecorded'
      BY <1>1, <2>1, RecordsStay
    <2> QED BY <2>3, <2>4
  <1>10. CASE GcOrphan
    <2> DEFINE v == Min(gc.todo)
    <2>1. gc.todo # {} /\ gc.todo \subseteq gc.now.aged
      BY <1>10 DEF Collecting, GcOrphan
    <2>2. v \in Version /\ v \in gc.now.aged
      BY <1>2, <2>1, MinIsMember
    <2>3. /\ UNCHANGED <<configs, compiled, docs>> /\ gc'.now = gc.now
          /\ \/ docs[v] = {} /\ originals' = originals \ {v} /\ assets' = assets \ {v}
             \/ UNCHANGED <<originals, assets>>
      BY <1>2, <1>10 DEF GcOrphan
    <2> HIDE DEF v
    <2>4. CASE UNCHANGED <<originals, assets>>
      BY <1>3, <1>4, <2>3, <2>4 DEF stock
    <2>5. CASE docs[v] = {} /\ originals' = originals \ {v} /\ assets' = assets \ {v}
      <3>1. ~Live(v) /\ client[v] = "done"
        BY <2>2, <2>5 DEF Live, Intake
      <3>2. \A u \in Version : (UnderWay(u)' <=> UnderWay(u)) /\ (Live(u)' <=> Live(u))
        BY <1>3, <2>3 DEF Live, UnderWay
      <3>3. Shelves'
        <4> SUFFICES ASSUME NEW u \in Version, u >= Floor PROVE Shelf(u)'
          BY <1>1 DEF Shelves
        <4>1. Shelf(u)
          BY DEF Shelves
        <4> QED BY <1>3, <2>3, <2>5, <3>1, <3>2, <4>1 DEF Shelf
      <3>4. Intake'
        BY <1>3, <2>3, <2>5, <3>2, ZenonT(60) DEF Intake
      <3>5. ServedRecorded'
        BY <1>1, <2>3, RecordsStay
      <3> QED BY <3>3, <3>4, <3>5
    <2> QED BY <2>3, <2>4, <2>5
  <1> QED BY <1>5, <1>6, <1>7, <1>8, <1>9, <1>10 DEF Gc

\* The steps of the client, the compiler and the clock.
LEMMA DayPassesHolds ==
  ASSUME Shelves, Intake, DayPasses
  PROVE  Shelves' /\ Intake'
  BY ZenonT(60) DEF DayPasses, Floor, Live, UnderWay, Intake, Shelves, Shelf

\* Activation makes the pending version the served one.
LEMMA ActivationRecords ==
  ASSUME ServedRecorded, EntrySound, NEW s \in Slots, ActivationStep(s)
  PROVE  ServedRecorded'
  <1>1. docs' = docs
    BY ZenonT(60) DEF ActivationStep, ActivationBegin, PurgeUserZone, SetActivating,
           ActivationCheck, SetActive, ActivationTail, stores
  <1>2. CASE entry' = entry
    BY <1>1, <1>2 DEF ServedRecorded
  <1>3. CASE SetActivating(s) /\ entry' # entry
    BY <1>3, <1>1 DEF SetActivating, Bump, ServedRecorded
  <1>4. CASE SetActive(s) /\ entry' # entry
    BY <1>4, <1>1 DEF SetActive, Bump, EntrySound, Manifest, ServedRecorded
  <1> QED BY <1>2, <1>3, <1>4, ZenonT(60)
       DEF ActivationStep, ActivationBegin, PurgeUserZone, ActivationCheck, ActivationTail

LEMMA DomainSetRecords ==
  ASSUME ServedRecorded, DomainSet
  PROVE  ServedRecorded'
  BY DEF DomainSet, stores, ServedRecorded, Bump

-----------------------------------------------------------------------------
(* The whole invariant.                                                     *)

\* What is on the shelves, as one fact.
Stocked == Shelves /\ Intake /\ ServedRecorded

LEMMA IntakeHolds ==
  ASSUME Stocked, EntrySound, EntrySound', Advances,
         \/ \E v \in Version : Deploy(v) \/ UploadAssets(v) \/ UploadBundle(v) \/ BundleUploaded(v)
         \/ \E v \in Version, r \in Runtimes : Compile(v, r)
         \/ \E n \in Notice : LoseNotice(n)
         \/ DayPasses
  PROVE  Stocked' /\ gc' = gc
  <1>1. docs' = docs /\ entry' = entry /\ gc' = gc
    BY ZenonT(60) DEF Deploy, UploadAssets, UploadBundle, BundleUploaded, Compile, LoseNotice, DayPasses, stores
  <1>2. ServedRecorded'
    BY <1>1, RecordsStay DEF Stocked
  <1>3. Shelves' /\ Intake'
    BY ClientHolds, CompilerHolds, LoseNoticeHolds, DayPassesHolds, ZenonT(60) DEF Stocked
  <1> QED BY <1>1, <1>2, <1>3 DEF Stocked

\* Steps that touch no shelf.
LEMMA OthersHold ==
  ASSUME Stocked, EntrySound, EntrySound', Advances,
         \/ UNCHANGED vars
         \/ DomainSet \/ PromotePendingRuntime \/ \E r \in Runtimes : SetPendingRuntime(r)
         \/ \E s \in Slots : (\E m \in Message : Start(s, m)) \/ Redeliver(s) \/ Die(s)
         \/ \E s \in Slots : ActivationStep(s)
         \/ MinutePasses
         \/ \E w \in Workers :
              Poll(w) \/ FetchBegin(w) \/ FetchEnd(w) \/ Evict(w) \/ ServeStatic(w)
  PROVE  Stocked' /\ gc' = gc
  <1>1. UNCHANGED stock /\ gc' = gc
    <2>1. CASE UNCHANGED vars
      BY <2>1 DEF vars, stock, stores, intake
    <2>2. CASE \/ DomainSet \/ PromotePendingRuntime \/ \E r \in Runtimes : SetPendingRuntime(r)
               \/ MinutePasses
      BY <2>2, ZenonT(60) DEF DomainSet, PromotePendingRuntime, SetPendingRuntime, MinutePasses, stock, stores,
                  intake
    <2>3. CASE \E s \in Slots : (\E m \in Message : Start(s, m)) \/ Redeliver(s) \/ Die(s)
      BY <2>3, ZenonT(60) DEF Start, Redeliver, Die, stock, stores, intake
    <2>4. CASE \E s \in Slots : ActivationStep(s)
      BY <2>4, ZenonT(60) DEF ActivationStep, ActivationBegin, PurgeUserZone, SetActivating, ActivationCheck,
                  SetActive, ActivationTail, stock, stores, intake
    <2>5. CASE \E w \in Workers :
                 Poll(w) \/ FetchBegin(w) \/ FetchEnd(w) \/ Evict(w) \/ ServeStatic(w)
      BY <2>5, ZenonT(60) DEF Poll, FetchBegin, FetchEnd, Evict, ServeStatic, workerUnchanged, stock, stores,
                  intake
    <2> QED BY <2>1, <2>2, <2>3, <2>4, <2>5
  <1>2. Shelves' /\ Intake'
    BY <1>1, StockStays DEF Stocked
  <1>3. ServedRecorded'
    BY <1>1, DomainSetRecords, ActivationRecords, EntryLeftAlone, ZenonT(60) DEF ServedRecorded, stock,
       Stocked
  <1> QED BY <1>1, <1>2, <1>3 DEF Stocked

LEMMA InitDeploying == Init => Deploying
  <1> SUFFICES ASSUME Init PROVE Deploying
    OBVIOUS
  <1>1. EntrySound /\ ServedRecorded /\ Floor = 0
    BY DEF Init, EntrySound, ServedRecorded, Floor
  <1>2. \A v \in Version : ~UnderWay(v) /\ ~Live(v)
    BY ZenonT(60) DEF Init, UnderWay, Live
  <1>3. /\ gc = IdleGc
        /\ gc.now.aged = {} /\ gc.latest = 0 /\ gc.todo = {} /\ gc.pc = "idle"
    <2>1. gc = IdleGc
      BY ZenonT(60) DEF Init
    <2> QED BY <2>1 DEF IdleGc, NoTime
  <1>4. Shelves
    BY <1>2 DEF Init, Shelves, Shelf
  <1>5. Intake
    BY <1>2, <1>3, ZenonT(60) DEF Init, Intake
  <1>6. Pruning
    BY <1>1, IdleBounded DEF Init, Pruning
  <1>7. Collecting
    <2>1. gc = [pc |-> gc.pc, now |-> gc.now, latest |-> gc.latest, pending |-> gc.pending,
                todo |-> gc.todo, objs |-> gc.objs]
      BY <1>3 DEF IdleGc
    <2>2. 0 \in 0..MaxVersion /\ 0 <= Floor
      BY <1>1, DeploymentAssumption
    <2> QED BY <1>3, <2>1, <2>2 DEF Collecting
  <1> QED BY <1>1, <1>4, <1>5, <1>6, <1>7 DEF Deploying

LEMMA NextDeploying == Deploying /\ [Next]_vars => Deploying'
  <1> SUFFICES ASSUME Deploying, [Next]_vars PROVE Deploying'
    OBVIOUS
  <1>1. EntrySound /\ Stocked /\ Pruning /\ Collecting
    BY DEF Deploying, Stocked
  <1>2. EntrySound' /\ Advances
    BY <1>1, NextEntry
  <1>3. Pruning'
    BY <1>1, <1>2, NextPruning DEF Stocked
  <1>4. Stocked' /\ Collecting'
    <2>1. ASSUME Stocked', gc' = gc PROVE Stocked' /\ Collecting'
      BY <1>1, <1>2, <2>1, PassStays
    <2>2. ASSUME NEW v \in Version, NEW r \in Runtimes, BundleCompiled(v, r)
          PROVE  Stocked' /\ Collecting'
      <3>1. Stocked'
        BY <1>1, <1>2, <2>2, BundleCompiledHolds DEF Stocked
      <3>2. gc' = gc
        BY <2>2, ZenonT(60) DEF BundleCompiled
      <3> QED BY <2>1, <3>1, <3>2
    <2>3. ASSUME NEW s \in Slots, PruneStep(s) PROVE Stocked' /\ Collecting'
      <3>1. Stocked'
        BY <1>1, <1>2, <2>3, PruneHolds DEF Stocked
      <3>2. gc' = gc
        BY <2>3 DEF PruneStep, PruneBegin, PruneConfig, PruneCheck, PruneAssets
      <3> QED BY <2>1, <3>1, <3>2
    <2>4. CASE Gc
      BY <1>1, <1>2, <2>4, GcHolds, GcCollecting DEF Stocked
    <2>5. CASE UNCHANGED vars
      BY <1>1, <1>2, <2>1, <2>5, OthersHold
    <2>6. CASE Next
      BY <1>1, <1>2, <2>1, <2>2, <2>3, <2>4, <2>6, IntakeHolds, OthersHold, ZenonT(60) DEF Next
    <2> QED BY <2>5, <2>6
  <1> QED BY <1>2, <1>3, <1>4 DEF Deploying, Stocked

LEMMA DeployingComplete == Deploying => ServedIsComplete
  <1> SUFFICES ASSUME Deploying, entry # NoDoc, NEW v \in {entry.code, entry.pending} \ {0}
               PROVE  /\ v \in configs /\ v \in assets
                      /\ docs[v] # {} /\ {v} \X docs[v] \subseteq compiled
    BY DEF ServedIsComplete
  <1>1. entry \in Manifest /\ Floor = entry.code
    BY DEF Deploying, EntrySound, Floor
  <1>2. entry.pending # 0 => entry.code <= entry.pending
    BY DEF Deploying, EntrySound
  <1>3. v \in Version /\ v >= Floor
    BY <1>1, <1>2, DeploymentAssumption DEF Manifest, Version
  <1>4. docs[v] # {} /\ docs[v] \subseteq Runtimes
    BY <1>3 DEF Deploying, ServedRecorded, Intake
  <1>5. Live(v) /\ client[v] = "done" /\ Shelf(v)
    BY <1>3, <1>4 DEF Deploying, Intake, Shelves, Live
  <1>6. v \in configs /\ v \in assets /\ \A r \in docs[v] : <<v, r>> \in compiled
    BY <1>4, <1>5, ZenonT(60) DEF Shelf
  <1>7. {v} \X docs[v] \subseteq compiled
    BY <1>6
  <1> QED BY <1>4, <1>6, <1>7

\* Whatever the prune task and the collector delete, in whatever order they, the
\* compiler and the activations interleave, the version that is served and the
\* one about to be are complete: configuration, assets, record and bundles
\* (bundle_gc, deploy_artifact_prune, deployment_activation).
THEOREM ServedIsCompleteHolds == Spec => []ServedIsComplete
  BY InitDeploying, NextDeploying, DeployingComplete, PTL DEF Spec
=============================================================================
