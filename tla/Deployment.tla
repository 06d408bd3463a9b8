----------------------------- MODULE Deployment -----------------------------
(***************************************************************************)
(* One project's deployments, from the request of a deploy client to the   *)
(* bundle that a worker serves.  A deploy names a code version and uploads *)
(* its assets and its bundle; the bundle is compiled for each runtime, and *)
(* the compiled bundle's notice makes it the pending version of the        *)
(* project's entry in the worker manifest (bundle_compiled.rs).  A queue   *)
(* task activates it between two purges of the edge cache                  *)
(* (deployment_activation.rs), another one prunes what old versions left   *)
(* (deploy_artifact_prune.rs), and a cron pass collects old bundles and    *)
(* abandoned uploads (bundle_gc.rs).  Workers poll the manifest and cache  *)
(* the bundle (manifest_poller.rs, cache.rs).                              *)
(*                                                                         *)
(* The manifest's version number is the set of workers that have seen it.  *)
(* Time is the age of records: a minute outlasts the grace of a stale      *)
(* registry, a day the one of static assets and of uploads.                *)
(***************************************************************************)
EXTENDS Naturals, FiniteSets, FiniteSetsExt

CONSTANTS
    NoDoc,                          \* an absent document or bundle
    MaxVersion,                     \* bound: code versions deployed
    Runtimes,                       \* wasmtime versions, the first one active
    FirstRuntime,
    Workers,
    Slots,                          \* queue tasks that may run at once
    RETAINED_VERSIONS_BELOW_ACTIVE,
    MaxFaults,                      \* bound: failures of every kind
    MaxLost,                        \* bound: notices whose action gives up
    MaxGc,                          \* bound: passes of bundle_gc
    MaxDomains,                     \* bound: changes of the project's domain
    MaxFetch,                       \* bound: fetches of a bundle by workers
    MaxRuntime                      \* bound: runtimes put on trial

Version == 1..MaxVersion
NoRuntime == "none"
Manifest == [code : 0..MaxVersion, pending : 0..MaxVersion, st : {"PRE_PURGE", "ACTIVATING", "ACTIVE"}]

ASSUME DeploymentAssumption ==
    /\ MaxVersion \in Nat /\ RETAINED_VERSIONS_BELOW_ACTIVE \in Nat
    /\ FirstRuntime \in Runtimes /\ NoRuntime \notin Runtimes
    /\ NoDoc \notin Manifest

VARIABLES
    entry,      \* WorkerProjectManifest: NoDoc or [code, pending, st]
    runtime,    \* Fn0WasmtimeVersionDoc
    client,     \* how far each version's deploy client is
    cron,       \* the version whose cron jobs are configured
    configs,    \* versions with a WebSocketSingletonConfigDoc
    assets,     \* versions with objects in the frontend-asset bucket
    originals,  \* versions with an uploaded bundle
    compiled,   \* <<version, runtime>> of every compiled bundle
    docs,       \* CompiledBundleDoc: the runtimes recorded, {} for no document
    notices,    \* notices of the object store on their way to control
    jobs,       \* compiler invocations
    age,        \* age of each document: 0, 1 (a minute) or 2 (a day)
    aged,       \* originals a day old
    queue,      \* queue messages that wait
    task,       \* what each slot runs
    gc,         \* the garbage collector's pass
    seen,       \* workers that have applied the present manifest
    reg,        \* each worker's registry: NoDoc or [code, static]
    lru,        \* each worker's cached bundle
    fetch,      \* each worker's fetch in flight
    edge,       \* versions with static pages in the edge cache
    used        \* how much of each bound is used up

stores  == <<configs, assets, originals, compiled, docs, age, aged>>
intake  == <<client, cron, notices, jobs, runtime>>
worker  == <<reg, lru, fetch>>
vars    == <<entry, stores, intake, queue, task, gc, seen, worker, edge, used>>

Message == {<<"activate", v>> : v \in Version} \cup {<<"prune", 0>>}
Notice  == {<<"uploaded", v, NoRuntime>> : v \in Version}
             \cup {<<"compiled", v, r>> : v \in Version, r \in Runtimes}
Bundle  == [code : 0..MaxVersion, static : BOOLEAN]

IdleTask == [msg |-> <<"idle", 0>>, pc |-> "idle", v |-> 0, todo |-> {}, held |-> FALSE]
NoTime   == [age |-> [v \in Version |-> 0], aged |-> {}]
IdleGc   == [pc |-> "idle", now |-> NoTime, latest |-> 0, pending |-> NoRuntime, todo |-> {},
             objs |-> {}]

\* The type of every variable.
TypeOK ==
    /\ entry \in Manifest \cup {NoDoc}
    /\ runtime \in [active : Runtimes, pending : Runtimes \cup {NoRuntime}]
    /\ client \in [Version -> {"new", "granted", "assets", "done", "failed"}]
    /\ cron \in 0..MaxVersion
    /\ {configs, assets, originals, aged} \subseteq SUBSET Version
    /\ compiled \subseteq Version \X Runtimes /\ jobs \subseteq Version \X Runtimes
    /\ docs \in [Version -> SUBSET Runtimes] /\ age \in [Version -> 0..2]
    /\ notices \subseteq Notice /\ queue \subseteq Message
    /\ task \in [Slots -> [msg : Message \cup {<<"idle", 0>>},
                           pc : {"idle", "begin", "purge", "set", "check", "purge_again",
                                 "activate", "tail", "configs", "assets"},
                           v : 0..MaxVersion, todo : SUBSET Version, held : BOOLEAN]]
    /\ gc \in [pc : {"idle", "scan", "objects", "doc", "orphans", "orphan"},
               now : [age : [Version -> 0..2], aged : SUBSET Version],
               latest : 0..MaxVersion, pending : Runtimes \cup {NoRuntime},
               todo : SUBSET Version, objs : SUBSET (Version \X Runtimes)]
    /\ seen \subseteq Workers
    /\ {reg, lru, fetch} \subseteq [Workers -> Bundle \cup {NoDoc}]
    /\ edge \subseteq Version
    /\ used \in [faults : 0..MaxFaults, lost : 0..MaxLost, gc : 0..MaxGc, domains : 0..MaxDomains,
               fetch : 0..MaxFetch, runtime : 0..MaxRuntime]

Use(bound, limit) == used[bound] < limit /\ used' = [used EXCEPT ![bound] = @ + 1]
Fault == Use("faults", MaxFaults)

Init ==
    /\ entry = NoDoc
    /\ runtime = [active |-> FirstRuntime, pending |-> NoRuntime]
    /\ client = [v \in Version |-> "new"]
    /\ cron = 0
    /\ configs = {} /\ assets = {} /\ originals = {} /\ compiled = {} /\ aged = {}
    /\ docs = [v \in Version |-> {}] /\ age = [v \in Version |-> 0]
    /\ notices = {} /\ jobs = {} /\ queue = {}
    /\ task = [s \in Slots |-> IdleTask]
    /\ gc = IdleGc
    /\ seen = {} /\ edge = {}
    /\ reg = [w \in Workers |-> NoDoc]
    /\ lru = reg /\ fetch = reg
    /\ used = [faults |-> 0, lost |-> 0, gc |-> 0, domains |-> 0, fetch |-> 0,
               runtime |-> 0]

\* manifest_version += 1.
Bump(e) == entry' = e /\ seen' = {}

-----------------------------------------------------------------------------
(* The deploy client, the compiler and their notices.                       *)

\* deploy: the cron jobs of a later request stand.
Deploy(v) ==
    /\ client[v] = "new"
    /\ client' = [client EXCEPT ![v] = "granted"]
    /\ cron' = Max({cron, v})
    /\ configs' = configs \cup {v}
    /\ UNCHANGED <<entry, assets, originals, compiled, docs, age, aged, notices, jobs, runtime,
                   queue, task, gc, seen, worker, edge, used>>

UploadAssets(v) ==
    /\ client[v] = "granted"
    /\ client' = [client EXCEPT ![v] = "assets"]
    /\ assets' = assets \cup {v}
    /\ UNCHANGED <<entry, configs, originals, compiled, docs, age, aged, cron, notices, jobs,
                   runtime, queue, task, gc, seen, worker, edge, used>>

UploadBundle(v) ==
    /\ client[v] = "assets"
    /\ client' = [client EXCEPT ![v] = "done"]
    /\ originals' = originals \cup {v}
    /\ notices' = notices \cup {<<"uploaded", v, NoRuntime>>}
    /\ UNCHANGED <<entry, configs, assets, compiled, docs, age, aged, cron, jobs, runtime,
                   queue, task, gc, seen, worker, edge, used>>

\* A notice is delivered until an answer of success comes back, and may come again.
Noticed(n) ==
    \/ notices' = notices \ {n} /\ UNCHANGED used
    \/ Fault /\ UNCHANGED notices

\* An action that gives up answers its error with status 200 too: the notice is
\* acknowledged and does not come again.
Dropped(n) == Use("lost", MaxLost) /\ notices' = notices \ {n}

\* The action gives up before it has done anything.
LoseNotice(n) ==
    /\ n \in notices
    /\ Dropped(n)
    /\ UNCHANGED <<entry, stores, client, cron, jobs, runtime, queue, task, gc, seen, worker, edge>>

BundleUploaded(v) ==
    /\ <<"uploaded", v, NoRuntime>> \in notices
    /\ \/ /\ jobs' = jobs \cup ({v} \X ({runtime.active, runtime.pending} \ {NoRuntime}))
          /\ Noticed(<<"uploaded", v, NoRuntime>>)
       \/ /\ jobs' = jobs \cup {<<v, runtime.active>>}
          /\ Dropped(<<"uploaded", v, NoRuntime>>)
    /\ UNCHANGED <<entry, stores, client, cron, runtime, queue, task, gc, seen, worker, edge>>

Compile(v, r) ==
    /\ <<v, r>> \in jobs
    /\ jobs' = jobs \ {<<v, r>>}
    /\ IF v \in originals
       THEN /\ compiled' = compiled \cup {<<v, r>>}
            /\ notices' = notices \cup {<<"compiled", v, r>>}
       ELSE UNCHANGED <<compiled, notices>>
    /\ UNCHANGED <<entry, configs, assets, originals, docs, age, aged, client, cron, runtime,
                   queue, task, gc, seen, worker, edge, used>>

\* Mutant of Supersedes: only the pending version is compared.
SupersedesPending(v, e) == e.pending = 0 \/ v > e.pending

Supersedes(v, e) ==
    /\ v > e.code \/ (v = e.code /\ e.pending = 0)
    /\ e.pending = 0 \/ v > e.pending

Superseded(v, e) ==
    [code |-> IF e.code = 0 THEN v ELSE e.code, pending |-> v, st |-> "PRE_PURGE"]

\* bundle_compiled: one transaction, then the message; when the message cannot be
\* enqueued the notice is dropped all the same.
BundleCompiled(v, r) ==
    /\ <<"compiled", v, r>> \in notices
    /\ docs' = [docs EXCEPT ![v] = @ \cup {r}]
    /\ age' = [age EXCEPT ![v] = IF docs[v] = {} THEN 0 ELSE @]
    /\ LET promotes == r \notin docs[v] /\ r = runtime.active /\ entry # NoDoc
                         /\ Supersedes(v, entry)
           again == entry # NoDoc /\ entry.pending = v /\ entry.st # "ACTIVE"
       IN  /\ IF promotes THEN Bump(Superseded(v, entry)) ELSE UNCHANGED <<entry, seen>>
           /\ \/ /\ queue' = IF promotes \/ again THEN queue \cup {<<"activate", v>>} ELSE queue
                 /\ Noticed(<<"compiled", v, r>>)
              \/ /\ promotes \/ again
                 /\ Dropped(<<"compiled", v, r>>)
                 /\ UNCHANGED queue
    /\ UNCHANGED <<configs, assets, originals, compiled, aged, client, cron, runtime, jobs,
                   task, gc, worker, edge>>

DomainSet ==
    /\ Use("domains", MaxDomains)
    /\ Bump(IF entry = NoDoc THEN [code |-> 0, pending |-> 0, st |-> "ACTIVE"] ELSE entry)
    /\ UNCHANGED <<stores, intake, queue, task, gc, worker, edge>>

SetPendingRuntime(r) ==
    /\ Use("runtime", MaxRuntime)
    /\ runtime' = [runtime EXCEPT !.pending = IF r = runtime.active THEN NoRuntime ELSE r]
    /\ UNCHANGED <<entry, stores, client, cron, notices, jobs, queue, task, gc, seen, worker,
                   edge>>

PromotePendingRuntime ==
    /\ runtime.pending # NoRuntime
    /\ runtime' = [active |-> runtime.pending, pending |-> NoRuntime]
    /\ UNCHANGED <<entry, stores, client, cron, notices, jobs, queue, task, gc, seen, worker,
                   edge, used>>

-----------------------------------------------------------------------------
(* Queue tasks.  A message whose task fails, dies or outlasts its           *)
(* visibility timeout is delivered again.                                   *)

Start(s, m) ==
    /\ task[s] = IdleTask
    /\ m \in queue
    /\ queue' = queue \ {m}
    /\ task' = [task EXCEPT ![s] = [IdleTask EXCEPT !.msg = m, !.pc = "begin", !.held = TRUE]]
    /\ UNCHANGED <<entry, stores, intake, gc, seen, worker, edge, used>>

Goes(s, pc) == task' = [task EXCEPT ![s].pc = pc] /\ UNCHANGED queue
Acked(s) == task' = [task EXCEPT ![s] = IdleTask] /\ UNCHANGED queue

\* Mutant of Die: the message was deleted when it was received.
DieAcked(s) ==
    /\ task[s] # IdleTask
    /\ Fault /\ Acked(s)
    /\ UNCHANGED <<entry, stores, intake, gc, seen, worker, edge>>

Die(s) ==
    /\ task[s] # IdleTask
    /\ Fault
    /\ task' = [task EXCEPT ![s] = IdleTask]
    /\ queue' = IF task[s].held THEN queue \cup {task[s].msg} ELSE queue
    /\ UNCHANGED <<entry, stores, intake, gc, seen, worker, edge>>

Redeliver(s) ==
    /\ task[s].held
    /\ Fault
    /\ queue' = queue \cup {task[s].msg}
    /\ task' = [task EXCEPT ![s].held = FALSE]
    /\ UNCHANGED <<entry, stores, intake, gc, seen, worker, edge>>

At(s, kind, pc) == task[s].msg[1] = kind /\ task[s].pc = pc
Target(s) == task[s].msg[2]

ActivationStage(e, v) ==
    CASE e.code = v /\ e.st = "ACTIVE" -> "AlreadyActive"
      [] e.pending = v /\ e.st = "PRE_PURGE" -> "Pending"
      [] e.code = v /\ e.st = "ACTIVATING" -> "Activating"
      [] OTHER -> "Obsolete"

ActivationBegin(s) ==
    /\ At(s, "activate", "begin")
    /\ LET stage == IF entry = NoDoc THEN "Obsolete" ELSE ActivationStage(entry, Target(s))
       IN  CASE stage = "Obsolete" -> Acked(s)
             [] stage = "AlreadyActive" -> Goes(s, "tail")
             [] stage = "Pending" -> Goes(s, "purge")
             [] stage = "Activating" -> Goes(s, "check")
    /\ UNCHANGED <<entry, stores, intake, gc, seen, worker, edge, used>>

PurgeUserZone(s) ==
    /\ At(s, "activate", "purge") \/ At(s, "activate", "purge_again")
    /\ edge' = {}
    /\ Goes(s, IF task[s].pc = "purge" THEN "set" ELSE "activate")
    /\ UNCHANGED <<entry, stores, intake, gc, seen, worker, used>>

SetActivating(s) ==
    /\ At(s, "activate", "set")
    /\ IF entry # NoDoc /\ entry.pending = Target(s) /\ entry.st = "PRE_PURGE"
       THEN Bump([code |-> Target(s), pending |-> 0, st |-> "ACTIVATING"])
       ELSE UNCHANGED <<entry, seen>>
    /\ Goes(s, "check")
    /\ UNCHANGED <<stores, intake, gc, worker, edge, used>>

ActivationCheck(s) ==
    /\ At(s, "activate", "check")
    /\ IF entry # NoDoc /\ entry.code = Target(s) /\ entry.st = "ACTIVATING"
       THEN Goes(s, "purge_again") ELSE Acked(s)
    /\ UNCHANGED <<entry, stores, intake, gc, seen, worker, edge, used>>

SetActive(s) ==
    /\ At(s, "activate", "activate")
    /\ IF entry # NoDoc /\ entry.code = Target(s) /\ entry.st = "ACTIVATING"
       THEN Bump([entry EXCEPT !.st = "ACTIVE"])
       ELSE UNCHANGED <<entry, seen>>
    /\ Goes(s, "tail")
    /\ UNCHANGED <<stores, intake, gc, worker, edge, used>>

\* The prune message, and the reconciliation of the version's singletons.
ActivationTail(s) ==
    /\ At(s, "activate", "tail")
    /\ queue' = queue \cup {<<"prune", 0>>}
    /\ task' = [task EXCEPT ![s] = IdleTask]
    /\ UNCHANGED <<entry, stores, intake, gc, seen, worker, edge, used>>

ActiveAt(e, v) == e # NoDoc /\ e.code = v /\ e.st = "ACTIVE"

\* Mutant of Prunable: the active version is one of them.
PrunableActive(versions, active) ==
    LET below == {v \in versions : v <= active}
    IN  {v \in below : Cardinality({u \in below : u > v}) >= RETAINED_VERSIONS_BELOW_ACTIVE}

\* The versions below the active one, but for the newest of them.
Prunable(versions, active) ==
    LET below == {v \in versions : v < active}
    IN  {v \in below : Cardinality({u \in below : u > v}) >= RETAINED_VERSIONS_BELOW_ACTIVE}

PruneBegin(s) ==
    /\ At(s, "prune", "begin")
    /\ IF entry # NoDoc /\ entry.st = "ACTIVE"
       THEN /\ task' = [task EXCEPT ![s].pc = "configs", ![s].v = entry.code,
                                    ![s].todo = Prunable(configs, entry.code)]
            /\ UNCHANGED queue
       ELSE Acked(s)
    /\ UNCHANGED <<entry, stores, intake, gc, seen, worker, edge, used>>

\* delete_singleton_config: the transaction reads the manifest again.
PruneConfig(s) ==
    /\ At(s, "prune", "configs") /\ task[s].todo # {}
    /\ LET v == Min(task[s].todo)
       IN  IF ActiveAt(entry, task[s].v)
           THEN /\ configs' = configs \ {v}
                /\ task' = [task EXCEPT ![s].todo = @ \ {v}]
           ELSE /\ task' = [task EXCEPT ![s].todo = {}]
                /\ UNCHANGED configs
    /\ UNCHANGED <<entry, assets, originals, compiled, docs, age, aged, intake, queue, gc, seen,
                   worker, edge, used>>

PruneCheck(s) ==
    /\ At(s, "prune", "configs") /\ task[s].todo = {}
    /\ IF ActiveAt(entry, task[s].v)
       THEN /\ task' = [task EXCEPT ![s].pc = "assets", ![s].todo = Prunable(assets, task[s].v)]
            /\ UNCHANGED queue
       ELSE Acked(s)
    /\ UNCHANGED <<entry, stores, intake, gc, seen, worker, edge, used>>

PruneAssets(s) ==
    /\ At(s, "prune", "assets")
    /\ IF task[s].todo = {} THEN Acked(s) /\ UNCHANGED assets
       ELSE LET v == Min(task[s].todo)
            IN  /\ assets' = assets \ {v}
                /\ task' = [task EXCEPT ![s].todo = @ \ {v}]
                /\ UNCHANGED queue
    /\ UNCHANGED <<entry, configs, originals, compiled, docs, age, aged, intake, gc, seen,
                   worker, edge, used>>

-----------------------------------------------------------------------------
(* bundle_gc.                                                               *)

gcUnchanged == <<entry, intake, queue, task, seen, worker, edge>>

GcStart ==
    /\ gc.pc = "idle"
    /\ Use("gc", MaxGc)
    /\ gc' = [IdleGc EXCEPT !.pc = "scan", !.now = [age |-> age, aged |-> aged],
                            !.pending = runtime.pending]
    /\ UNCHANGED <<gcUnchanged, stores>>

\* The age of the served version's document is the anchor of both graces; a
\* version compiled for the pending runtime is spared.
Stale(latest, pending) ==
    {v \in Version : v < latest /\ docs[v] # {} /\ pending \notin docs[v]}

GcScan ==
    /\ gc.pc = "scan"
    /\ LET latest == IF entry = NoDoc THEN 0 ELSE entry.code
           aging == IF latest = 0 THEN 0 ELSE Min({age[latest], gc.now.age[latest]})
           todo == Stale(latest, gc.pending)
       IN  gc' = CASE aging = 0 \/ docs[latest] = {} -> [gc EXCEPT !.pc = "orphans"]
                   [] OTHER ->
                        [gc EXCEPT !.pc = "objects", !.latest = IF aging = 2 THEN latest ELSE 0,
                                   !.todo = todo,
                                   !.objs = {c \in todo \X Runtimes : c[2] \in docs[c[1]]}]
    /\ UNCHANGED <<gcUnchanged, stores, used>>

GcObjects ==
    /\ gc.pc = "objects" /\ gc.todo # {}
    /\ LET v == Min(gc.todo)
       IN  /\ compiled' = {c \in compiled : ~(c[1] = v /\ c \in gc.objs)}
           /\ originals' = originals \ {v}
    /\ gc' = [gc EXCEPT !.pc = "doc"]
    /\ UNCHANGED <<gcUnchanged, configs, assets, docs, age, aged, used>>

GcDoc ==
    /\ gc.pc = "doc"
    /\ LET v == Min(gc.todo)
       IN  /\ docs' = [docs EXCEPT ![v] = {}]
           /\ gc' = [gc EXCEPT !.pc = "objects", !.todo = @ \ {v}]
    /\ UNCHANGED <<gcUnchanged, configs, assets, originals, compiled, age, aged, used>>

GcAssets ==
    /\ gc.pc = "objects" /\ gc.todo = {}
    /\ assets' = {v \in assets : v >= gc.latest}
    /\ gc' = [gc EXCEPT !.pc = "orphans", !.objs = {}]
    /\ UNCHANGED <<gcUnchanged, configs, originals, compiled, docs, age, aged, used>>

GcListOrphans ==
    /\ gc.pc = "orphans"
    /\ gc' = [gc EXCEPT !.pc = "orphan",
                        !.todo = {v \in originals \cap gc.now.aged : \A c \in compiled : c[1] # v}]
    /\ UNCHANGED <<gcUnchanged, stores, used>>

GcOrphan ==
    /\ gc.pc = "orphan" /\ gc.todo # {}
    /\ LET v == Min(gc.todo)
       IN  /\ IF docs[v] = {}
              THEN originals' = originals \ {v} /\ assets' = assets \ {v}
              ELSE UNCHANGED <<originals, assets>>
           /\ gc' = [gc EXCEPT !.todo = @ \ {v}]
    /\ UNCHANGED <<gcUnchanged, configs, compiled, docs, age, aged, used>>

GcEnd ==
    /\ \/ gc.pc = "orphan" /\ gc.todo = {} /\ UNCHANGED used
       \/ gc.pc # "idle" /\ Fault
    /\ gc' = IdleGc
    /\ UNCHANGED <<gcUnchanged, stores>>

-----------------------------------------------------------------------------
(* Time.  Workers poll every second, so a minute does not pass while one    *)
(* has yet to see the manifest; a day outlasts upload grants, compilations  *)
(* and notices.                                                             *)

Older(n) == age' = [v \in Version |-> IF docs[v] # {} THEN Max({age[v], n}) ELSE age[v]]

\* Ages are read when a pass begins: they need not grow when none is to come.
PassAhead == used.gc < MaxGc

MinutePasses ==
    /\ PassAhead
    /\ seen = Workers
    /\ Older(1)
    /\ UNCHANGED <<entry, configs, assets, originals, compiled, docs, aged, intake, queue, task,
                   gc, seen, worker, edge, used>>

DayPasses ==
    /\ PassAhead
    /\ seen = Workers
    /\ notices = {} /\ jobs = {}
    /\ Older(2)
    /\ aged' = originals
    /\ client' = [v \in Version |-> IF client[v] \in {"granted", "assets"} THEN "failed"
                                                                       ELSE client[v]]
    /\ UNCHANGED <<entry, configs, assets, originals, compiled, docs, cron, notices, jobs,
                   runtime, queue, task, gc, seen, worker, edge, used>>

-----------------------------------------------------------------------------
(* A worker.                                                                *)

workerUnchanged == <<entry, stores, intake, queue, task, gc>>

\* register: a change of the registry drops the cached bundle.
Poll(w) ==
    /\ entry # NoDoc /\ w \notin seen
    /\ LET next == [code |-> entry.code, static |-> entry.st = "ACTIVE"]
       IN  /\ reg' = [reg EXCEPT ![w] = next]
           /\ lru' = [lru EXCEPT ![w] = IF reg[w] = next THEN @ ELSE NoDoc]
    /\ seen' = seen \cup {w}
    /\ UNCHANGED <<workerUnchanged, fetch, edge, used>>

Cached(w) == lru[w] # NoDoc /\ reg[w] # NoDoc /\ lru[w].code = reg[w].code

FetchBegin(w) ==
    /\ reg[w] # NoDoc /\ ~Cached(w) /\ fetch[w] = NoDoc
    /\ Use("fetch", MaxFetch)
    /\ fetch' = [fetch EXCEPT ![w] = reg[w]]
    /\ UNCHANGED <<workerUnchanged, seen, reg, lru, edge>>

FetchEnd(w) ==
    /\ fetch[w] # NoDoc
    /\ IF \E c \in compiled : c[1] = fetch[w].code
       THEN lru' = [lru EXCEPT ![w] = fetch[w]] ELSE UNCHANGED lru
    /\ fetch' = [fetch EXCEPT ![w] = NoDoc]
    /\ UNCHANGED <<workerUnchanged, seen, reg, edge, used>>

Evict(w) ==
    /\ lru[w] # NoDoc
    /\ lru' = [lru EXCEPT ![w] = NoDoc]
    /\ UNCHANGED <<workerUnchanged, seen, reg, fetch, edge, used>>

\* A static page of the bundle is answered, and cached by the edge.
ServeStatic(w) ==
    /\ Cached(w) /\ lru[w].static
    /\ edge' = edge \cup {lru[w].code}
    /\ UNCHANGED <<workerUnchanged, seen, worker, used>>

-----------------------------------------------------------------------------
ActivationStep(s) ==
    \/ ActivationBegin(s) \/ PurgeUserZone(s) \/ SetActivating(s) \/ ActivationCheck(s)
    \/ SetActive(s) \/ ActivationTail(s)

PruneStep(s) == PruneBegin(s) \/ PruneConfig(s) \/ PruneCheck(s) \/ PruneAssets(s)

Gc == GcStart \/ GcScan \/ GcObjects \/ GcDoc \/ GcAssets \/ GcListOrphans \/ GcOrphan \/ GcEnd

Next ==
    \/ \E v \in Version :
         \/ Deploy(v) \/ UploadAssets(v) \/ UploadBundle(v) \/ BundleUploaded(v)
         \/ \E r \in Runtimes : Compile(v, r) \/ BundleCompiled(v, r)
    \/ \E n \in Notice : LoseNotice(n)
    \/ DomainSet \/ PromotePendingRuntime
    \/ \E r \in Runtimes : SetPendingRuntime(r)
    \/ \E s \in Slots :
         \/ \E m \in Message : Start(s, m)
         \/ ActivationStep(s) \/ PruneStep(s) \/ Redeliver(s) \/ Die(s)
    \/ Gc \/ MinutePasses \/ DayPasses
    \/ \E w \in Workers : Poll(w) \/ FetchBegin(w) \/ FetchEnd(w) \/ Evict(w) \/ ServeStatic(w)

Spec == Init /\ [][Next]_vars

Notified == \E v \in Version, r \in Runtimes : BundleCompiled(v, r)
Taken == \E s \in Slots, m \in Message : Start(s, m)
TaskStep(s) == ActivationStep(s) \/ PruneStep(s)

\* Notices are delivered, messages are taken, a task that runs goes on, and a
\* worker polls.
FairSpec ==
    /\ Spec
    /\ WF_vars(Notified) /\ WF_vars(Taken)
    /\ \A s \in Slots : WF_vars(TaskStep(s))
    /\ \A w \in Workers : WF_vars(Poll(w))

-----------------------------------------------------------------------------
(* Properties.                                                              *)

\* What the manifest serves or is about to serve is all there, whatever is pruned
\* and collected meanwhile: its singleton configuration, its assets, its record
\* and the bundle of every runtime the record names (bundle_gc,
\* deploy_artifact_prune).
ServedIsComplete ==
    entry # NoDoc =>
      \A v \in {entry.code, entry.pending} \ {0} :
        /\ v \in configs /\ v \in assets
        /\ docs[v] # {} /\ {v} \X docs[v] \subseteq compiled

\* The served version never goes back, in whatever order bundles are compiled and
\* activation messages are delivered (bundle_compiled, set_activating).
VersionsAdvance == [][entry # NoDoc => entry' # NoDoc /\ entry'.code >= entry.code]_vars

\* A version that is pending comes to be active, or a later one does
\* (bundle_compiled, deployment_activation), and every worker follows.
DeployLands ==
    \A v \in Version :
      (entry # NoDoc /\ entry.pending = v)
        ~> (entry # NoDoc /\ entry.code >= v /\ entry.st = "ACTIVE" /\ seen = Workers)
=============================================================================
