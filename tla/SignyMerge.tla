----------------------------- MODULE SignyMerge -----------------------------
(***************************************************************************)
(* The life of signy's log parts after the flush: merge rewrites small     *)
(* parts into one, retention retires expired ones, cache eviction drops    *)
(* local bodies, the orphan collector deletes objects no manifest names,   *)
(* queries read all the while, and a restart repairs what a crash left     *)
(* (merge/scheduler.rs, retention.rs, startup.rs, remote_lifecycle.rs,     *)
(* object_storage/cache.rs, object_storage/catalog.rs, part/metadata.rs).  *)
(*                                                                         *)
(* Two read-write locks order the tasks.  The deletion lock keeps files in *)
(* place under a rewrite; the operation lock keeps the registry in place   *)
(* under a query.  A deleter takes both, the deletion lock first.          *)
(*                                                                         *)
(* A part is its number, `content` the rows written into it.  Its local    *)
(* directory is absent, a shell (the catalog files without the Parquet     *)
(* body) or full, and may hold a merge tombstone naming the parts it       *)
(* replaces.  The flush that creates the first parts is SignyFlush, the    *)
(* commit of a manifest change is SignyCatalog; here it is one step.       *)
(***************************************************************************)
EXTENDS Naturals, FiniteSets

CONSTANTS
    Remote,     \* whether an object store is configured
    Inputs,     \* the parts the flush left, one row each; the row has the part's number
    Expiring,   \* the rows that may pass their tenant's cutoff
    MaxParts,   \* bound on part numbers, the merge outputs included
    Failing,    \* which steps may fail: "open", "clean", "retire", "publish", "half"
    MaxFaults,  \* bound on failed steps
    MaxCrashes  \* bound on crashes

VARIABLES
    phase,    \* "up", "down", the steps of a start, or "wedged"
    content,  \* the rows of each part ever written
    disk,     \* [dir, tomb, marker]: the part directories
    store,    \* [cat, objs, seen]: manifest, objects, orphan ledger
    reg,      \* the registry
    lock,     \* [delR, delW, opR, opW]: the tasks holding each half
    merge,    \* the merge task
    ret,      \* the retention task
    query,    \* one query
    boot,     \* a start's repairs: merges replayed, directories to remove
    gc,       \* the orphan collector's pass: the active set it read, what it may delete
    expired,  \* the rows past their tenant's cutoff
    used      \* [faults, crashes]

vars == <<phase, content, disk, store, reg, lock, merge, ret, query, gc,
          boot, expired, used>>

Parts == 1..MaxParts
Rows == Inputs

IdleMerge == [pc |-> "idle", olds |-> {}, new |-> 0, cut |-> {}, left |-> {}, bad |-> FALSE]
IdleRet == [pc |-> "idle", cand |-> {}, gone |-> {}]
IdleQuery == [pc |-> "idle", plan |-> {}]
NoBoot == [done |-> {}, dead |-> {}, left |-> {}, valid |-> {}]
IdleGc == [pc |-> "idle", active |-> {}, doomed |-> {}]
NoLocks == [delR |-> {}, delW |-> {}, opR |-> {}, opW |-> {}]

Init ==
    /\ phase = "up"
    /\ content = [p \in Parts |-> IF p \in Inputs THEN {p} ELSE {}]
    /\ disk = [dir |-> [p \in Parts |-> IF p \in Inputs THEN "full" ELSE "none"],
               tomb |-> [p \in Parts |-> {}], marker |-> {}]
    /\ store = [cat |-> IF Remote THEN Inputs ELSE {},
                objs |-> IF Remote THEN Inputs ELSE {}, seen |-> {}]
    /\ reg = Inputs
    /\ lock = NoLocks
    /\ merge = IdleMerge
    /\ ret = IdleRet
    /\ query = IdleQuery
    /\ gc = IdleGc
    /\ boot = NoBoot
    /\ expired = {}
    /\ used = [faults |-> 0, crashes |-> 0]

----------------------------------------------------------------------------
(* The locks.  write_without_convoy polls try_write, so a waiting writer   *)
(* blocks nobody; each acquisition is a step enabled when the lock allows  *)
(* it.                                                                     *)

CanRead(r, w) == lock[w] = {}
CanWrite(r, w) == lock[r] = {} /\ lock[w] = {}

DelRead(t) == CanRead("delR", "delW") /\ lock' = [lock EXCEPT !.delR = @ \union {t}]
DelWrite(t) == CanWrite("delR", "delW") /\ lock' = [lock EXCEPT !.delW = {t}]
OpRead(t) == CanRead("opR", "opW") /\ lock' = [lock EXCEPT !.opR = @ \union {t}]
OpWrite(t) == CanWrite("opR", "opW") /\ lock' = [lock EXCEPT !.opW = {t}]
OpFree == CanWrite("opR", "opW")

(* Every guard the task holds is dropped. *)
Release(t) == lock' = [h \in DOMAIN lock |-> lock[h] \ {t}]

(* A step that may fail does. *)
Fault(step) ==
    /\ step \in Failing
    /\ used.faults < MaxFaults
    /\ used' = [used EXCEPT !.faults = @ + 1]

----------------------------------------------------------------------------
(* Part directories. *)

(* remove_part_dirs: the directory goes with its tombstone and marker. *)
Without(d, S) ==
    [dir |-> [p \in Parts |-> IF p \in S THEN "none" ELSE d.dir[p]],
     tomb |-> [p \in Parts |-> IF p \in S THEN {} ELSE d.tomb[p]],
     marker |-> d.marker \ S]

(* restore_parts: the bodies of S come back from the store. *)
WithBodies(d, S) == [d EXCEPT !.dir = [p \in Parts |-> IF p \in S THEN "full" ELSE @[p]]]

Bodyless(S) == {p \in S : disk.dir[p] # "full"}

(* restore_parts answers for parts the manifest still lists. *)
Restorable(S) == S \subseteq store.cat \intersect store.objs

----------------------------------------------------------------------------
(* merge_once.  The tick snapshots the registry and the cutoffs, then      *)
(* works group by group.                                                   *)

UnchangedByMerge == UNCHANGED <<phase, ret, query, gc, boot, expired>>

(* select_groups: several parts, or one that holds expired rows for        *)
(* retention to reclaim.                                                   *)
Groups == {g \in SUBSET reg : Cardinality(g) > 1 \/ (\E p \in g : content[p] \intersect expired # {})}

MergeSelect ==
    /\ phase = "up" /\ merge.pc = "idle"
    /\ \E p \in Parts : content[p] = {}
    /\ \E g \in Groups \ {{}} :
          merge' = [IdleMerge EXCEPT !.pc = "guard", !.olds = g, !.cut = expired]
    /\ UNCHANGED <<content, disk, store, reg, lock, used>>
    /\ UnchangedByMerge

(* The deletion lock is read for as long as the inputs are. *)
MergeGuard ==
    /\ merge.pc = "guard"
    /\ DelRead("merge")
    /\ merge' = [merge EXCEPT !.pc = "rewrite"]
    /\ UNCHANGED <<content, disk, store, reg, used>>
    /\ UnchangedByMerge

(* The inputs whose bodies were evicted come back; a restore that fails    *)
(* ends the tick.                                                          *)
MergeRestore ==
    /\ merge.pc = "rewrite" /\ Remote
    /\ LET missing == Bodyless(merge.olds \intersect reg)
       IN  /\ missing # {}
           /\ IF Restorable(missing)
              THEN disk' = WithBodies(disk, missing) /\ UNCHANGED <<merge, lock>>
              ELSE Release("merge") /\ merge' = IdleMerge /\ UNCHANGED disk
    /\ UNCHANGED <<content, store, reg, used>>
    /\ UnchangedByMerge

NewPart == CHOOSE p \in Parts : content[p] = {} /\ \A q \in 1..(p - 1) : content[q] # {}

Kept == UNION {content[p] : p \in merge.olds} \ merge.cut

(* rewrite_group: the new directory appears with its tombstone, and the    *)
(* guard is dropped.  An input deleted under the selection, or no row to   *)
(* keep, skips the group.                                                  *)
MergeRewrite ==
    /\ merge.pc = "rewrite"
    /\ ~(Remote /\ Bodyless(merge.olds \intersect reg) # {})
    /\ Release("merge")
    /\ IF Bodyless(merge.olds) = {} /\ Kept # {}
       THEN /\ content' = [content EXCEPT ![NewPart] = Kept]
            /\ disk' = [disk EXCEPT !.dir[NewPart] = "full", !.tomb[NewPart] = merge.olds]
            /\ merge' = [merge EXCEPT !.pc = "verify", !.new = NewPart]
       ELSE merge' = IdleMerge /\ UNCHANGED <<content, disk>>
    /\ UNCHANGED <<store, reg, used>>
    /\ UnchangedByMerge

(* The output is thrown away and the group skipped. *)
MergeAbandons ==
    /\ disk' = Without(disk, {merge.new})
    /\ merge' = IdleMerge
    /\ Release("merge")

(* verify_merge_tombstones reads the tombstone back against the inputs'    *)
(* paths, without a guard.                                                 *)
MergeVerify ==
    /\ merge.pc = "verify"
    /\ IF \A p \in merge.olds : disk.dir[p] # "none"
       THEN merge' = [merge EXCEPT !.pc = "recheck"] /\ UNCHANGED <<disk, lock>>
       ELSE MergeAbandons
    /\ UNCHANGED <<content, store, reg, used>>
    /\ UnchangedByMerge

(* Under the deletion lock again, the inputs must still be registered. *)
MergeRecheck ==
    /\ merge.pc = "recheck"
    /\ CanRead("delR", "delW")
    /\ IF merge.olds \subseteq reg
       THEN /\ DelRead("merge")
            /\ merge' = [merge EXCEPT !.pc = IF Remote THEN "upload" ELSE "open"]
            /\ UNCHANGED disk
       ELSE MergeAbandons
    /\ UNCHANGED <<content, store, reg, used>>
    /\ UnchangedByMerge

(* publish: the upload marker and the objects first. *)
MergeUpload ==
    /\ merge.pc = "upload"
    /\ disk' = [disk EXCEPT !.marker = @ \union {merge.new}]
    /\ store' = [store EXCEPT !.objs = @ \union {merge.new}]
    /\ merge' = [merge EXCEPT !.pc = "commit"]
    /\ UNCHANGED <<content, reg, lock, used>>
    /\ UnchangedByMerge

Replaced(cat, olds, new) == (cat \ olds) \union {new}

(* publish: the manifest takes the output for the inputs, if it still      *)
(* lists every one of them.                                                *)
MergeCommit ==
    /\ merge.pc = "commit"
    /\ IF merge.olds \subseteq store.cat
       THEN /\ store' = [store EXCEPT !.cat = Replaced(@, merge.olds, merge.new)]
            /\ disk' = [disk EXCEPT !.marker = @ \ {merge.new}]
            /\ merge' = [merge EXCEPT !.pc = "open"]
            /\ UNCHANGED lock
       ELSE MergeAbandons /\ UNCHANGED store
    /\ UNCHANGED <<content, reg, used>>
    /\ UnchangedByMerge

(* publish fails, and with "half" the commit it could not finish stands. *)
MergePublishFails ==
    /\ merge.pc = "commit"
    /\ \/ Fault("publish") /\ UNCHANGED store
       \/ /\ Fault("half") /\ merge.olds \subseteq store.cat
          /\ store' = [store EXCEPT !.cat = Replaced(@, merge.olds, merge.new)]
    /\ MergeAbandons
    /\ UNCHANGED <<content, reg>>
    /\ UnchangedByMerge

(* open_parts validates the replacement, still under the guard. *)
MergeOpen ==
    /\ merge.pc = "open"
    /\ Release("merge")
    /\ merge' = [merge EXCEPT !.pc = "install"]
    /\ UNCHANGED <<content, disk, store, reg, used>>
    /\ UnchangedByMerge

(* It does not open: the old parts stay registered, and the directory goes *)
(* unless the manifest already lists it.                                   *)
MergeOpenFails ==
    /\ merge.pc = "open"
    /\ Fault("open")
    /\ Release("merge")
    /\ disk' = IF Remote THEN disk ELSE Without(disk, {merge.new})
    /\ merge' = IdleMerge
    /\ UNCHANGED <<content, store, reg>>
    /\ UnchangedByMerge

(* Mutant: the tombstone goes before the inputs it names. *)
MergeInstallUnmarked ==
    /\ merge.pc = "install"
    /\ OpFree
    /\ IF Remote \/ merge.olds \subseteq reg
       THEN /\ reg' = Replaced(reg, merge.olds, merge.new)
            /\ merge' = [merge EXCEPT !.pc = "clean", !.left = merge.olds]
            /\ OpWrite("merge")
            /\ disk' = [disk EXCEPT !.tomb[merge.new] = {}]
       ELSE MergeAbandons /\ UNCHANGED reg
    /\ UNCHANGED <<content, store, used>>
    /\ UnchangedByMerge

(* Under the exclusive operation lock the registry takes the output for    *)
(* the inputs; only an uncommitted replacement is checked once more.       *)
MergeInstall ==
    /\ merge.pc = "install"
    /\ OpFree
    /\ IF Remote \/ merge.olds \subseteq reg
       THEN /\ reg' = Replaced(reg, merge.olds, merge.new)
            /\ merge' = [merge EXCEPT !.pc = "clean", !.left = merge.olds]
            /\ OpWrite("merge")
            /\ UNCHANGED disk
       ELSE MergeAbandons /\ UNCHANGED reg
    /\ UNCHANGED <<content, store, used>>
    /\ UnchangedByMerge

(* The old directories go one by one. *)
MergeClean ==
    /\ merge.pc = "clean"
    /\ \E p \in merge.left :
          /\ merge' = [merge EXCEPT !.left = @ \ {p}]
          /\ disk' = Without(disk, {p})
    /\ UNCHANGED <<content, store, reg, lock, used>>
    /\ UnchangedByMerge

MergeCleanFails ==
    /\ merge.pc = "clean"
    /\ Fault("clean")
    /\ \E p \in merge.left :
          merge' = [merge EXCEPT !.left = @ \ {p}, !.bad = TRUE]
    /\ UNCHANGED <<content, disk, store, reg, lock>>
    /\ UnchangedByMerge

(* The tombstone goes once every input has. *)
MergeDone ==
    /\ merge.pc = "clean" /\ merge.left = {}
    /\ disk' = IF merge.bad THEN disk ELSE [disk EXCEPT !.tomb[merge.new] = {}]
    /\ merge' = IdleMerge
    /\ Release("merge")
    /\ UNCHANGED <<content, store, reg, used>>
    /\ UnchangedByMerge

MergeNext ==
    \/ MergeSelect \/ MergeGuard \/ MergeRestore \/ MergeRewrite \/ MergeVerify
    \/ MergeRecheck \/ MergeUpload \/ MergeCommit \/ MergePublishFails
    \/ MergeOpen \/ MergeOpenFails \/ MergeInstall
    \/ MergeClean \/ MergeCleanFails \/ MergeDone

----------------------------------------------------------------------------
(* retention_once_at. *)

UnchangedByRet == UNCHANGED <<phase, content, merge, query, gc, boot, expired>>

(* Under a shared operation guard, the fully expired parts. *)
RetSelect ==
    /\ phase = "up" /\ ret.pc = "idle"
    /\ CanRead("opR", "opW")
    /\ LET cand == {p \in reg : content[p] \subseteq expired}
       IN  cand # {} /\ ret' = [IdleRet EXCEPT !.pc = "files", !.cand = cand]
    /\ UNCHANGED <<disk, store, reg, lock, used>>
    /\ UnchangedByRet

RetLockFiles ==
    /\ ret.pc = "files"
    /\ DelWrite("ret")
    /\ ret' = [ret EXCEPT !.pc = "lock"]
    /\ UNCHANGED <<disk, store, reg, used>>
    /\ UnchangedByRet

(* The candidates that are still registered are what it will delete. *)
RetLock ==
    /\ ret.pc = "lock"
    /\ OpWrite("ret")
    /\ ret' = [ret EXCEPT !.pc = "remove", !.cand = @ \intersect reg]
    /\ UNCHANGED <<disk, store, reg, used>>
    /\ UnchangedByRet

RetRemove ==
    /\ ret.pc = "remove"
    /\ \E p \in ret.cand :
          /\ disk' = Without(disk, {p})
          /\ ret' = [ret EXCEPT !.cand = @ \ {p}, !.gone = @ \union {p}]
    /\ UNCHANGED <<store, reg, lock, used>>
    /\ UnchangedByRet

(* A directory cannot be removed: the tick ends where it is. *)
RetRemoveFails ==
    /\ ret.pc = "remove" /\ ret.cand # {}
    /\ Fault("retire")
    /\ Release("ret")
    /\ ret' = IdleRet
    /\ UNCHANGED <<disk, store, reg>>
    /\ UnchangedByRet

(* Without a store the parts leave the registry under the same locks. *)
RetRemoved ==
    /\ ret.pc = "remove" /\ ret.cand = {}
    /\ Release("ret")
    /\ IF Remote /\ ret.gone # {}
       THEN ret' = [ret EXCEPT !.pc = "unregister"] /\ UNCHANGED reg
       ELSE ret' = IdleRet /\ reg' = reg \ ret.gone
    /\ UNCHANGED <<disk, store, used>>
    /\ UnchangedByRet

(* retire_log_parts: the registry first, then the manifest. *)
RetUnregister ==
    /\ ret.pc = "unregister"
    /\ OpFree
    /\ reg' = reg \ ret.gone
    /\ ret' = [ret EXCEPT !.pc = "drop"]
    /\ UNCHANGED <<disk, store, lock, used>>
    /\ UnchangedByRet

RetDrop ==
    /\ ret.pc = "drop"
    /\ \/ store' = [store EXCEPT !.cat = @ \ ret.gone] /\ UNCHANGED used
       \/ Fault("publish") /\ UNCHANGED store
    /\ ret' = IdleRet
    /\ UNCHANGED <<disk, reg, lock>>
    /\ UnchangedByRet

RetNext ==
    \/ RetSelect \/ RetLockFiles \/ RetLock \/ RetRemove \/ RetRemoveFails
    \/ RetRemoved \/ RetUnregister \/ RetDrop

----------------------------------------------------------------------------
(* The eviction loop: both locks, then bodies of registered parts go until *)
(* the cache fits.                                                         *)

EvictLockFiles ==
    /\ phase = "up" /\ Remote
    /\ DelWrite("evict")
    /\ UNCHANGED <<phase, content, disk, store, reg, merge, ret, query, gc, boot,
                   expired, used>>

(* Mutant: the bodies go under the deletion lock alone. *)
EvictUnlocked ==
    /\ lock.delW = {"evict"}
    /\ \E S \in SUBSET {p \in reg : disk.dir[p] = "full"} :
          disk' = [disk EXCEPT !.dir = [p \in Parts |-> IF p \in S THEN "shell" ELSE @[p]]]
    /\ Release("evict")
    /\ UNCHANGED <<phase, content, store, reg, merge, ret, query, gc, boot, expired, used>>

Evict ==
    /\ lock.delW = {"evict"}
    /\ OpFree
    /\ \E S \in SUBSET {p \in reg : disk.dir[p] = "full"} :
          disk' = [disk EXCEPT !.dir = [p \in Parts |-> IF p \in S THEN "shell" ELSE @[p]]]
    /\ Release("evict")
    /\ UNCHANGED <<phase, content, store, reg, merge, ret, query, gc, boot, expired, used>>

----------------------------------------------------------------------------
(* A query: pin_remote_parts, then the scan under the operation guard. *)

UnchangedByQuery == UNCHANGED <<phase, content, store, reg, merge, ret, gc, boot, expired, used>>

(* The plan is the registry's; with every body at hand the guard is kept. *)
QueryPlan ==
    /\ phase = "up" /\ query.pc = "idle"
    /\ IF Remote /\ Bodyless(reg) # {}
       THEN /\ CanRead("opR", "opW") /\ UNCHANGED lock
            /\ query' = [query EXCEPT !.pc = "gap"]
       ELSE /\ OpRead("query")
            /\ query' = [pc |-> "scan", plan |-> reg]
    /\ UNCHANGED disk
    /\ UnchangedByQuery

(* After the gap it plans again, and keeps this guard while it restores. *)
QueryReplan ==
    /\ query.pc = "gap"
    /\ OpRead("query")
    /\ query' = [pc |-> "restore", plan |-> reg]
    /\ UNCHANGED disk
    /\ UnchangedByQuery

QueryRestore ==
    /\ query.pc = "restore"
    /\ LET missing == Bodyless(query.plan)
       IN  IF Restorable(missing)
           THEN /\ disk' = WithBodies(disk, missing)
                /\ query' = [query EXCEPT !.pc = "scan"]
                /\ UNCHANGED lock
           ELSE Release("query") /\ query' = IdleQuery /\ UNCHANGED disk
    /\ UnchangedByQuery

QueryEnd ==
    /\ query.pc = "scan"
    /\ Release("query")
    /\ query' = IdleQuery
    /\ UNCHANGED disk
    /\ UnchangedByQuery

----------------------------------------------------------------------------
(* collect_orphans_at: a pass reads the active set and the ledger, and     *)
(* deletes at its end what an earlier pass had sighted.                    *)

UnchangedByGc == UNCHANGED <<phase, content, disk, reg, lock, merge, ret, query, boot, expired, used>>

(* What the grace period is for: no publish outlasts it, so a publish in   *)
(* flight was not sighted a grace period ago.                              *)
InGrace == IF merge.pc = "commit" THEN {merge.new} ELSE {}

(* Mutant: what was sighted is deleted without a look at the manifest. *)
GcBeginBlind ==
    /\ phase = "up" /\ Remote /\ gc.pc = "idle"
    /\ gc' = [pc |-> "pass", active |-> store.cat, doomed |-> store.seen \ InGrace]
    /\ UNCHANGED store
    /\ UnchangedByGc

GcBegin ==
    /\ phase = "up" /\ Remote /\ gc.pc = "idle"
    /\ gc' = [pc |-> "pass", active |-> store.cat,
              doomed |-> store.seen \ (store.cat \union InGrace)]
    /\ UNCHANGED store
    /\ UnchangedByGc

GcEnd ==
    /\ gc.pc = "pass"
    /\ store' = [store EXCEPT !.objs = @ \ gc.doomed,
                  !.seen = ((@ \union store.objs) \ gc.active) \ gc.doomed]
    /\ gc' = IdleGc
    /\ UnchangedByGc

----------------------------------------------------------------------------
(* A crash keeps the disk and the store.  A start repairs them before it   *)
(* serves: reconcile_local_cache with a store, discover_parts without.     *)

Crash ==
    /\ phase # "down"
    /\ used.crashes < MaxCrashes
    /\ used' = [used EXCEPT !.crashes = @ + 1]
    /\ phase' = "down"
    /\ reg' = {} /\ lock' = NoLocks /\ boot' = NoBoot
    /\ merge' = IdleMerge /\ ret' = IdleRet /\ query' = IdleQuery /\ gc' = IdleGc
    /\ UNCHANGED <<content, disk, store, expired>>

UnchangedByBoot == UNCHANGED <<content, lock, merge, ret, query, gc, expired, used>>

(* restore_catalog brings back the catalog files of the manifest's parts,  *)
(* and restore_parts the bodies of those that still carry a tombstone.     *)
Restored(d, cat) ==
    [d EXCEPT !.dir = [p \in Parts |->
        IF p \in cat /\ d.tomb[p] # {} THEN "full"
        ELSE IF p \in cat /\ @[p] = "none" THEN "shell" ELSE @[p]]]

Start ==
    /\ phase = "down"
    /\ IF Remote
       THEN disk' = Restored(disk, store.cat) /\ phase' = "replay"
       ELSE phase' = "discover" /\ UNCHANGED disk
    /\ boot' = NoBoot
    /\ UNCHANGED <<store, reg>>
    /\ UnchangedByBoot

(* collect_local_merge_groups: a whole directory and the tombstone in it. *)
Merged == {p \in Parts : disk.tomb[p] # {} /\ disk.dir[p] = "full"}

(* The parts reached from S by following `edges`, a set of parts for each part. *)
Reached(S, edges) ==
    LET F[n \in 0..MaxParts] ==
            IF n = 0 THEN S ELSE F[n - 1] \union UNION {edges[p] : p \in F[n - 1]}
    IN  F[MaxParts]

Outputs == [p \in Parts |-> {q \in Merged : p \in disk.tomb[q]}]
Replaces == disk.tomb

(* Two outputs that name the same inputs are competing attempts. *)
Competing == \E p, q \in Merged : p # q /\ disk.tomb[p] = disk.tomb[q]

(* The interrupted merges are replayed, inputs before outputs: finished,   *)
(* published now, superseded, or a conflict that ends the start.           *)
Replay ==
    /\ phase = "replay"
    /\ \E p \in Merged \ boot.done :
          /\ disk.tomb[p] \intersect (Merged \ boot.done) = {}
          /\ LET active == disk.tomb[p] \intersect store.cat
             IN  \/ /\ ~Competing
                    /\ \/ p \in store.cat /\ active = {}
                       \/ /\ active # disk.tomb[p]
                          /\ Reached({p}, Outputs) \intersect store.cat # {}
                    /\ boot' = [boot EXCEPT !.done = @ \union {p}]
                    /\ UNCHANGED <<store, phase>>
                 \/ /\ ~Competing /\ active = disk.tomb[p]
                    /\ boot' = [boot EXCEPT !.done = @ \union {p}]
                    /\ store' = [store EXCEPT !.cat = Replaced(@, active, p),
                                              !.objs = @ \union {p}]
                    /\ UNCHANGED phase
                 \/ /\ \/ Competing
                       \/ /\ active # disk.tomb[p]
                          /\ Reached({p}, Outputs) \intersect store.cat = {}
                    /\ phase' = "wedged"
                    /\ UNCHANGED <<store, boot>>
    /\ UNCHANGED <<disk, reg>>
    /\ UnchangedByBoot

Replayed ==
    /\ phase = "replay" /\ Merged \subseteq boot.done
    /\ phase' = "discover"
    /\ UNCHANGED <<disk, store, reg, boot>>
    /\ UnchangedByBoot

(* discover_parts, first pass: everything a whole replacement replaces,    *)
(* through every generation, is dead.                                      *)
Discover ==
    /\ phase = "discover"
    /\ LET dead == Reached(UNION {disk.tomb[p] : p \in Merged}, Replaces)
       IN  boot' = [boot EXCEPT !.dead = dead, !.left = dead, !.valid = Merged]
    /\ phase' = "cleanup"
    /\ UNCHANGED <<disk, store, reg>>
    /\ UnchangedByBoot

Cleanup ==
    /\ phase = "cleanup"
    /\ \E p \in boot.left :
          /\ disk' = Without(disk, {p})
          /\ boot' = [boot EXCEPT !.left = @ \ {p}]
    /\ UNCHANGED <<store, reg, phase>>
    /\ UnchangedByBoot

(* Then the tombstones of the replacements go. *)
CleanedUp ==
    /\ phase = "cleanup" /\ boot.left = {}
    /\ disk' = [disk EXCEPT !.tomb = [p \in Parts |-> IF p \in boot.valid THEN {} ELSE @[p]]]
    /\ phase' = "load"
    /\ UNCHANGED <<store, reg, boot>>
    /\ UnchangedByBoot

(* discover_parts, second pass: what survives. *)
Survivors == {p \in Parts : disk.dir[p] # "none"} \ (boot.dead \union
                 {p \in Parts : disk.tomb[p] # {} /\ p \notin boot.valid})

(* publish_local_only_parts: a part with its body that the manifest does   *)
(* not list is published if its upload was interrupted, or if the store    *)
(* has no objects of it.                                                   *)
Unpublished ==
    {p \in Survivors \ store.cat :
        disk.dir[p] = "full" /\ (p \in disk.marker \/ p \notin store.objs)}

(* A shell the store knows nothing of is quarantined. *)
Quarantined == {p \in Survivors \ store.cat : disk.dir[p] = "shell" /\ p \notin store.objs}

(* The registry is the manifest with a store, the survivors without. *)
Load ==
    /\ phase = "load"
    /\ phase' = "up"
    /\ IF Remote
       THEN LET cat == store.cat \union Unpublished
            IN  /\ store' = [store EXCEPT !.cat = cat, !.objs = @ \union Unpublished]
                /\ disk' = LET d == Without(disk, Quarantined)
                           IN  Restored([d EXCEPT !.marker = @ \ (cat \intersect Survivors)], cat)
                /\ reg' = cat
       ELSE reg' = Survivors /\ UNCHANGED <<store, disk>>
    /\ boot' = NoBoot
    /\ UnchangedByBoot

Expire ==
    /\ \E r \in Expiring \ expired : expired' = expired \union {r}
    /\ UNCHANGED <<phase, content, disk, store, reg, lock, merge, ret, query, gc, boot, used>>

Next ==
    \/ MergeNext \/ RetNext \/ EvictLockFiles \/ Evict
    \/ QueryPlan \/ QueryReplan \/ QueryRestore \/ QueryEnd
    \/ GcBegin \/ GcEnd \/ Expire \/ Crash
    \/ Start \/ Replay \/ Replayed \/ Discover \/ Cleanup \/ CleanedUp \/ Load

Spec == Init /\ [][Next]_vars

----------------------------------------------------------------------------
(* What holds. *)

(* A query counts every row that has not expired exactly once, whatever    *)
(* merge, retention and the restarts before it did: the parts it planned   *)
(* under the operation lock partition the live rows.                       *)
LiveRowsOnce ==
    query.pc = "scan" =>
        \A r \in Rows \ expired : Cardinality({p \in query.plan : r \in content[p]}) = 1

(* While a query scans, the body of every part it planned is on disk: no   *)
(* merge, retention or eviction removes a file from under a pinned query.  *)
PinnedIsReadable ==
    query.pc = "scan" => \A p \in query.plan : disk.dir[p] = "full"

(* A live row is never lost, at any crash point: with a store, a part the  *)
(* manifest lists holds it and the collector has left the objects of every *)
(* listed part alone; without, a directory that a restart finds holds it.  *)
RowsKept ==
    /\ store.cat \subseteq store.objs
    /\ \A r \in Rows \ expired :
          \E p \in Parts :
              r \in content[p] /\ (IF Remote THEN p \in store.cat ELSE disk.dir[p] = "full")

(* reconcile_local_cache repairs every state a crash can leave. *)
StartsAgain == phase # "wedged"
=============================================================================
