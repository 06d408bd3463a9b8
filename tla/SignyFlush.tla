----------------------------- MODULE SignyFlush -----------------------------
(***************************************************************************)
(* signy's flush: how an acknowledged row moves from the journal and the   *)
(* memtable into an immutable part, and how the journal is cut behind it   *)
(* (flush.rs, shutdown.rs, journal/compaction.rs, journal/replay.rs,       *)
(* object_storage/recovery.rs, startup.rs).                                *)
(*                                                                         *)
(* One process owns a data directory, `disk`: the journal with its         *)
(* checkpoint, the two files of a compaction in progress, the part         *)
(* directories and the flush intent.  With Remote it also owns a prefix of *)
(* an object store, `store`: the catalog and the part objects.  `proc` is  *)
(* what a crash loses: the memtable and the snapshot being flushed, the    *)
(* registry queries plan from, the cached catalog, the checkpoint still to *)
(* be retried, and where the flush task stands.                            *)
(*                                                                         *)
(* A row is its number, a journal offset counts rows, and a part is its    *)
(* number with the rows it holds.  The three signals move together through *)
(* flush_once and are one here.  An optional value is a set of at most one *)
(* element.                                                                *)
(***************************************************************************)
EXTENDS Naturals, Sequences

CONSTANTS
    Remote,      \* whether an object store is configured
    MinBytes,    \* wal_compact_min_bytes
    RetireFails, \* whether the fsync after the compaction record's removal may fail
    MaxRows,     \* bound on appended rows
    MaxParts,    \* bound on written parts
    MaxCrashes,  \* bound on crashes
    MaxFaults    \* bound on failed writes

VARIABLES
    disk,  \* [wal, ckpt, tmp, comp, dirs, txn]: survives a crash
    store, \* [cat, objs]: the object store
    proc,  \* the running process
    used   \* [rows, parts, crashes, faults]: what has been spent of the bounds

vars == <<disk, store, proc, used>>

The(option) == CHOOSE x \in option : TRUE

(* A process that is not running. *)
Down == [up |-> FALSE, first |-> 0, mem |-> {}, snap |-> {}, reg |-> {},
         cached |-> {}, pending |-> {}, drain |-> FALSE,
         pc |-> "down", off |-> 0, part |-> {}, then |-> "idle"]

EmptyDisk == [wal |-> <<>>, ckpt |-> 0, tmp |-> {}, comp |-> {},
              dirs |-> {}, txn |-> {}]

Init ==
    /\ disk = EmptyDisk
    /\ store = [cat |-> {}, objs |-> {}]
    /\ proc = Down
    /\ used = [rows |-> 0, parts |-> 0, crashes |-> 0, faults |-> 0]

----------------------------------------------------------------------------
(* Vocabulary of the steps. *)

At(pc) == proc.up /\ proc.pc = pc

(* The flush task moves on. *)
Go(pc) == proc' = [proc EXCEPT !.pc = pc]

(* A write fails. *)
Fault ==
    /\ used.faults < MaxFaults
    /\ used' = [used EXCEPT !.faults = @ + 1]

RowsFrom(w, n) == {w[i] : i \in (n + 1)..Len(w)}

(* abort_flush: the snapshot goes back into the memtable. *)
Aborted(p) == [p EXCEPT !.mem = @ \union p.snap, !.snap = {}, !.part = {},
                        !.pc = "idle", !.then = "idle"]

(* The flush failed: its part directories are removed and the snapshot is  *)
(* reinserted.                                                             *)
AbortFlush ==
    /\ disk' = [disk EXCEPT !.dirs = @ \ proc.part]
    /\ proc' = Aborted(proc)

----------------------------------------------------------------------------
(* Appends.  A batch is written and synced, inserted and acknowledged; the *)
(* writer task is the one that compacts, so nothing is appended meanwhile. *)

Compacting == {"restore", "untmp", "unstate", "copy", "state", "zero", "rename", "retire"}
Starting == {"recover", "replay", "adopt", "load"}

AppendRow ==
    /\ proc.up /\ ~proc.drain
    /\ proc.pc \notin Compacting \union Starting
    /\ ~(proc.pc \in {"undo", "delete"} /\ proc.then = "load")
    /\ used.rows < MaxRows
    /\ used' = [used EXCEPT !.rows = @ + 1]
    /\ disk' = [disk EXCEPT !.wal = Append(@, used.rows + 1)]
    /\ proc' = [proc EXCEPT !.mem = @ \union {used.rows + 1}]
    /\ UNCHANGED store

----------------------------------------------------------------------------
(* flush_once up to the visible part. *)

(* The loop first retries the checkpoint a previous flush could not write. *)
RetryPending ==
    /\ At("idle") /\ proc.pending # {}
    /\ proc' = [proc EXCEPT !.pc = "advance", !.off = The(proc.pending)]
    /\ UNCHANGED <<disk, store, used>>

(* Journal::checkpoint: the offset and the snapshot are taken together in  *)
(* the writer task.  An empty snapshot only advances the checkpoint.       *)
Checkpoint ==
    /\ At("idle") /\ proc.pending = {}
    /\ proc.mem # {} \/ proc.drain
    /\ proc' = [proc EXCEPT !.off = Len(disk.wal), !.snap = proc.mem, !.mem = {},
                            !.pc = IF proc.mem = {} THEN "advance" ELSE "build"]
    /\ UNCHANGED <<disk, store, used>>

(* The parts are written, synced and opened on the blocking thread. *)
Build ==
    /\ At("build") /\ used.parts < MaxParts
    /\ LET part == [id |-> used.parts + 1, rows |-> proc.snap] IN
       /\ disk' = [disk EXCEPT !.dirs = @ \union {part}]
       /\ proc' = [proc EXCEPT !.part = {part}, !.pc = IF Remote THEN "reconcile" ELSE "register"]
    /\ used' = [used EXCEPT !.parts = @ + 1]
    /\ UNCHANGED store

BuildFails ==
    /\ At("build") /\ Fault
    /\ proc' = Aborted(proc)
    /\ UNCHANGED <<disk, store>>

(* reconcile_flush_transaction: a leftover intent is cleared when the      *)
(* checkpoint has passed it and rolled back otherwise.  The flush does     *)
(* this before its own intent, startup before it loads the parts.          *)
ReconcileFlush(next) ==
    /\ IF disk.txn = {}
       THEN Go(next) /\ UNCHANGED disk
       ELSE IF disk.ckpt >= The(disk.txn).off
       THEN Go(next) /\ disk' = [disk EXCEPT !.txn = {}]
       ELSE proc' = [proc EXCEPT !.pc = "undo", !.then = next] /\ UNCHANGED disk
    /\ UNCHANGED <<store, used>>

Reconcile == At("reconcile") /\ ReconcileFlush("intent")

WriteIntent ==
    /\ At("intent")
    /\ disk' = [disk EXCEPT !.txn = {[off |-> proc.off, part |-> The(proc.part)]}]
    /\ Go("upload")
    /\ UNCHANGED <<store, used>>

WriteIntentFails ==
    /\ At("intent") /\ Fault
    /\ AbortFlush
    /\ UNCHANGED store

----------------------------------------------------------------------------
(* The catalog.  A commit answers with success, fails with nothing written *)
(* or fails after its object was created; only success refreshes the       *)
(* cached state.                                                           *)

Seen == IF proc.cached = {} THEN store.cat ELSE The(proc.cached)

(* The part of the intent. *)
Intended == The(disk.txn).part

Committed(cat) ==
    /\ store' = [store EXCEPT !.cat = cat]
    /\ UNCHANGED used

CommitLost(cat) ==
    /\ Fault
    /\ store' \in {store, [store EXCEPT !.cat = cat]}

(* publish_flush_parts: the objects first, then one commit. *)
Upload ==
    /\ At("upload")
    /\ store' = [store EXCEPT !.objs = @ \union proc.part]
    /\ Go("commit")
    /\ UNCHANGED <<disk, used>>

Publish ==
    /\ At("commit")
    /\ Committed(store.cat \union proc.part)
    /\ proc' = [proc EXCEPT !.cached = {store.cat \union proc.part}, !.pc = "register"]
    /\ UNCHANGED disk

PublishFails ==
    /\ \/ At("upload") /\ Fault /\ UNCHANGED store
       \/ At("commit") /\ CommitLost(store.cat \union proc.part)
    /\ proc' = [proc EXCEPT !.cached = {Seen}, !.pc = "undo", !.then = "abort"]
    /\ UNCHANGED disk

(* rollback_flush_transaction_value: the parts leave the catalog if the    *)
(* loaded state names them, then their objects and directories go, then    *)
(* the intent.                                                             *)
Undo ==
    /\ At("undo")
    /\ IF Intended \in Seen
       THEN /\ Committed(store.cat \ {Intended})
            /\ proc' = [proc EXCEPT !.cached = {store.cat \ {Intended}}, !.pc = "delete"]
       ELSE /\ proc' = [proc EXCEPT !.cached = {Seen}, !.pc = "delete"]
            /\ UNCHANGED <<store, used>>
    /\ UNCHANGED disk

UndoDelete ==
    /\ At("delete")
    /\ store' = [store EXCEPT !.objs = @ \ {Intended}]
    /\ disk' = [disk EXCEPT !.dirs = @ \ {Intended}, !.txn = {}]
    /\ proc' = [proc EXCEPT !.pc = proc.then, !.then = "idle"]
    /\ UNCHANGED used

(* A failed rollback leaves the intent; a flush gives up, startup dies. *)
UndoFails ==
    /\ \/ At("undo") /\ Intended \in Seen /\ CommitLost(store.cat \ {Intended})
       \/ At("delete") /\ Fault /\ UNCHANGED store
    /\ IF proc.then = "load"
       THEN proc' = Down /\ UNCHANGED disk
       ELSE AbortFlush

Abort ==
    /\ At("abort")
    /\ AbortFlush
    /\ UNCHANGED <<store, used>>

RegisterEarly ==
    /\ At("register")
    /\ proc' = [proc EXCEPT !.reg = @ \union proc.part, !.part = {}, !.pc = "advance"]
    /\ UNCHANGED <<disk, store, used>>

(* The part becomes visible and the snapshot goes, under the operation     *)
(* lock's write half.                                                      *)
Register ==
    /\ At("register")
    /\ proc' = [proc EXCEPT !.reg = @ \union proc.part, !.snap = {}, !.part = {},
                            !.pc = "advance"]
    /\ UNCHANGED <<disk, store, used>>

----------------------------------------------------------------------------
(* advance_checkpoint: write the checkpoint, or cut the journal behind it. *)

Max2(a, b) == IF a >= b THEN a ELSE b

ShouldCompact ==
    Remote \/ proc.off >= Max2(MinBytes, Len(disk.wal) - proc.off)

SetCheckpoint ==
    /\ At("advance") /\ ~ShouldCompact
    /\ disk' = [disk EXCEPT !.ckpt = proc.off]
    /\ proc' = [proc EXCEPT !.pending = {}, !.pc = "clear"]
    /\ UNCHANGED <<store, used>>

(* The rename may have happened before the failure. *)
SetCheckpointFails ==
    /\ At("advance") /\ ~ShouldCompact /\ Fault
    /\ disk' \in {disk, [disk EXCEPT !.ckpt = proc.off]}
    /\ proc' = [proc EXCEPT !.pending = {proc.off}, !.pc = "idle"]
    /\ UNCHANGED store

(* compact_wal begins by looking for the record of an unfinished attempt:  *)
(* without its temporary file the replacement journal is already in place, *)
(* with it the old checkpoint is restored before the new attempt.          *)
CompactBegin ==
    /\ At("advance") /\ ShouldCompact
    /\ IF disk.comp = {}
       THEN Go("copy")
       ELSE IF disk.tmp = {}
       THEN Go("retire")
       ELSE proc' = [proc EXCEPT !.pc = "restore", !.then = "copy"]
    /\ UNCHANGED <<disk, store, used>>

CompactCopy ==
    /\ At("copy") /\ proc.off <= Len(disk.wal)
    /\ disk' = [disk EXCEPT !.tmp = {SubSeq(disk.wal, proc.off + 1, Len(disk.wal))}]
    /\ Go("state")
    /\ UNCHANGED <<store, used>>

CompactTooFar ==
    /\ At("copy") /\ proc.off > Len(disk.wal)
    /\ proc' = [proc EXCEPT !.pending = {proc.off}, !.pc = "idle"]
    /\ UNCHANGED <<disk, store, used>>

CompactState ==
    /\ At("state")
    /\ disk' = [disk EXCEPT !.comp = {proc.off}]
    /\ Go("zero")
    /\ UNCHANGED <<store, used>>

CompactZeroSkipped ==
    /\ At("zero")
    /\ Go("rename")
    /\ UNCHANGED <<disk, store, used>>

CompactZero ==
    /\ At("zero")
    /\ disk' = [disk EXCEPT !.ckpt = 0]
    /\ Go("rename")
    /\ UNCHANGED <<store, used>>

CompactRename ==
    /\ At("rename")
    /\ disk' = [disk EXCEPT !.wal = The(disk.tmp), !.tmp = {}]
    /\ Go("retire")
    /\ UNCHANGED <<store, used>>

CompactRetire ==
    /\ At("retire")
    /\ disk' = [disk EXCEPT !.comp = {}]
    /\ proc' = [proc EXCEPT !.pending = {}, !.pc = "clear"]
    /\ UNCHANGED <<store, used>>

(* Any of the writes may fail; the offset is kept for a retry.  A failure  *)
(* at "retire" is the fsync before the record's removal or, with           *)
(* RetireFails, the one after it.                                          *)
CompactFails ==
    /\ proc.up /\ proc.pc \in Compacting /\ proc.then # "replay"
    /\ Fault
    /\ disk' \in {disk} \union
         (IF proc.pc = "retire" /\ RetireFails THEN {[disk EXCEPT !.comp = {}]} ELSE {})
    /\ proc' = [proc EXCEPT !.pending = {proc.off}, !.then = "idle", !.pc = "idle"]
    /\ UNCHANGED store

(* The committed flush forgets its intent; a failure is only logged. *)
ClearIntent ==
    /\ At("clear")
    /\ disk' = [disk EXCEPT !.txn = {}]
    /\ Go(IF proc.drain THEN "passed" ELSE "idle")
    /\ UNCHANGED <<store, used>>

ClearIntentFails ==
    /\ At("clear") /\ Remote /\ Fault
    /\ Go(IF proc.drain THEN "passed" ELSE "idle")
    /\ UNCHANGED <<disk, store>>

----------------------------------------------------------------------------
(* Unfinished compactions, on a retry and at startup: the checkpoint, then *)
(* the temporary file, then the record.                                    *)

Restore ==
    /\ At("restore")
    /\ disk' = [disk EXCEPT !.ckpt = The(disk.comp)]
    /\ Go("untmp")
    /\ UNCHANGED <<store, used>>

RemoveTmp ==
    /\ At("untmp")
    /\ disk' = [disk EXCEPT !.tmp = {}]
    /\ Go("unstate")
    /\ UNCHANGED <<store, used>>

RemoveState ==
    /\ At("unstate")
    /\ disk' = [disk EXCEPT !.comp = {}]
    /\ proc' = [proc EXCEPT !.pc = proc.then, !.then = "idle"]
    /\ UNCHANGED <<store, used>>

----------------------------------------------------------------------------
(* Startup. *)

Boot ==
    /\ ~proc.up
    /\ proc' = [Down EXCEPT !.up = TRUE, !.pc = "recover"]
    /\ UNCHANGED <<disk, store, used>>

(* recover_unfinished_compaction *)
Recover ==
    /\ At("recover")
    /\ IF disk.comp # {} /\ disk.tmp # {}
       THEN proc' = [proc EXCEPT !.pc = "restore", !.then = "replay"] /\ UNCHANGED disk
       ELSE Go("replay") /\ disk' = [disk EXCEPT !.comp = {}]
    /\ UNCHANGED <<store, used>>

Replay ==
    /\ At("replay") /\ disk.ckpt <= Len(disk.wal)
    /\ proc' = [proc EXCEPT !.mem = RowsFrom(disk.wal, disk.ckpt),
                            !.first = used.rows + 1,
                            !.pc = IF Remote THEN "adopt" ELSE "load"]
    /\ UNCHANGED <<disk, store, used>>

Adopt == At("adopt") /\ ReconcileFlush("load")

(* Local: the registry is what the directories hold. *)
LoadLocal ==
    /\ At("load") /\ ~Remote
    /\ proc' = [proc EXCEPT !.reg = disk.dirs, !.pc = "idle"]
    /\ UNCHANGED <<disk, store, used>>

(* reconcile_local_cache: interrupted or local-only parts are published,   *)
(* the catalog's parts downloaded, and the registry is the catalog.  A     *)
(* catalogued part with neither directory nor objects stops startup.       *)
LoadRemote ==
    /\ At("load") /\ Remote
    /\ store.cat \subseteq disk.dirs \union store.objs
    /\ LET unpublished == (disk.dirs \ store.cat) \ store.objs
           cat == store.cat \union unpublished IN
       /\ store' = [cat |-> cat, objs |-> store.objs \union unpublished]
       /\ disk' = [disk EXCEPT !.dirs = @ \union cat]
       /\ proc' = [proc EXCEPT !.reg = cat, !.cached = {cat}, !.pc = "idle"]
    /\ UNCHANGED used

----------------------------------------------------------------------------
(* Shutdown and crashes. *)

(* The flush loop returns, and with it the offset it still had to retry;   *)
(* finalize_flush then runs force-flush passes of its own.                 *)
Drain ==
    /\ At("idle") /\ ~proc.drain
    /\ proc' = [proc EXCEPT !.drain = TRUE, !.pending = {}]
    /\ UNCHANGED <<disk, store, used>>

(* The pass that leaves nothing behind ends the process. *)
Passed ==
    /\ At("passed") /\ proc.mem = {}
    /\ proc' = [Down EXCEPT !.pc = "exited"]
    /\ UNCHANGED <<disk, store, used>>

(* After a durable exit the machine, and its disk, may be replaced. *)
Replace ==
    /\ Remote /\ ~proc.up /\ proc.pc = "exited"
    /\ disk' = EmptyDisk
    /\ proc' = Down
    /\ UNCHANGED <<store, used>>

Crash ==
    /\ proc.up /\ used.crashes < MaxCrashes
    /\ used' = [used EXCEPT !.crashes = @ + 1]
    /\ proc' = Down
    /\ UNCHANGED <<disk, store>>

----------------------------------------------------------------------------
Next ==
    \/ AppendRow
    \/ RetryPending \/ Checkpoint \/ Build \/ BuildFails
    \/ Reconcile \/ WriteIntent \/ WriteIntentFails
    \/ Upload \/ Publish \/ PublishFails
    \/ Undo \/ UndoDelete \/ UndoFails \/ Abort \/ Register
    \/ SetCheckpoint \/ SetCheckpointFails
    \/ CompactBegin \/ CompactCopy \/ CompactTooFar \/ CompactState
    \/ CompactZero \/ CompactRename \/ CompactRetire \/ CompactFails
    \/ ClearIntent \/ ClearIntentFails
    \/ Restore \/ RemoveTmp \/ RemoveState
    \/ Boot \/ Recover \/ Replay \/ Adopt \/ LoadLocal \/ LoadRemote
    \/ Drain \/ Passed \/ Replace \/ Crash

Spec == Init /\ [][Next]_vars

----------------------------------------------------------------------------
(* Where a restart would begin its replay. *)
ReplayFrom == IF disk.comp # {} /\ disk.tmp # {} THEN The(disk.comp) ELSE disk.ckpt

(* The rows a restart would find. *)
KeptRows ==
    RowsFrom(disk.wal, ReplayFrom)
      \union UNION {p.rows : p \in IF Remote THEN store.cat \intersect store.objs ELSE disk.dirs}

(***************************************************************************)
(* No acknowledged row is ever lost: at every instant, the middle of a     *)
(* compaction or of a recovery included, a restart finds each one in the   *)
(* part of the journal it replays or in a part it will serve               *)
(* (journal/compaction.rs: "every crash point at-least-once safe").        *)
(***************************************************************************)
AckedKept == 1..used.rows \subseteq KeptRows

(***************************************************************************)
(* The catalog never names a part whose objects are gone: a rollback and a *)
(* replacement delete objects only after the catalog has dropped the part  *)
(* (rollback_flush_transaction_value), so a startup can always download    *)
(* what the catalog lists.                                                 *)
(***************************************************************************)
CatalogHasObjects == store.cat \subseteq store.objs

(***************************************************************************)
(* A query sees every row acknowledged by the running process exactly      *)
(* once: in the memtable, in the snapshot being flushed or in one          *)
(* registered part.  Registration and commit_flush are one transition, an  *)
(* aborted flush leaves no part behind and a checkpoint that could not be  *)
(* written does not flush its rows again (flush_once).                     *)
(***************************************************************************)
VisibleOnce ==
    (proc.up /\ proc.first > 0) =>
      \A r \in proc.first..used.rows :
        LET parts == {p \in proc.reg : r \in p.rows} IN
        \/ r \in proc.mem /\ r \notin proc.snap /\ parts = {}
        \/ r \notin proc.mem /\ r \in proc.snap /\ parts = {}
        \/ r \notin proc.mem \union proc.snap /\ \E p \in parts : parts = {p}
=============================================================================
