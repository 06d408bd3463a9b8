------------------------------ MODULE MCSigny -------------------------------
(* Signy's storage side by side: the catalog in the object store              *)
(* (SignyCatalog, extended), the flush of the journal and the life of the     *)
(* parts after it, each on a machine of its own (L, ML) and with an object    *)
(* store (R, MR).  A behaviour runs one of the five; the variables it does    *)
(* not use stay as they are.                                                  *)
EXTENDS SignyCatalog, TLC

VARIABLES part, fdisk, fstore, fproc, fused,
          phase, content, disk, mstore, reg, lock, merge, ret, query, boot, gc, expired, used

L == INSTANCE SignyFlush WITH
  Remote <- FALSE, MinBytes <- 2, RetireFails <- FALSE, MaxRows <- 4, MaxParts <- 4,
  MaxCrashes <- 2, MaxFaults <- 3, disk <- fdisk, store <- fstore, proc <- fproc, used <- fused
R == INSTANCE SignyFlush WITH
  Remote <- TRUE, MinBytes <- 2, RetireFails <- TRUE, MaxRows <- 2, MaxParts <- 2,
  MaxCrashes <- 1, MaxFaults <- 2, disk <- fdisk, store <- fstore, proc <- fproc, used <- fused

ML == INSTANCE SignyMerge WITH
  Remote <- FALSE, Inputs <- {1, 2}, Expiring <- {1, 2}, MaxParts <- 3,
  Failing <- {"open", "clean"}, MaxFaults <- 2, MaxCrashes <- 2, store <- mstore
MR == INSTANCE SignyMerge WITH
  Remote <- TRUE, Inputs <- {1, 2}, Expiring <- {1}, MaxParts <- 3,
  Failing <- {"open", "publish", "retire"}, MaxFaults <- 1, MaxCrashes <- 2, store <- mstore

fvars == <<fdisk, fstore, fproc, fused>>
mvars == <<phase, content, disk, mstore, reg, lock, merge, ret, query, boot, gc, expired, used>>

MCInit ==
  /\ Init /\ L!Init
  /\ \/ part \in {"catalog", "flush", "flush remote", "parts"} /\ ML!Init
     \/ part = "parts remote" /\ MR!Init

InCatalog     == part = "catalog" /\ Next /\ UNCHANGED <<fvars, mvars>>
InFlush       == part = "flush" /\ L!Next /\ UNCHANGED <<vars, mvars>>
InFlushRemote == part = "flush remote" /\ R!Next /\ UNCHANGED <<vars, mvars>>
InParts       == part = "parts" /\ ML!Next /\ UNCHANGED <<vars, fvars>>
InPartsRemote == part = "parts remote" /\ MR!Next /\ UNCHANGED <<vars, fvars>>

MCNext == UNCHANGED part /\ (InCatalog \/ InFlush \/ InFlushRemote \/ InParts \/ InPartsRemote)
MCSpec == MCInit /\ [][MCNext]_<<part, vars, fvars, mvars>>

Symmetry == Permutations(Instances)

-----------------------------------------------------------------------------
\* Without an object store, every acknowledged row is in a part a restart shows
\* or in the part of the WAL a restart replays (flush_once, compact_wal, replay).
AckedKept == part = "flush" => L!AckedKept

\* A query never sees a row in two places (flush_once, PartRegistry).
VisibleOnce == IF part = "flush remote" THEN R!VisibleOnce ELSE L!VisibleOnce

\* A query counts every live row exactly once, whatever merge, retention and
\* restarts did before it (merge_once, retention_once_at, discover_parts).
LiveRowsOnce == ML!LiveRowsOnce /\ MR!LiveRowsOnce

\* No file goes from under a query that has pinned it (pin_remote_parts, the
\* eviction loop, merge_once's cleanup).
PinnedIsReadable == ML!PinnedIsReadable /\ MR!PinnedIsReadable

\* Merge, retention, the orphan collector and crashes at any step lose no live
\* row (publish, collect_orphans_at, reconcile_local_cache).
RowsKept == IF part = "parts remote" THEN MR!RowsKept ELSE ML!RowsKept
=============================================================================
