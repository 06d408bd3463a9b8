------------------------------ MODULE DodbStore ------------------------------
(***************************************************************************)
(* The persistence protocol of one dodb shard (dodb-storage): the          *)
(* write-ahead log of wal.rs, the data file with its two superblock slots  *)
(* of superblock.rs, and BTreeStore's open, group commit, flush and        *)
(* checkpoint of btree/mod.rs.                                             *)
(*                                                                         *)
(* A data page is abstracted to the commit that wrote its image: the LSN   *)
(* in its header and the transaction whose effects it shows.  A page whose *)
(* checksum fails, or that lies beyond the end of the file, is NoPage.     *)
(* Every file has a volatile image (what the kernel answers reads from)    *)
(* and a durable one (what a power loss leaves).                           *)
(***************************************************************************)
EXTENDS Integers, Sequences, FiniteSets, FiniteSetsExt

CONSTANTS
  MaxPage,    \* data pages a shard can grow to
  MaxTx,      \* transactions ever staged
  MaxGroup,   \* transactions sharing one WAL sync
  MaxCrash,   \* power losses, and process deaths that leave the page cache intact
  MaxIoErr,   \* failing syncs
  PowerAfterKill  \* may the power fail after a process death left unsynced writes?

ASSUME BoundsAssumption ==
  /\ MaxPage \in Nat \ {0} /\ MaxTx \in Nat /\ MaxGroup \in Nat \ {0}
  /\ MaxCrash \in Nat /\ MaxIoErr \in Nat
  /\ PowerAfterKill \in BOOLEAN

VARIABLES
  file, disk,   \* data file: volatile and durable image
  wal, dwal,    \* WAL file: volatile and durable image
  pc,           \* where the coordinator thread is in the store's code
  goal,         \* the operation a flush belongs to
  broken,       \* BTreeStore::broken is set
  mem,          \* the store's committed in-memory state
  ov,           \* Overlay: the state a group under preparation would publish
  hist,         \* history: transactions in the order they were staged
  acked,        \* history: transactions answered with success
  used          \* how much of each bound is consumed

disks == <<file, disk, wal, dwal>>
vars  == <<file, disk, wal, dwal, pc, goal, broken, mem, ov, hist, acked, used>>

Larger(a, b) == IF a >= b THEN a ELSE b
Page == 1..MaxPage
Slot == {0, 1}
OtherSlot(s) == 1 - s

NoPage == [lsn |-> -1, tx |-> -1]
Clean  == [lsn |-> -2, tx |-> -2]
NoSb   == [gen |-> 0, ckpt |-> 0, hw |-> 0, tx |-> 0]

EmptyFile == [len |-> 0, page |-> [p \in Page |-> NoPage], slot |-> [s \in Slot |-> NoSb]]
EmptyWal  == [init |-> "none", start |-> 0, ents |-> <<>>, torn |-> FALSE]
InitWal(lsn) == [init |-> "ok", start |-> lsn, ents |-> <<>>, torn |-> FALSE]

(***************************************************************************)
(* A WAL entry is one commit unit: the frames first, first + 1, ... hold   *)
(* its data-page images, the superblock image and the COMMIT record.       *)
(* frames counts the ones in the file.                                     *)
(***************************************************************************)
CommitLsn(e) == e.first + Cardinality(e.pages) + 1
FrameCount(e) == Cardinality(e.pages) + 2
Complete(e) == e.frames = FrameCount(e)
Image(e) == [lsn |-> CommitLsn(e), tx |-> e.sb.tx]
Committed(w) == SelectSeq(w.ents, Complete)
LastCommit(w, default) ==
  LET c == Committed(w) IN IF c = <<>> THEN default ELSE CommitLsn(c[Len(c)])

\* scan_wal: what the frames of a log must satisfy, and the numbers it resumes from.
ScanOk(w) ==
  /\ w.init = "ok"
  /\ \A i \in 1..Len(w.ents) : w.ents[i].first > w.start
  /\ \A i \in 1..(Len(w.ents) - 1) :
       /\ w.ents[i + 1].first >= w.ents[i].first + w.ents[i].frames
       /\ w.ents[i + 1].batch > w.ents[i].batch
ScanNextLsn(w) ==
  IF w.ents = <<>> THEN 1 ELSE LET e == w.ents[Len(w.ents)] IN e.first + e.frames
ScanNextBatch(w) == IF w.ents = <<>> THEN 1 ELSE w.ents[Len(w.ents)].batch + 1

\* WalLog::resume_after: record LSNs continue above the checkpoint.
ResumeLsn(w, ckpt) == Larger(ScanNextLsn(w), ckpt + 1)

\* choose_superblock: the valid copy of highest generation, slot A on a tie.
ChooseSlot(f) == IF f.slot[0].gen >= f.slot[1].gen THEN 0 ELSE 1
Chosen(f) == f.slot[ChooseSlot(f)]
NoChoice(f) == f.len = 0 \/ Chosen(f) = NoSb

\* validate_existing_identity_before_wal: the checkpoint LSN recovery may trust.
CheckpointHint(f) == IF NoChoice(f) THEN 0 ELSE Chosen(f).ckpt

\* recover_data_file: a page is rewritten when it is invalid or older than the image.
NeedsRedoIfOlder(page, e) == page # NoPage /\ page.lsn < CommitLsn(e)
NeedsRedo(page, e) == page = NoPage \/ page.lsn < CommitLsn(e)

\* recover_data_file: redo the complete commits above the hint, in commit order.
Redo(f, w, hint) ==
  LET c == SelectSeq(Committed(w), LAMBDA e : CommitLsn(e) > hint)
      LastOn(S) == c[Max(S)]
      writing(p) == {i \in 1..Len(c) : p \in c[i].pages}
      stamping(s) == {i \in 1..Len(c) : c[i].slot = s}
      top == UNION {c[i].pages : i \in 1..Len(c)}
  IN  IF c = <<>> THEN f ELSE
      [len  |-> Max(top \cup {f.len, 1}),
       page |-> [p \in Page |->
                   IF writing(p) # {} /\ NeedsRedo(f.page[p], LastOn(writing(p)))
                   THEN Image(LastOn(writing(p))) ELSE f.page[p]],
       slot |-> [s \in Slot |->
                   IF stamping(s) # {} THEN LastOn(stamping(s)).sb ELSE f.slot[s]]]

\* metadata_from_superblock and check_invariants on the file a store opens.
FileSound(f) ==
  /\ f.len > 0 /\ Chosen(f) # NoSb
  /\ Chosen(f).hw = f.len
  /\ \A p \in 1..f.len : f.page[p] # NoPage

\* read_page_from_file: dirty committed images come before the data file.
ViewFileFirst == [p \in Page |-> IF file.page[p] # NoPage THEN file.page[p] ELSE mem.dirty[p]]
View == [p \in Page |-> IF mem.dirty[p] # Clean THEN mem.dirty[p] ELSE file.page[p]]

NothingDirty == mem.dirty = [p \in Page |-> Clean] /\ mem.dirtySb = NoSb
Serving == pc \notin {"down", "failed", "recover", "check"}
-----------------------------------------------------------------------------
FreshMem == [sb |-> NoSb, slot |-> 0, dirty |-> [p \in Page |-> Clean],
             dirtySb |-> NoSb, nextLsn |-> 1, nextBatch |-> 1]

Init ==
  /\ file = EmptyFile /\ disk = EmptyFile
  /\ wal = EmptyWal /\ dwal = EmptyWal
  /\ pc = "down" /\ goal = "none" /\ broken = FALSE
  /\ mem = FreshMem /\ ov = FreshMem
  /\ hist = <<>> /\ acked = {}
  /\ used = [tx |-> 0, power |-> 0, kill |-> 0, io |-> 0]

FirstSb == [gen |-> 1, ckpt |-> 0, hw |-> 1, tx |-> 0]
FirstFile ==
  [len  |-> 1,
   page |-> [p \in Page |-> IF p = 1 THEN [lsn |-> 0, tx |-> 0] ELSE NoPage],
   slot |-> [s \in Slot |-> FirstSb]]

\* WalLog::open: an empty log, or a torn INIT of the expected start, is written
\* anew; otherwise the scan decides and an incomplete last frame is cut off.
OpenedWal(w, hint) ==
  IF w.init = "none" \/ (w.init = "torn" /\ w.start = hint)
  THEN InitWal(hint) ELSE [w EXCEPT !.torn = FALSE]

(***************************************************************************)
(* open_with_wal_internal up to the data-file sync of recovery (or of the  *)
(* first initialization): the log is opened, the data file rewritten in    *)
(* the page cache.  Only a log that was rewritten or cut is synced, and    *)
(* only a data file that recovery wrote to.                                *)
(***************************************************************************)
OpenStore ==
  /\ pc \in {"down", "failed"}
  /\ LET hint == CheckpointHint(file)
         w    == OpenedWal(wal, hint)
     IN IF (wal.init = "none" /\ file.len > 0 /\ NoChoice(file)) \/ ~ScanOk(w)
        THEN pc' = "failed" /\ UNCHANGED disks
        ELSE /\ wal' = w
             /\ dwal' = IF w # wal THEN w ELSE dwal
             /\ UNCHANGED disk
             /\ CASE file.len = 0 /\ Committed(w) = <<>> ->
                       file' = FirstFile /\ pc' = "recover"
                  [] LastCommit(w, 0) > hint ->
                       file' = Redo(file, w, hint) /\ pc' = "recover"
                  [] OTHER -> UNCHANGED file /\ pc' = "check"
  /\ UNCHANGED <<goal, broken, mem, ov, hist, acked, used>>

\* The sync_all of initialize, or the sync_data of recover_data_file.
RecoverSync ==
  /\ pc = "recover"
  /\ disk' = file /\ pc' = "check"
  /\ UNCHANGED <<file, wal, dwal, goal, broken, mem, ov, hist, acked, used>>

\* The rest of open: select the superblock, check the file, resume the counters.
FinishOpen ==
  /\ pc = "check"
  /\ IF FileSound(file)
     THEN LET sb == Chosen(file) IN
          /\ pc' = "idle"
          /\ mem' = [sb |-> sb, slot |-> ChooseSlot(file),
                     dirty |-> [p \in Page |-> Clean], dirtySb |-> NoSb,
                     nextLsn |-> ResumeLsn(wal, sb.ckpt),
                     nextBatch |-> ScanNextBatch(wal)]
          /\ hist' = SelectSeq(hist, LAMBDA t : t.tx <= sb.tx)
     ELSE pc' = "failed" /\ UNCHANGED <<mem, hist>>
  /\ broken' = FALSE
  /\ UNCHANGED <<disks, goal, ov, acked, used>>
-----------------------------------------------------------------------------
\* finish_transaction: the superblock a staged transaction would install.
NextSb(base, W, tx) ==
  [gen |-> base.sb.gen + 1, ckpt |-> base.sb.ckpt, hw |-> Max(W \cup {base.sb.hw}), tx |-> tx]

(***************************************************************************)
(* Group commit.  Staging a transaction changes the pages W in the shared  *)
(* overlay, finishes it (finish_transaction) and appends its frames to the *)
(* log (append_group_commit); the group shares one sync.                   *)
(***************************************************************************)
StageTx(W) ==
  /\ \/ pc = "idle" /\ ~broken
     \/ pc = "append" /\ Len(SelectSeq(hist, LAMBDA t : t.tx > mem.sb.tx)) < MaxGroup
  /\ used.tx < MaxTx
  /\ LET base == IF pc = "idle" THEN mem ELSE ov
         tx   == used.tx + 1
         sb   == NextSb(base, W, tx)
         e    == [first |-> base.nextLsn, batch |-> base.nextBatch, pages |-> W,
                  sb |-> sb, slot |-> OtherSlot(base.slot), frames |-> Cardinality(W) + 2]
     IN /\ W \cap (1..base.sb.hw) # {} /\ W \subseteq 1..(base.sb.hw + 1)
        /\ ov' = [sb |-> sb, slot |-> OtherSlot(base.slot),
                  dirty |-> [p \in Page |-> IF p \in W THEN Image(e) ELSE base.dirty[p]],
                  dirtySb |-> sb, nextLsn |-> CommitLsn(e) + 1,
                  nextBatch |-> base.nextBatch + 1]
        /\ wal' = [wal EXCEPT !.ents = Append(@, e)]
        /\ hist' = Append(hist, [tx |-> tx, pages |-> W])
        /\ used' = [used EXCEPT !.tx = tx]
  /\ pc' = "append"
  /\ UNCHANGED <<file, disk, dwal, goal, broken, mem, acked>>

CommitGroupBeforeSync ==
  /\ pc = "append"
  /\ mem' = ov /\ acked' = acked \cup {hist[i].tx : i \in 1..Len(hist)}
  /\ pc' = "idle"
  /\ UNCHANGED <<disks, goal, broken, ov, hist, used>>

\* append_group's sync succeeds: the group is published and answered.
CommitGroup ==
  /\ pc = "append"
  /\ dwal' = wal
  /\ mem' = ov
  /\ acked' = acked \cup {hist[i].tx : i \in 1..Len(hist)}
  /\ pc' = "idle"
  /\ UNCHANGED <<file, disk, wal, goal, broken, ov, hist, used>>

\* A degraded store answers every operation with an error and changes nothing.
RefuseDegraded == pc = "idle" /\ broken /\ UNCHANGED vars
-----------------------------------------------------------------------------
\* flush_dirty_pages, up to its sync: every dirty image, then the superblock.
FlushWrite(g) ==
  /\ pc = "idle" /\ ~broken /\ ~NothingDirty
  /\ file' = [len  |-> Larger(file.len, mem.sb.hw),
              page |-> View,
              slot |-> IF mem.dirtySb = NoSb THEN file.slot
                       ELSE [file.slot EXCEPT ![mem.slot] = mem.dirtySb]]
  /\ pc' = "flush" /\ goal' = g
  /\ UNCHANGED <<disk, wal, dwal, broken, mem, ov, hist, acked, used>>

FlushSync ==
  /\ pc = "flush"
  /\ disk' = file
  /\ mem' = [mem EXCEPT !.dirty = [p \in Page |-> Clean], !.dirtySb = NoSb]
  /\ pc' = IF goal = "checkpoint" THEN "metadata" ELSE "idle"
  /\ UNCHANGED <<file, wal, dwal, goal, broken, ov, hist, acked, used>>

\* checkpoint with nothing to flush: flush_dirty_pages returns without a sync.
CheckpointClean ==
  /\ pc = "idle" /\ ~broken /\ NothingDirty
  /\ pc' = "metadata"
  /\ UNCHANGED <<disks, goal, broken, mem, ov, hist, acked, used>>

CheckpointLsn == LastCommit(wal, mem.sb.ckpt)

\* checkpoint: write the superblock with the new checkpoint LSN to the other slot.
WriteMetadata ==
  /\ pc = "metadata"
  /\ IF CheckpointLsn > mem.sb.ckpt
     THEN /\ file' = [file EXCEPT !.slot[OtherSlot(mem.slot)] =
                        [mem.sb EXCEPT !.gen = @ + 1, !.ckpt = CheckpointLsn]]
          /\ pc' = "metasync"
     ELSE UNCHANGED file /\ pc' = "reset"
  /\ UNCHANGED <<disk, wal, dwal, goal, broken, mem, ov, hist, acked, used>>

SyncMetadata ==
  /\ pc = "metasync"
  /\ disk' = file
  /\ mem' = [mem EXCEPT !.sb.gen = @ + 1, !.sb.ckpt = CheckpointLsn, !.slot = OtherSlot(@)]
  /\ pc' = "reset"
  /\ UNCHANGED <<file, wal, dwal, goal, broken, ov, hist, acked, used>>

\* checkpoint: its invariant check, then WalLog::reset up to the truncation.
TruncateWal ==
  /\ pc = "reset"
  /\ IF ~FileSound(file) \/ Chosen(file) # mem.sb
     THEN broken' = TRUE /\ pc' = "idle" /\ UNCHANGED wal
     ELSE /\ UNCHANGED broken
          /\ IF Committed(wal) # <<>> \/ wal.start < CheckpointLsn
             THEN wal' = EmptyWal /\ pc' = "truncate"
             ELSE UNCHANGED wal /\ pc' = "idle"
  /\ UNCHANGED <<file, disk, dwal, goal, mem, ov, hist, acked, used>>

\* WalLog::reset: the truncation is synced, then the INIT frame is appended.
ReinitWal ==
  /\ pc = "truncate"
  /\ dwal' = wal
  /\ wal' = InitWal(mem.sb.ckpt)
  /\ pc' = "reinit"
  /\ UNCHANGED <<file, disk, goal, broken, mem, ov, hist, acked, used>>

FinishReset ==
  /\ pc = "reinit"
  /\ dwal' = wal
  /\ mem' = [mem EXCEPT !.nextLsn = mem.sb.ckpt + 1, !.nextBatch = 1]
  /\ pc' = "idle"
  /\ UNCHANGED <<file, disk, wal, goal, broken, ov, hist, acked, used>>
-----------------------------------------------------------------------------
(***************************************************************************)
(* Failures.  A sync that fails persists any part of what was written; the *)
(* store turns degraded and answers nothing until it is reopened.          *)
(***************************************************************************)
SyncFails ==
  /\ pc \in {"append", "flush", "metasync", "truncate", "reinit", "recover"}
  /\ used.io < MaxIoErr
  /\ used' = [used EXCEPT !.io = @ + 1]
  /\ IF pc = "recover" THEN pc' = "down" /\ UNCHANGED broken
                       ELSE pc' = "idle" /\ broken' = TRUE
  /\ UNCHANGED <<disks, goal, mem, ov, hist, acked>>

\* What a power loss may leave of unsynced page writes: each of them independently
\* not there, there, or torn.
FileOutcomes ==
  LET Part(old, new, torn) == IF old = new THEN {old} ELSE {old, new, torn}
      pages == {f \in [Page -> UNION {Part(disk.page[p], file.page[p], NoPage) : p \in Page}] :
                  \A p \in Page : f[p] \in Part(disk.page[p], file.page[p], NoPage)}
      slots == {f \in [Slot -> UNION {Part(disk.slot[s], file.slot[s], NoSb) : s \in Slot}] :
                  \A s \in Slot : f[s] \in Part(disk.slot[s], file.slot[s], NoSb)}
  IN {[len |-> n, page |-> [p \in Page |-> IF p <= n THEN g[p] ELSE NoPage],
       slot |-> IF n = 0 THEN [s \in Slot |-> NoSb] ELSE h] :
        n \in {disk.len, file.len}, g \in pages, h \in slots}

\* The prefixes of a log that keep at least n whole entries: cut between two
\* frames of entry k, or inside a frame, which leaves an incomplete one (torn).
WalPrefixes(w, n) ==
  {w} \cup
  {[w EXCEPT !.ents = SubSeq(@, 1, k), !.torn = t] :
     k \in n..(Len(w.ents) - 1), t \in BOOLEAN} \cup
  UNION {{[w EXCEPT !.ents = Append(SubSeq(@, 1, k - 1), [@[k] EXCEPT !.frames = c]),
                    !.torn = t] :
            c \in 1..(w.ents[k].frames - 1), t \in BOOLEAN} : k \in (n + 1)..Len(w.ents)}

\* A log being reset is its old self, empty, or holds its INIT frame, maybe torn.
WalOutcomes ==
  IF wal.init = "ok" /\ dwal.init = "ok" THEN WalPrefixes(wal, Len(dwal.ents))
  ELSE {dwal, wal} \cup (IF wal.init = "ok" THEN {[wal EXCEPT !.init = "torn"]} ELSE {})

Down ==
  /\ pc' = "down" /\ broken' = FALSE
  /\ UNCHANGED <<goal, mem, ov, hist, acked>>

PowerLoss ==
  /\ pc # "down" /\ used.power + used.kill < MaxCrash
  /\ PowerAfterKill \/ used.kill = 0
  /\ used' = [used EXCEPT !.power = @ + 1]
  /\ \E f \in FileOutcomes, w \in WalOutcomes :
       file' = f /\ disk' = f /\ wal' = w /\ dwal' = w
  /\ Down

\* The process dies, the machine does not: unsynced writes stay in the page
\* cache.  Death while frames are appended cuts the last one being written.
Kill ==
  /\ pc # "down" /\ used.power + used.kill < MaxCrash
  /\ used' = [used EXCEPT !.kill = @ + 1]
  /\ wal' \in IF pc = "append" THEN WalPrefixes(wal, Len(wal.ents) - 1) ELSE {wal}
  /\ UNCHANGED <<file, disk, dwal>>
  /\ Down

Next ==
  \/ OpenStore \/ RecoverSync \/ FinishOpen
  \/ \E W \in SUBSET Page : StageTx(W)
  \/ CommitGroup \/ RefuseDegraded
  \/ \E g \in {"flush", "checkpoint"} : FlushWrite(g)
  \/ FlushSync \/ CheckpointClean \/ WriteMetadata \/ SyncMetadata
  \/ TruncateWal \/ ReinitWal \/ FinishReset
  \/ SyncFails \/ PowerLoss \/ Kill

Spec == Init /\ [][Next]_vars
-----------------------------------------------------------------------------

LastWriter(h, p) ==
  LET S == {i \in 1..Len(h) : p \in h[i].pages} IN IF S = {} THEN 0 ELSE h[Max(S)].tx

\* The transactions the store has published: committed here or found by recovery.
Settled == SelectSeq(hist, LAMBDA t : t.tx <= mem.sb.tx)

(***************************************************************************)
(* "After a future transaction returns COMMIT SUCCESS, restart must expose *)
(* all of its committed effects" (01-invariants.md): whenever the store    *)
(* serves, after any number of crashes, every transaction it ever answered *)
(* with success is among the ones it recovered.                            *)
(***************************************************************************)
AckedSurvive == Serving => acked \subseteq {hist[i].tx : i \in 1..Len(hist)}

(***************************************************************************)
(* "A multi-key transaction is applied wholly or not at all": an idle      *)
(* store shows, on every page, the last of the settled transactions that   *)
(* wrote it, and nothing of a transaction that was lost in a crash.        *)
(***************************************************************************)
AllOrNothing ==
  pc = "idle" /\ ~broken =>
    \A p \in 1..mem.sb.hw : View[p].tx = LastWriter(hist, p)

\* Once a commit has been answered, no crash at any point of commit, flush,
\* checkpoint, log reset or recovery leaves files that open refuses.
OpensAfterAck == pc = "failed" => acked = {}

\* The store as a durable commit log that loses only unanswered commits.
Log == INSTANCE DodbCommitLog WITH
  log <- hist, settled <- Len(Settled), acked <- acked,
  answer <- IF pc = "idle" /\ ~broken
            THEN [p \in Page |-> IF p <= mem.sb.hw THEN View[p].tx ELSE 0]
            ELSE [p \in Page |-> -1]

\* Every step of the store, of a crash or of recovery is a step of that log.
ImplementsCommitLog == Log!Spec
=============================================================================
