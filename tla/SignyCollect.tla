---------------------------- MODULE SignyCollect ----------------------------
(***************************************************************************)
(* signy's collect route (collect.rs), the journal writer behind it        *)
(* (journal/writer.rs) and the positions they keep for one collecty        *)
(* (journal/marks.rs), with collecty's sender loop (send/mod.rs) at the    *)
(* other end: segments of records per signal, attempts that are retried    *)
(* and may overlap, group commit, write errors, crashes and recovery.      *)
(*                                                                         *)
(* A record is <<signal, segment, index>>.  Storing one is appending it to *)
(* the WAL; what the memtable and the parts make of it comes later.        *)
(***************************************************************************)
EXTENDS Integers, Sequences, FiniteSets, SequencesExt, FiniteSetsExt

CONSTANTS
  Signal,       \* the signals one collecty sends, each a stream of its own
  MaxSeg,       \* segments each signal's queue holds
  NRec,         \* records in a segment
  BadLast,      \* signals whose first segment ends in a record signy will never accept
  Handler,      \* collect requests that can be served at a time
  MaxInflight,  \* MAX_INFLIGHT_RECORDS
  Overlap,      \* may an attempt start while the journal still has an older one's items?
  MaxWriteErr,  \* bound on journal batches that fail to be written
  MaxRefuse,    \* bound on 429/503 and broken bodies in the middle of a segment
  MaxTimeout,   \* bound on attempts whose sender stops waiting
  MaxRestart,   \* bound on restarts of the collecty
  MaxCrash,     \* bound on crashes of signy between the writes of two frames' groups
  MaxTorn,      \* bound on crashes of signy inside the write of a batch
  MaxStoreErr   \* bound on failing writes of the marks file

Seg == 1..MaxSeg
Rec == 1..NRec
Key == Signal \X Seg \X Rec
Bad == {<<g, 1, NRec>> : g \in BadLast}

VARIABLES
  snd,     \* the sender: the signal it delivers, the attempt it waits for
  unsent,  \* the first segment of each signal still in the collecty's queue
  hd,      \* the collect requests being served
  jq,      \* the channel to the journal writer
  batch,   \* the items the writer took and is writing
  marks,   \* CollectMarks in memory
  mfile,   \* the marks file
  wmark,   \* marks in the WAL: before and since the last checkpoint snapshot
  stored,  \* how often each record is durable
  used     \* history: how much of each bound is consumed

sendVars == <<snd, unsent>>
diskVars == <<mfile, wmark, stored>>
vars == <<snd, unsent, hd, jq, batch, marks, mfile, wmark, stored, used>>

\* Position and its order (segment first); START is below whatever can be sent.
At(s, r) == [seg |-> s, rec |-> r]
Start == At(1, 0)
AtMost(p, q) == p.seg < q.seg \/ (p.seg = q.seg /\ p.rec <= q.rec)
Later(p, q) == IF AtMost(p, q) THEN q ELSE p

\* CollectMarks::advance: only ever forward.
LaterOf(m, n) == [g \in Signal |-> Later(m[g], n[g])]
NoMarks == [g \in Signal |-> Start]

Free == [st |-> "free", ep |-> 0, g |-> CHOOSE g \in Signal : TRUE, seg |-> 1,
         already |-> 0, idx |-> 0, out |-> 0, res |-> <<>>]
Nobody == [g |-> Free.g, busy |-> FALSE, wait |-> 0]

Init ==
  /\ snd = Nobody
  /\ unsent = [g \in Signal |-> 1]
  /\ hd = [h \in Handler |-> Free]
  /\ jq = <<>> /\ batch = <<>>
  /\ marks = NoMarks /\ mfile = NoMarks
  /\ wmark = [old |-> NoMarks, new |-> NoMarks]
  /\ stored = [k \in Key |-> 0]
  /\ used = [write |-> 0, refuse |-> 0, timeout |-> 0, restart |-> 0,
             crash |-> 0, torn |-> 0, store |-> 0]

Spent(b, max) == used[b] < max /\ used' = [used EXCEPT ![b] = @ + 1]

-----------------------------------------------------------------------------
(* The sender: one segment at a time, the same one until it is accepted. *)

\* Sender::run: oldest_sealed picks a signal.
PickSignal(g) ==
  /\ ~snd.busy /\ unsent[g] <= MaxSeg
  /\ snd' = [g |-> g, busy |-> TRUE, wait |-> 0]
  /\ UNCHANGED <<unsent, hd, jq, batch, marks, diskVars, used>>

\* Items an earlier attempt left with the journal.
Leftover == jq # <<>> \/ batch # <<>> \/ \E h \in Handler : hd[h].st # "free"

\* Mutant: the position's segment taken for the last whole one.
CommitPosition(g, seg, whole) == [unsent EXCEPT ![g] = Max({@, seg + 1, whole + 2})]

\* Sender::deliver's accepted answer: commit(stored.max(seq)).
Commit(g, seg, whole) == [unsent EXCEPT ![g] = Max({@, seg + 1, whole + 1})]
Released(h) == [hd EXCEPT ![h] = Free]

\* Mutant: a resend starts from the segment's first record.
AlreadyNone(g, seg) == 0

\* A new attempt is told from every one that the sender, a request or an item
\* still belongs to.
InUse == {snd.wait} \cup {hd[h].ep : h \in Handler} \cup {i.ep : i \in Range(jq \o batch)}
Fresh == Min((1..Cardinality(InUse) + 1) \ InUse)

\* Transport::deliver and the start of collect_inner: the position is read
\* once, and a segment before it is answered unread.
Known(g, seg) == seg < marks[g].seg
Already(g, seg) == IF seg = marks[g].seg THEN marks[g].rec ELSE 0

Offer(h) ==
  /\ snd.busy /\ snd.wait = 0 /\ hd[h].st = "free"
  /\ Overlap \/ ~Leftover
  /\ LET g == snd.g
         seg == unsent[g]
     IN  IF Known(g, seg)
         THEN /\ unsent' = Commit(g, seg, marks[g].seg - 1)
              /\ snd' = Nobody
              /\ UNCHANGED hd
         ELSE /\ snd' = [snd EXCEPT !.wait = Fresh]
              /\ hd' = [hd EXCEPT ![h] = [st |-> "read", ep |-> Fresh, g |-> g, seg |-> seg,
                                          already |-> Already(g, seg), idx |-> 0,
                                          out |-> 0, res |-> <<>>]]
              /\ UNCHANGED unsent
  /\ UNCHANGED <<jq, batch, marks, diskVars, used>>

\* The client's timeout, or a connection that breaks: Outcome::Retry.  The
\* request it gave up on may go on being served.
Timeout ==
  /\ snd.wait # 0
  /\ Spent("timeout", MaxTimeout)
  /\ snd' = [snd EXCEPT !.wait = 0]
  /\ UNCHANGED <<unsent, hd, jq, batch, marks, diskVars>>

\* The collecty stops and starts again; its queue survives.
RestartSender ==
  /\ snd.busy
  /\ Spent("restart", MaxRestart)
  /\ snd' = Nobody
  /\ UNCHANGED <<unsent, hd, jq, batch, marks, diskVars>>

-----------------------------------------------------------------------------
(* One collect request. *)

Item(d, r, p) == [ep |-> d.ep, g |-> d.g, seg |-> d.seg, rec |-> r, at |-> p]

\* The error answer: the sender, if it still waits for this attempt, retries.
Fail(h) ==
  /\ hd' = Released(h)
  /\ snd' = IF snd.wait = hd[h].ep THEN [snd EXCEPT !.wait = 0] ELSE snd

\* The loop over the segment's records: counted off, dropped as never
\* acceptable, or handed to the writer with the position after it.
CollectRecord(h) ==
  LET d == hd[h]
      r == d.idx + 1
  IN /\ d.st = "read" /\ d.idx < NRec
     /\ IF d.idx < d.already \/ <<d.g, d.seg, r>> \in Bad
        THEN /\ hd' = [hd EXCEPT ![h].idx = r]
             /\ UNCHANGED jq
        ELSE /\ d.out < MaxInflight
             /\ jq' = Append(jq, Item(d, r, At(d.seg, r)))
             /\ hd' = [hd EXCEPT ![h].idx = r, ![h].out = @ + 1]
     /\ UNCHANGED <<sendVars, batch, marks, diskVars, used>>

\* settle_oldest: full, refused admission while it holds records, or at the end.
SettleOldest(h) ==
  LET d == hd[h] IN
  /\ d.st = "read" /\ d.res # <<>>
  /\ IF Head(d.res)
     THEN /\ hd' = [hd EXCEPT ![h].res = Tail(@), ![h].out = @ - 1]
          /\ UNCHANGED snd
     ELSE Fail(h)
  /\ UNCHANGED <<unsent, jq, batch, marks, diskVars, used>>

\* A record refused for now, or a body that breaks off: what was handed to
\* the writer stays with it.
RefuseRecord(h) ==
  /\ hd[h].st = "read"
  /\ Spent("refuse", MaxRefuse)
  /\ Fail(h)
  /\ UNCHANGED <<unsent, jq, batch, marks, diskVars>>

\* hyper drops the future of a request whose client went away.
DropRequest(h) ==
  /\ hd[h].st # "free" /\ snd.wait # hd[h].ep
  /\ hd' = Released(h)
  /\ UNCHANGED <<sendVars, jq, batch, marks, diskVars, used>>

\* The segment's end: everything is settled, then its closing mark.
SettledAll(d) == d.out = 0

CloseSegment(h) ==
  LET d == hd[h] IN
  /\ d.st = "read" /\ d.idx = NRec /\ SettledAll(d)
  /\ jq' = Append(jq, Item(d, 0, At(d.seg + 1, 0)))
  /\ hd' = [hd EXCEPT ![h].st = "close", ![h].out = @ + 1]
  /\ UNCHANGED <<sendVars, batch, marks, diskVars, used>>

\* The closing mark is durable: the answer, and what the sender does with it.
Answer(h) ==
  LET d == hd[h] IN
  /\ d.st = "close" /\ Len(d.res) = d.out
  /\ IF Last(d.res)
     THEN /\ hd' = Released(h)
          /\ IF snd.wait = d.ep
             THEN /\ unsent' = Commit(d.g, d.seg, marks[d.g].seg - 1)
                  /\ snd' = Nobody
             ELSE UNCHANGED sendVars
     ELSE Fail(h) /\ UNCHANGED unsent
  /\ UNCHANGED <<jq, batch, marks, diskVars, used>>

-----------------------------------------------------------------------------
(* The journal writer. *)

\* The items that have arrived, up to a bound in bytes.
TakeBatch(n) ==
  /\ batch = <<>> /\ n \in 1..Len(jq)
  /\ batch' = SubSeq(jq, 1, n)
  /\ jq' = SubSeq(jq, n + 1, Len(jq))
  /\ UNCHANGED <<sendVars, hd, marks, diskVars, used>>

\* Mutant: the index of the next record instead of the count of stored ones.
BatchMarkOfNext(b) == [NoMarks EXCEPT ![b[1].g] = At(Last(b).at.seg, Last(b).at.rec + 1)]

\* batch_marks: the items' marks are gathered by sender, and this sender's
\* first one takes the highest position of them all.
BatchMark(b) ==
  LET ps == {b[i].at : i \in DOMAIN b}
      top == CHOOSE p \in ps : \A p2 \in ps : AtMost(p2, p)
  IN  [NoMarks EXCEPT ![b[1].g] = top]

\* Mutant: only the batch's first item is answered.
ResolvedFirst(ok) ==
  [h \in Handler |->
     IF hd[h].st # "free" /\ hd[h].ep = batch[1].ep
     THEN [hd[h] EXCEPT !.res = Append(@, ok)] ELSE hd[h]]

\* Every item of the batch gets the outcome; an abandoned request's are dropped.
Resolved(ok) ==
  [h \in Handler |->
     LET mine == SelectSeq(batch, LAMBDA i : hd[h].st # "free" /\ i.ep = hd[h].ep)
     IN  [hd[h] EXCEPT !.res = @ \o [i \in DOMAIN mine |-> ok]]]

\* The first n frames of the batch are on disk.
Kept(n) ==
  [k \in Key |-> stored[k] + Cardinality({i \in 1..n : <<batch[i].g, batch[i].seg, batch[i].rec>> = k})]

\* write_all, flush, sync_all: records and marks become durable together, and
\* only then do the marks in memory move.
WriteBatch ==
  /\ batch # <<>>
  /\ stored' = Kept(Len(batch))
  /\ wmark' = [wmark EXCEPT !.new = LaterOf(@, BatchMark(batch))]
  /\ marks' = LaterOf(marks, BatchMark(batch))
  /\ hd' = Resolved(TRUE)
  /\ batch' = <<>>
  /\ UNCHANGED <<sendVars, jq, mfile, used>>

\* The write or the sync fails; the file is cut back to good_len.
FailBatch ==
  /\ batch # <<>>
  /\ Spent("write", MaxWriteErr)
  /\ hd' = Resolved(FALSE)
  /\ batch' = <<>>
  /\ UNCHANGED <<sendVars, jq, marks, diskVars>>

\* JournalCmd::Checkpoint: the marks file first; a failure to write it is
\* only logged.
Checkpoint ==
  /\ batch = <<>>
  /\ \/ mfile' = marks /\ UNCHANGED used
     \/ Spent("store", MaxStoreErr) /\ UNCHANGED mfile
  /\ wmark' = [old |-> LaterOf(wmark.old, wmark.new), new |-> NoMarks]
  /\ wmark' # wmark
  /\ UNCHANGED <<sendVars, hd, jq, batch, marks, stored>>

\* The flush is done: the checkpoint offset retires the WAL before it.
RetireWal ==
  /\ wmark.old # NoMarks
  /\ wmark' = [wmark EXCEPT !.old = NoMarks]
  /\ UNCHANGED <<sendVars, hd, jq, batch, marks, mfile, stored, used>>
-----------------------------------------------------------------------------
(* Crashes of signy. *)

\* recover_with_marks: the marks file, then the marks among the WAL's records.
Recovered(w) == LaterOf(mfile, LaterOf(w.old, w.new))

LoseRequests ==
  /\ hd' = [h \in Handler |-> Free]
  /\ jq' = <<>> /\ batch' = <<>>
  /\ snd' = [snd EXCEPT !.wait = 0]
  /\ UNCHANGED <<unsent, mfile>>

\* The batch being written is on disk whole or not at all.
Crash ==
  /\ Spent("crash", MaxCrash)
  /\ \/ UNCHANGED <<stored, wmark>>
     \/ /\ batch # <<>>
        /\ stored' = Kept(Len(batch))
        /\ wmark' = [wmark EXCEPT !.new = LaterOf(@, BatchMark(batch))]
  /\ marks' = Recovered(wmark')
  /\ LoseRequests

\* The batch's first frames are on disk: the marks come after all records.
CrashTorn ==
  /\ batch # <<>>
  /\ Spent("torn", MaxTorn)
  /\ \E n \in 1..Len(batch) : stored' = Kept(n)
  /\ marks' = Recovered(wmark)
  /\ UNCHANGED wmark
  /\ LoseRequests

-----------------------------------------------------------------------------
Serve(h) == CollectRecord(h) \/ SettleOldest(h) \/ CloseSegment(h) \/ Answer(h)
Sender == (\E g \in Signal : PickSignal(g)) \/ (\E h \in Handler : Offer(h))
Writer == (\E n \in 1..Len(jq) : TakeBatch(n)) \/ WriteBatch

Next ==
  \/ \E g \in Signal : PickSignal(g)
  \/ \E h \in Handler :
       \/ Offer(h) \/ CollectRecord(h) \/ SettleOldest(h) \/ RefuseRecord(h)
       \/ DropRequest(h) \/ CloseSegment(h) \/ Answer(h)
  \/ \E n \in 1..Len(jq) : TakeBatch(n)
  \/ WriteBatch \/ FailBatch \/ Checkpoint \/ RetireWal
  \/ Timeout \/ RestartSender \/ Crash \/ CrashTorn

Spec == Init /\ [][Next]_vars

\* The sender's task, the requests' tasks and the writer's task all go on
\* running; failures are bounded.
FairSpec ==
  /\ Spec
  /\ WF_vars(Sender) /\ WF_vars(Writer)
  /\ \A h \in Handler : WF_vars(Serve(h))

-----------------------------------------------------------------------------
(* Properties. *)

Before(k, p) == k[2] < p.seg \/ (k[2] = p.seg /\ k[3] <= p.rec)

\* Position ("everything strictly before this point is durable"): every record
\* before a stream's position that signy accepts is in the WAL; and a restart
\* now would come back with exactly these positions, because the marks file is
\* written before the WAL that held them is retired.
MarksAreTrue ==
  /\ \A k \in Key \ Bad : Before(k, marks[k[1]]) => stored[k] > 0
  /\ Recovered(wmark) = marks

\* What the collecty unlinked after an accepted answer (deliver's commit) is
\* durable in signy.
UnlinkedIsStored ==
  \A k \in Key \ Bad : k[2] < unsent[k[1]] => stored[k] > 0

\* A resend is counted off, not stored twice (CollectMarks).
StoredOnce == \A k \in Key : stored[k] <= 1

\* Once failures stop, every segment is accepted and unlinked.
QueueDrains == <>(\A g \in Signal : unsent[g] = MaxSeg + 1)
=============================================================================
