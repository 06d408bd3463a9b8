---------------------------- MODULE CollectyQueue ----------------------------
(***************************************************************************)
(* collecty's disk queue and its sender (obsy/collecty, queue/ and send/): *)
(* one stream of numbered segment files per signal, a spool thread that    *)
(* appends, rolls, drops and unlinks under the queue's lock, a sender task *)
(* that ships one closed segment at a time, crashes, and Queue::open.      *)
(*                                                                         *)
(* A record is a number and takes one byte.  A segment file is the         *)
(* sequence of records its compressor accepted; while it is open the file  *)
(* may be behind them.  signy is reduced to what its answers tell: per     *)
(* signal the position everything before which it holds.                   *)
(***************************************************************************)
EXTENDS Integers, Sequences, FiniteSets, SequencesExt

CONSTANTS
  NSignals,         \* Signal::ALL has three
  MaxBytes,         \* QueueLimits::max_bytes
  MaxSegmentBytes,  \* QueueLimits::max_segment_bytes
  MaxRecords,       \* bound on the appends
  MaxCrash,         \* bound on crashes of a running collecty
  MaxOpenCrash,     \* bound on crashes (or failures) inside Queue::open
  CrashUnnumbered,  \* may one fall between the unlink of a signal's last segment
                    \* and the creation of its successor?
  MaxErr            \* bound on failing finishes, creations, unlinks and writes

VARIABLES
  files,    \* the directories: signal -> segment number -> file
  phase,    \* "down", "recover", "create" or "up"
  slot,     \* the signal Queue::open is at
  nexts,    \* open's nexts: the number each signal's new segment gets
  q,        \* Inner: held segments, whether the writer is open, active_since, queued_bytes
  job,      \* the signal whose append holds the lock, 0 if none
  snd,      \* the sender: what it picked, sends or has to commit
  wire,     \* a shipment whose sender stopped waiting, still on its way
  mark,     \* signy's position per signal
  got,      \* history: how often signy stored each record
  fate,     \* history: what became of each record on this machine
  used      \* history: how much of each bound is consumed

diskVars == <<files, phase, slot, nexts>>
sigVars  == <<wire, mark, got>>
vars == <<files, phase, slot, nexts, q, job, snd, wire, mark, got, fate, used>>

Signals == 1..NSignals
Record == 1..MaxRecords
Empty  == [recs |-> <<>>, done |-> FALSE, torn |-> -1, stamp |-> 0]
Idle   == [at |-> "idle", g |-> 1, seq |-> 0, file |-> Empty]

With(f, n, x) == [m \in DOMAIN f \cup {n} |-> IF m = n THEN x ELSE f[m]]
Without(f, n) == [m \in DOMAIN f \ {n} |-> f[m]]

\* wire::whole_records_len: the records before the one a failed write cut short.
Whole(f) == IF f.torn < 0 THEN f.recs ELSE SubSeq(f.recs, 1, f.torn)
Latest(fs) == Max({0} \cup UNION {{fs[g][n].stamp : n \in DOMAIN fs[g]} : g \in Signals})

NoQueue == [held  |-> [g \in Signals |-> <<>>], open |-> [g \in Signals |-> FALSE],
            since |-> [g \in Signals |-> FALSE], queued |-> 0]

Init ==
  /\ files = [g \in Signals |-> [n \in {} |-> Empty]]
  /\ phase = "down" /\ slot = 1 /\ nexts = [g \in Signals |-> 1]
  /\ q = NoQueue /\ job = 0 /\ snd = Idle
  /\ wire = {} /\ mark = [g \in Signals |-> [seg |-> 1, recs |-> 0]]
  /\ got = [r \in Record |-> 0] /\ fate = [r \in Record |-> "unused"]
  /\ used = [rec |-> 0, crash |-> 0, opencrash |-> 0, err |-> 0]

Fated(S, what) == [r \in Record |-> IF r \in S THEN what ELSE fate[r]]
Spent(what) == [used EXCEPT ![what] = @ + 1]
-----------------------------------------------------------------------------
(* Queue::open, one signal at a time: first recovery of every signal, then *)
(* the new active segments.                                                *)

StartOpen ==
  /\ phase = "down"
  /\ phase' = "recover" /\ slot' = 1
  /\ UNCHANGED <<files, nexts, q, job, snd, sigVars, fate, used>>

NextSlot(after) ==
  IF slot < NSignals THEN slot' = slot + 1 /\ UNCHANGED phase ELSE slot' = 1 /\ phase' = after

\* nexts is one above the last file, taken before that file is resealed.
NumberAfter(dir, kept) == IF DOMAIN dir = {} THEN 1 ELSE Max(DOMAIN dir) + 1

\* segment::reseal: keep the whole records of the last segment, or unlink it.
Resealed(dir) ==
  IF DOMAIN dir = {} THEN dir
  ELSE LET n == Max(DOMAIN dir)
           f == dir[n]
       IN IF Whole(f) = <<>> THEN Without(dir, n)
          ELSE IF f.done /\ f.torn < 0 THEN dir
          ELSE With(dir, n, [recs |-> Whole(f), done |-> TRUE, torn |-> -1,
                             stamp |-> Latest(files) + 1])

Recover ==
  /\ phase = "recover"
  /\ LET dir == files[slot]
         kept == Resealed(dir)
         cut == UNION {ToSet(dir[n].recs) : n \in DOMAIN dir}
                  \ UNION {ToSet(kept[n].recs) : n \in DOMAIN kept}
     IN /\ files' = [files EXCEPT ![slot] = kept]
        /\ nexts' = [nexts EXCEPT ![slot] = NumberAfter(dir, kept)]
        /\ fate' = Fated(cut, "lost")
  /\ NextSlot("create")
  /\ UNCHANGED <<q, job, snd, sigVars, used>>

\* SegmentWriter::create; the held segments are the files of the directory.
Create ==
  /\ phase = "create"
  /\ LET kept == SetToSortSeq(DOMAIN files[slot], <)
         size(n) == Len(files[slot][n].recs)
         new == [i \in 1..(Len(kept) + 1) |->
                   IF i <= Len(kept) THEN [seq |-> kept[i], bytes |-> size(kept[i])]
                   ELSE [seq |-> nexts[slot], bytes |-> 0]]
     IN /\ files' = [files EXCEPT ![slot] = With(@, nexts[slot], Empty)]
        /\ q' = [q EXCEPT !.held[slot] = new, !.open[slot] = TRUE,
                          !.queued = @ + MapThenSumSet(size, DOMAIN files[slot])]
  /\ NextSlot("up")
  /\ UNCHANGED <<nexts, job, snd, sigVars, fate, used>>
-----------------------------------------------------------------------------
(* Operators on a queue and its directories, m = [q, files]. *)

Now == [q |-> q, files |-> files]
Back(m, g)   == Last(m.q.held[g])
Active(m, g) == m.files[g][Back(m, g).seq]
Measured(hs, n) == Append(Front(hs), [Last(hs) EXCEPT !.bytes = n])
Finished(m, g, stamp) == [Active(m, g) EXCEPT !.done = TRUE, !.stamp = stamp]

\* roll of every signal of D, in order, without a failure.
RollOk(m, D) ==
  LET stamp(g) == Latest(m.files) + Cardinality({h \in D : h <= g})
      n(g) == Back(m, g).seq
      bytes(g) == Len(Active(m, g).recs)
      grew(g) == bytes(g) - Back(m, g).bytes
  IN [q |-> [held |-> [g \in Signals |->
                 IF g \in D THEN Front(m.q.held[g]) \o <<[seq |-> n(g), bytes |-> bytes(g)],
                                                         [seq |-> n(g) + 1, bytes |-> 0]>>
                 ELSE m.q.held[g]],
             open |-> m.q.open,
             since |-> [g \in Signals |-> m.q.since[g] /\ g \notin D],
             queued |-> m.q.queued + MapThenSumSet(grew, D)],
      files |-> [g \in Signals |->
                   IF g \in D THEN With(With(m.files[g], n(g), Finished(m, g, stamp(g))),
                                        n(g) + 1, Empty)
                   ELSE m.files[g]]]

\* roll of b fails: finish has consumed the writer either way; a failing
\* creation finds the segment closed on disk, and may leave the next file behind.
RollFailed(m, b, how) ==
  LET n == Back(m, b).seq
      f == Finished(m, b, Latest(m.files) + 1)
  IN [q |-> [m.q EXCEPT !.open[b] = FALSE,
                !.held[b] = IF how = "finish" THEN @ ELSE Measured(@, Len(f.recs))],
      files |-> [m.files EXCEPT ![b] = CASE how = "finish" -> @
                                         [] how = "create" -> With(@, n, f)
                                         [] how = "created" -> With(With(@, n, f), n + 1, Empty)]]

\* Rolling the signals of D that have records, in order: a writer that is
\* already closed fails again, and the first failure ends the loop.
Rolls(m, D) ==
  LET due  == {g \in D : m.q.since[g]}
      shut == {g \in due : ~m.q.open[g]}
      stop == IF shut = {} THEN NSignals + 1 ELSE Min(shut)
      upto(b) == RollOk(m, {g \in due : g < b})
  IN {[m |-> upto(stop), ok |-> shut = {}, err |-> 0]} \cup
     {[m |-> RollFailed(upto(b), b, how), ok |-> FALSE, err |-> 1] :
        b \in {g \in due : g < stop /\ used.err < MaxErr},
        how \in {"finish", "create", "created"}}

SealedButLast(m) == {g \in Signals : Len(m.q.held[g]) > 2}
Sealed(m) == {g \in Signals : Len(m.q.held[g]) > 1}
FrontStamp(m, g) == m.files[g][m.q.held[g][1].seq].stamp
Oldest(m) == CHOOSE g \in Sealed(m) : \A h \in Sealed(m) : FrontStamp(m, g) <= FrontStamp(m, h)
-----------------------------------------------------------------------------
(* The spool thread.  An append holds the lock over its loop of drops. *)

StartAppend(g) ==
  /\ phase = "up" /\ job = 0 /\ used.rec < MaxRecords
  /\ job' = g /\ used' = Spent("rec")
  /\ UNCHANGED <<diskVars, q, snd, sigVars, fate>>

Full == q.queued + 1 > MaxBytes

\* drop_oldest closes the open segments when there is no closed one to drop.
Room == IF Sealed(Now) = {} THEN Rolls(Now, Signals) ELSE {[m |-> Now, ok |-> TRUE, err |-> 0]}

\* drop_oldest, one turn of write_record's loop.  A failing roll or unlink is
\* the append's error; with nothing to drop the loop just turns again.
DropOldest ==
  /\ job # 0 /\ Full
  /\ \E r \in Room :
       IF ~r.ok
       THEN /\ q' = r.m.q /\ files' = r.m.files /\ job' = 0
            /\ used' = [used EXCEPT !.err = @ + r.err]
            /\ UNCHANGED fate
       ELSE IF Sealed(r.m) = {}
       THEN UNCHANGED <<q, files, job, used, fate>>
       ELSE LET g == Oldest(r.m)
                h == r.m.q.held[g][1]
                popped == [r.m.q EXCEPT !.held[g] = Tail(@)]
            IN /\ \/ /\ q' = [popped EXCEPT !.queued = @ - h.bytes]
                     /\ files' = [r.m.files EXCEPT ![g] = Without(@, h.seq)]
                     /\ UNCHANGED <<job, used>>
                  \/ /\ used.err < MaxErr /\ used' = Spent("err")
                     /\ q' = popped /\ files' = r.m.files /\ job' = 0
               /\ fate' = Fated({x \in ToSet(r.m.files[g][h.seq].recs) : fate[x] = "held"},
                                "dropped")
  /\ UNCHANGED <<phase, slot, nexts, snd, sigVars>>

\* The rest of write_record: roll a full segment, write, account.  A write can
\* fail inside the record, which leaves its head in the stream.
WriteRecord ==
  /\ job # 0 /\ ~Full
  /\ LET g == job IN
     \E r \in IF q.open[g] /\ Back(Now, g).bytes >= MaxSegmentBytes THEN Rolls(Now, {g})
              ELSE {[m |-> Now, ok |-> TRUE, err |-> 0]} :
       LET f == Active(r.m, g)
           n == Back(r.m, g).seq
       IN IF ~r.ok \/ ~r.m.q.open[g]
          THEN /\ q' = r.m.q /\ files' = r.m.files /\ used' = [used EXCEPT !.err = @ + r.err]
               /\ UNCHANGED fate
          ELSE \/ \E bytes \in {Back(r.m, g).bytes, Len(f.recs) + 1} :
                  /\ q' = [r.m.q EXCEPT !.since[g] = TRUE, !.held[g] = Measured(@, bytes),
                                        !.queued = @ + bytes - Back(r.m, g).bytes]
                  /\ files' = [r.m.files EXCEPT ![g] =
                                 With(@, n, [f EXCEPT !.recs = Append(@, used.rec)])]
                  /\ fate' = Fated({used.rec}, "held")
                  /\ UNCHANGED used
               \/ /\ used.err < MaxErr /\ used' = Spent("err")
                  /\ files' = [r.m.files EXCEPT ![g] =
                                 With(@, n, [f EXCEPT !.torn = IF @ < 0 THEN Len(f.recs) ELSE @])]
                  /\ q' = r.m.q
                  /\ UNCHANGED fate
  /\ job' = 0
  /\ UNCHANGED <<phase, slot, nexts, snd, sigVars>>

\* seal_if_due when the segments of D are old enough, and seal when D is all.
SealIfDue(D) ==
  /\ phase = "up" /\ job = 0
  /\ \E r \in Rolls(Now, D) :
       /\ q' = r.m.q /\ files' = r.m.files
       /\ used' = [used EXCEPT !.err = @ + r.err]
  /\ UNCHANGED <<phase, slot, nexts, job, snd, sigVars, fate>>

\* commit: unlink the held segments up to acked, never the active one; the
\* first failing unlink returns before the freed bytes are subtracted.
CommitAnyNumber(g, h, acked) == TRUE
Answered(g, h, acked) == h.seq <= acked
CommitSegments ==
  /\ snd.at = "commit" /\ job = 0
  /\ LET g == snd.g
         hs == q.held[g]
         gone == {i \in 1..(Len(hs) - 1) : \A j \in 1..i : Answered(g, hs[j], snd.seq)}
         pop(k) == SubSeq(hs, k + 1, Len(hs))
         unlinked(k) == [n \in DOMAIN files[g] \ {hs[i].seq : i \in 1..k} |-> files[g][n]]
         freed(i) == hs[i].bytes
     IN \/ /\ q' = [q EXCEPT !.held[g] = pop(Cardinality(gone)),
                             !.queued = @ - MapThenSumSet(freed, gone)]
           /\ files' = [files EXCEPT ![g] = unlinked(Cardinality(gone))]
           /\ UNCHANGED used
        \/ \E k \in gone :
             /\ used.err < MaxErr /\ used' = Spent("err")
             /\ q' = [q EXCEPT !.held[g] = pop(k)]
             /\ files' = [files EXCEPT ![g] = unlinked(k - 1)]
  /\ snd' = Idle
  /\ UNCHANGED <<phase, slot, nexts, job, sigVars, fate>>
-----------------------------------------------------------------------------
(* The sender, and signy's answers. *)

\* Sender::run picks the oldest closed segment; the read takes no lock, and a
\* segment dropped meanwhile cannot be read.
PickSegment ==
  /\ phase = "up" /\ job = 0 /\ snd = Idle /\ Sealed(Now) # {}
  /\ LET g == Oldest(Now) IN
     snd' = [at |-> "picked", g |-> g, seq |-> q.held[g][1].seq, file |-> Empty]
  /\ UNCHANGED <<diskVars, q, job, sigVars, fate, used>>

ReadSegment ==
  /\ snd.at = "picked"
  /\ snd' = IF snd.seq \in DOMAIN files[snd.g]
            THEN [snd EXCEPT !.at = "sending", !.file = files[snd.g][snd.seq]] ELSE Idle
  /\ UNCHANGED <<diskVars, q, job, sigVars, fate, used>>

\* What signy does with a shipment: a segment below its position is answered
\* unread; of the one it is in, the records it has are skipped; a segment that
\* does not parse stores what precedes the damage and is refused.
Skip(s) == IF s.seq = mark[s.g].seg THEN mark[s.g].recs ELSE 0
Known(s) == s.seq < mark[s.g].seg
Arrive(s) ==
  IF Known(s) THEN UNCHANGED <<mark, got>>
  ELSE LET w == Whole(s.file)
           new == {w[i] : i \in (Skip(s) + 1)..Len(w)}
       IN /\ got' = [r \in Record |-> IF r \in new THEN got[r] + 1 ELSE got[r]]
          /\ mark' = [mark EXCEPT ![s.g] =
                        IF s.file.torn < 0 THEN [seg |-> s.seq + 1, recs |-> 0]
                        ELSE [seg |-> s.seq, recs |-> IF Skip(s) > Len(w) THEN Skip(s) ELSE Len(w)]]

\* deliver: Accepted(stored) commits max(stored, seq), Refused commits seq.
Deliver ==
  /\ snd.at = "sending"
  /\ Arrive(snd)
  /\ LET stored == mark'[snd.g].seg - 1
         refuse == snd.file.torn >= 0 /\ snd.seq >= mark[snd.g].seg
     IN /\ snd' = [Idle EXCEPT !.at = "commit", !.g = snd.g,
                               !.seq = IF refuse \/ snd.seq > stored THEN snd.seq ELSE stored]
        /\ fate' = IF refuse THEN Fated({r \in ToSet(snd.file.recs) : fate[r] = "held"}, "refused")
                   ELSE fate
  /\ UNCHANGED <<diskVars, q, job, wire, used>>

\* Retry: the answer is lost, or the request outlives the sender's timeout.
DeliverUnheard ==
  /\ snd.at = "sending"
  /\ Arrive(snd)
  /\ UNCHANGED <<diskVars, q, job, snd, wire, fate, used>>
DeliverTimeout ==
  /\ snd.at = "sending" /\ wire = {}
  /\ wire' = {snd}
  /\ UNCHANGED <<diskVars, q, job, snd, mark, got, fate, used>>
ArriveLate ==
  /\ \E s \in wire : Arrive(s)
  /\ wire' = {}
  /\ UNCHANGED <<diskVars, q, job, snd, fate, used>>
-----------------------------------------------------------------------------
\* The process dies.  A closed segment was synced; of an open one the file
\* keeps a prefix of what the compressor accepted.
Crash ==
  /\ phase # "down"
  /\ \/ phase = "up" \/ CrashUnnumbered
     \/ \A g \in Signals : nexts[g] > 1 => {nexts[g] - 1, nexts[g]} \cap DOMAIN files[g] # {}
  /\ LET what == IF phase = "up" THEN "crash" ELSE "opencrash" IN
     /\ used[what] < IF phase = "up" THEN MaxCrash ELSE MaxOpenCrash
     /\ used' = Spent(what)
  /\ \E keep \in [Signals -> 0..MaxRecords] :
       LET unfinished(g) == {n \in DOMAIN files[g] : ~files[g][n].done}
           cut(g, n) == [files[g][n] EXCEPT !.recs = SubSeq(@, 1, keep[g]),
                                           !.torn = IF keep[g] <= @ THEN -1 ELSE @]
       IN /\ \A g \in Signals : \A n \in unfinished(g) : keep[g] <= Len(files[g][n].recs)
          /\ \A g \in Signals : unfinished(g) = {} => keep[g] = 0
          /\ files' = [g \in Signals |-> [n \in DOMAIN files[g] |->
                         IF n \in unfinished(g) THEN cut(g, n) ELSE files[g][n]]]
          /\ fate' = Fated(UNION {UNION {ToSet(files[g][n].recs) \ ToSet(cut(g, n).recs) :
                                           n \in unfinished(g)} : g \in Signals}, "lost")
  /\ phase' = "down" /\ slot' = 1 /\ nexts' = [g \in Signals |-> 1]
  /\ q' = NoQueue /\ job' = 0 /\ snd' = Idle
  /\ UNCHANGED sigVars

SpoolThread == DropOldest \/ WriteRecord \/ CommitSegments
Opening     == StartOpen \/ Recover \/ Create
Sending     == PickSegment \/ ReadSegment

Next ==
  \/ Opening \/ SpoolThread \/ Sending
  \/ \E g \in Signals : StartAppend(g)
  \/ \E D \in SUBSET {g \in Signals : q.since[g]} : SealIfDue(D)
  \/ Deliver \/ DeliverUnheard \/ DeliverTimeout \/ ArriveLate
  \/ Crash

Spec == Init /\ [][Next]_vars
\* The threads and the sender keep running, segments grow old, and signy
\* answers a segment that is offered again and again.
FairSpec ==
  /\ Spec /\ WF_vars(Opening) /\ WF_vars(SpoolThread) /\ WF_vars(Sending)
  /\ WF_vars(SealIfDue(Signals)) /\ WF_vars(Deliver)
-----------------------------------------------------------------------------

OnDisk(r) == \E g \in Signals : \E n \in DOMAIN files[g] : r \in ToSet(files[g][n].recs)

\* "segment numbers are never reused" (ARCHITECTURE.md): a segment being
\* written has a number that signy's position does not cover, or signy would
\* answer it unread and collecty unlink it (Queue::open, roll, commit).
NumbersNotReused ==
  phase = "up" => \A g \in Signals : Back(Now, g).seq >= mark[g].seg

\* A record that was accepted and neither dropped for room, refused nor cut off
\* by a crash is on this disk until signy has it: no interleaving of append,
\* roll, drop, delivery, commit, crash and recovery unlinks it earlier.
HeldUntilStored == \A r \in Record : fate[r] = "held" => OnDisk(r) \/ got[r] > 0

\* "A resend after a crash is suppressed by signy, not duplicated": no lost
\* answer, late request, crash or failed unlink stores a record twice.
DeliveredOnce == \A r \in Record : got[r] <= 1

\* queued_bytes, which the drop loop compares with the budget, is the size of
\* the segments the queue holds (QueueStats, write_record, roll, commit).
QueuedIsHeld ==
  phase = "up" /\ job = 0 =>
    LET size(p) == q.held[p[1]][p[2]].bytes
    IN q.queued = MapThenSumSet(size, UNION {{g} \X DOMAIN q.held[g] : g \in Signals})

\* Every accepted record reaches signy unless a crash, a full queue or a
\* refusal takes it, through any number of lost answers.
RecordsArrive == \A r \in Record : fate[r] = "held" ~> (got[r] > 0 \/ fate[r] # "held")
=============================================================================
