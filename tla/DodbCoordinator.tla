--------------------------- MODULE DodbCoordinator ---------------------------
(***************************************************************************)
(* The commit coordinator of one dodb shard (dodb-storage,                 *)
(* btree/coordinator.rs): clients enqueue operations on a bounded channel; *)
(* one task collects them into groups, runs each group segment by segment  *)
(* against the store, publishes the committed read view and then answers.  *)
(* Reads bypass the task and are answered from the read view.              *)
(*                                                                         *)
(* A document is abstracted to its revision, the LSN of its last write;    *)
(* commit LSNs are numbered consecutively.  The store below is the one     *)
(* DodbStore describes: a group commits as a whole or the store degrades.  *)
(***************************************************************************)
EXTENDS Integers, Sequences, FiniteSets

CONSTANTS
  Client, Key,
  QueueCapacity,     \* CoordinatorConfig::queue_capacity
  MaxGroupRequests,  \* CoordinatorConfig::max_group_requests
  MaxGroupBytes,     \* CoordinatorConfig::max_group_bytes
  Shapes,            \* the operations callers issue: kind, keys checked or read,
                     \* keys written, encoded size
  ReadSets,          \* the key sets they read from the view
  Delay,             \* max_collection_delay is not zero
  MaxRequests,       \* bound on the operations submitted
  MaxIoErr,          \* bound on I/O failures
  MaxSplitErr        \* bound on transactions refused by a page split

ASSUME CoordinatorAssumption ==
  /\ QueueCapacity \in Nat \ {0} /\ MaxGroupRequests \in Nat \ {0}
  /\ MaxGroupBytes \in Nat \ {0}
  /\ Shapes \subseteq [kind : {"mutation", "read", "checkpoint"}, reads : SUBSET Key,
                       writes : SUBSET Key, size : Nat]
  /\ \A s \in Shapes : IF s.kind = "mutation" THEN s.reads \cup s.writes # {}
                       ELSE s.writes = {}
  /\ ReadSets \subseteq SUBSET Key
  /\ Delay \in BOOLEAN /\ MaxRequests \in Nat
  /\ MaxIoErr \in Nat /\ MaxSplitErr \in Nat

VARIABLES
  queue,      \* the request channel
  pending,    \* the request that did not fit the last group, at most one
  group,      \* the group being run
  bytes,      \* its size
  phase,      \* where the coordinator task is
  start, at,  \* first operation of the segment; the one to run or answer next
  results,    \* responses of the segment, in order
  failed,     \* the segment failed as a whole
  ov,         \* Overlay: revisions and LSN the group leaves if it commits
  staged,     \* transactions the overlay accepted
  stopAfter,  \* close_requested: stop once the group is answered
  db, lsn,    \* the store's committed revisions and last commit LSN
  broken,     \* the store is degraded
  view,       \* ReadViewState::view
  viewBroken, \* ReadViewState::broken
  closing,    \* the close signal was sent
  call,       \* client -> id of the request it waits for, 0 if none
  known,      \* client -> the revisions it last learned
  seen,       \* history: the highest revision of a key any answer told
  log,        \* history: validated transactions in serialization order
  outcome,    \* history: what became of each request
  faults      \* history: failures so far

taskVars   == <<pending, group, bytes, start, at, results, failed, ov, staged, stopAfter>>
storeVars  == <<db, lsn, broken>>
viewVars   == <<view, viewBroken>>
clientVars == <<call, known, seen>>
vars == <<queue, phase, taskVars, storeVars, viewVars, closing, clientVars, log, outcome,
          faults>>

Zero == [k \in Key |-> 0]
Ids  == 1..MaxRequests
Request ==
  [id : Ids, client : Client, kind : {"mutation", "read", "checkpoint"},
   reads : SUBSET Key, expect : [Key -> Nat], writes : SUBSET Key, size : Nat]
Result == [ans : {"ok", "done", "conflict", "invalid", "error"}, keys : SUBSET Key, rev : [Key -> Nat]]
Transaction == [id : Ids, reads : SUBSET Key, expect : [Key -> Nat], writes : SUBSET Key, lsn : Nat]
Submitted == {i \in Ids : outcome[i] # "unused"}
Fresh(i)  == i \in Ids /\ Submitted = 1..(i - 1)

Init ==
  /\ queue = <<>> /\ pending = <<>> /\ group = <<>> /\ bytes = 0
  /\ phase = "recv" /\ start = 1 /\ at = 1 /\ results = <<>> /\ failed = FALSE
  /\ ov = [rev |-> Zero, lsn |-> 0] /\ staged = <<>> /\ stopAfter = FALSE
  /\ db = Zero /\ lsn = 0 /\ broken = FALSE
  /\ view = Zero /\ viewBroken = FALSE /\ closing = FALSE
  /\ call = [c \in Client |-> 0] /\ known = [c \in Client |-> Zero] /\ seen = Zero
  /\ log = <<>> /\ outcome = [i \in Ids |-> "unused"] /\ faults = [io |-> 0, split |-> 0]

\* f with the keys of S taken from g; f raised to g on the keys of S.
Overlaid(f, g, S) == [k \in Key |-> IF k \in S THEN g[k] ELSE f[k]]
Raised(f, g, S)   == [k \in Key |-> IF k \in S /\ g[k] > f[k] THEN g[k] ELSE f[k]]
-----------------------------------------------------------------------------
(* Clients. *)

\* AsyncShard::send, try_enqueue: a full channel and a stopped task refuse.
Submit(c, s) ==
  /\ call[c] = 0
  /\ \E i \in Ids :
       /\ Fresh(i)
       /\ IF phase = "stopped" \/ Len(queue) >= QueueCapacity
          THEN /\ outcome' = [outcome EXCEPT ![i] = "refused"]
               /\ UNCHANGED <<queue, call>>
          ELSE /\ outcome' = [outcome EXCEPT ![i] = "waiting"]
               /\ queue' = Append(queue,
                    [id |-> i, client |-> c, kind |-> s.kind, reads |-> s.reads,
                     expect |-> Overlaid(Zero, known[c], s.reads), writes |-> s.writes,
                     size |-> s.size])
               /\ call' = [call EXCEPT ![c] = i]
  /\ UNCHANGED <<phase, taskVars, storeVars, viewVars, closing, known, seen, log, faults>>

\* try_read: Get, Query and Scan are answered from the committed view.
FastRead(c, S) ==
  /\ call[c] = 0
  /\ ~viewBroken
  /\ known' = [known EXCEPT ![c] = Overlaid(known[c], view, S)]
  /\ seen' = Raised(seen, view, S)
  /\ UNCHANGED <<queue, phase, taskVars, storeVars, viewVars, closing, call, log, outcome,
                 faults>>

\* The caller's future is dropped; its request stays queued and still runs.
GiveUp(c) ==
  /\ call[c] # 0
  /\ call' = [call EXCEPT ![c] = 0]
  /\ UNCHANGED <<queue, phase, taskVars, storeVars, viewVars, closing, known, seen, log,
                 outcome, faults>>

\* AsyncShard::shutdown sends the close signal once.
Shutdown ==
  /\ ~closing /\ closing' = TRUE
  /\ UNCHANGED <<queue, phase, taskVars, storeVars, viewVars, clientVars, log, outcome,
                 faults>>
-----------------------------------------------------------------------------
(* The task: receiving and collecting. *)

\* The task returns; dropping its channels tells everyone still waiting.
Stop ==
  /\ phase' = "stopped" /\ queue' = <<>> /\ pending' = <<>>
  /\ LET dropped == {r.id : r \in {queue[i] : i \in DOMAIN queue}
                                  \cup {pending[i] : i \in DOMAIN pending}}
     IN /\ outcome' = [i \in Ids |-> IF i \in dropped THEN "dropped" ELSE outcome[i]]
        /\ call' = [c \in Client |-> IF call[c] \in dropped THEN 0 ELSE call[c]]

StopIdle ==
  /\ phase = "recv" /\ pending = <<>> /\ closing
  /\ Stop
  /\ UNCHANGED <<group, bytes, start, at, results, failed, ov, staged, stopAfter,
                 storeVars, viewVars, closing, known, seen, log, faults>>

StartGroup(r) ==
  /\ group' = <<r>> /\ bytes' = r.size
  /\ phase' = "collect"
  /\ UNCHANGED <<start, at, results, failed, ov, staged, stopAfter, storeVars, viewVars,
                 closing, clientVars, log, outcome, faults>>

\* The request left over from the last group goes before the channel.
TakePending ==
  /\ phase = "recv" /\ pending # <<>>
  /\ pending' = <<>> /\ UNCHANGED queue
  /\ StartGroup(pending[1])

Receive ==
  /\ phase = "recv" /\ pending = <<>> /\ queue # <<>>
  /\ queue' = Tail(queue) /\ UNCHANGED pending
  /\ StartGroup(Head(queue))

CanAdd(r) == Len(group) < MaxGroupRequests /\ bytes + r.size <= MaxGroupBytes

\* One turn of collect_group's loops.
Collect ==
  /\ phase = "collect" /\ pending = <<>> /\ Len(group) < MaxGroupRequests /\ queue # <<>>
  /\ queue' = Tail(queue)
  /\ IF CanAdd(Head(queue))
     THEN /\ group' = Append(group, Head(queue))
          /\ bytes' = bytes + Head(queue).size
          /\ UNCHANGED pending
     ELSE pending' = <<Head(queue)>> /\ UNCHANGED <<group, bytes>>
  /\ UNCHANGED <<phase, start, at, results, failed, ov, staged, stopAfter, storeVars,
                 viewVars, closing, clientVars, log, outcome, faults>>

StartSegment(i) ==
  /\ phase' = "prepare" /\ start' = i /\ at' = i
  /\ results' = <<>> /\ failed' = FALSE
  /\ ov' = [rev |-> db, lsn |-> lsn] /\ staged' = <<>>

\* The delay loop runs only for a group of two or more that has room.
Delaying == Delay /\ Len(group) > 1 /\ Len(group) < MaxGroupRequests /\ pending = <<>>

EndCollect ==
  /\ phase = "collect"
  /\ Len(group) >= MaxGroupRequests \/ pending # <<>> \/ queue = <<>> \/ Delaying
  /\ stopAfter' \in (IF Delaying /\ closing THEN BOOLEAN ELSE {FALSE})
  /\ StartSegment(1)
  /\ UNCHANGED <<queue, pending, group, bytes, storeVars, viewVars, closing, clientVars,
                 log, outcome, faults>>
-----------------------------------------------------------------------------
(* The task: running a segment.  A segment is a maximal run of mutations,  *)
(* or one other operation.                                                 *)

Mutation(i)  == group[i].kind = "mutation"
InSegment(i) == i <= Len(group) /\ (i = start \/ (Mutation(start) /\ Mutation(i)))

\* Every condition holds against the latest staged state.
HoldsCommitted(r) == \A k \in r.reads : db[k] = r.expect[k]
Holds(r) == \A k \in r.reads : ov.rev[k] = r.expect[k]

Answer(a, S, f) == results' = Append(results, [ans |-> a, keys |-> S, rev |-> f])
runUnchanged == <<queue, pending, group, bytes, start, failed, stopAfter, lsn, db, viewVars,
                  closing, clientVars, log, outcome>>

Stamped(W, n) == [k \in Key |-> IF k \in W THEN n ELSE ov.rev[k]]

\* prepare_transaction accepts; a transaction without mutations commits nothing.
PrepareAccept ==
  /\ phase = "prepare" /\ InSegment(at) /\ Mutation(at) /\ Holds(group[at])
  /\ LET r == group[at]
         n == IF r.writes = {} THEN ov.lsn ELSE ov.lsn + 1
     IN /\ ov' = [rev |-> Stamped(r.writes, n), lsn |-> n]
        /\ staged' = Append(staged, [id |-> r.id, reads |-> r.reads, expect |-> r.expect,
                                     writes |-> r.writes, lsn |-> n])
        /\ Answer("ok", r.writes, Stamped(r.writes, n))
  /\ at' = at + 1
  /\ UNCHANGED <<runUnchanged, phase, broken, faults>>

\* A conflict answer carries the actual revision of the key that failed.
PrepareConflict ==
  /\ phase = "prepare" /\ InSegment(at) /\ Mutation(at) /\ ~Holds(group[at])
  /\ \E k \in group[at].reads :
       /\ ov.rev[k] # group[at].expect[k]
       /\ Answer("conflict", {k}, ov.rev)
  /\ at' = at + 1
  /\ UNCHANGED <<runUnchanged, phase, ov, staged, broken, faults>>

\* Overlay::put or delete fails with InvalidInput when a separator does not fit
\* (choose_internal_split): the keys of P written so far stay in the overlay
\* under the provisional revision, which the next accepted commit reuses.
\* (What the half-done split does to neighbouring keys is left out.)
PrepareSplitFails(P) ==
  /\ phase = "prepare" /\ InSegment(at) /\ Mutation(at) /\ Holds(group[at])
  /\ group[at].writes # {} /\ P \subseteq group[at].writes
  /\ faults.split < MaxSplitErr
  /\ faults' = [faults EXCEPT !.split = @ + 1]
  /\ ov' = [ov EXCEPT !.rev = Stamped(P, ov.lsn + 1)]
  /\ Answer("invalid", {}, ov.rev)
  /\ at' = at + 1
  /\ UNCHANGED <<runUnchanged, phase, staged, broken>>

\* Any other error of one candidate fails the whole group, nothing published.
PrepareFails ==
  /\ phase = "prepare" /\ InSegment(at) /\ Mutation(at)
  /\ faults.io < MaxIoErr
  /\ faults' = [faults EXCEPT !.io = @ + 1]
  /\ failed' = TRUE /\ phase' = "publish"
  /\ UNCHANGED <<queue, pending, group, bytes, start, at, results, ov, staged, stopAfter,
                 storeVars, viewVars, closing, clientVars, log, outcome>>

\* transact_get, observe: one committed state, refused once degraded.
ReadInOrder ==
  /\ phase = "prepare" /\ InSegment(at) /\ group[at].kind = "read"
  /\ IF broken THEN Answer("error", {}, db) ELSE Answer("done", group[at].reads, db)
  /\ at' = at + 1
  /\ UNCHANGED <<runUnchanged, phase, ov, staged, broken, faults>>

\* checkpoint: its failure degrades the store and is that request's answer only.
RunCheckpoint ==
  /\ phase = "prepare" /\ InSegment(at) /\ group[at].kind = "checkpoint"
  /\ \/ Answer(IF broken THEN "error" ELSE "done", {}, db) /\ UNCHANGED <<broken, faults>>
     \/ /\ ~broken /\ faults.io < MaxIoErr
        /\ broken' = TRUE /\ faults' = [faults EXCEPT !.io = @ + 1]
        /\ Answer("error", {}, db)
  /\ at' = at + 1
  /\ UNCHANGED <<runUnchanged, phase, ov, staged>>
-----------------------------------------------------------------------------
(* The task: committing, publishing and answering. *)

SegmentPrepared == phase = "prepare" /\ ~InSegment(at)
Wrote == \E i \in DOMAIN staged : staged[i].writes # {}
commitUnchanged == <<queue, pending, group, bytes, start, at, results, ov, staged, stopAfter,
                     viewVars, closing, clientVars, outcome>>

\* apply_transaction_group returns before publish_prepared_group, degraded or not.
CommitNothing ==
  /\ SegmentPrepared /\ ~Wrote
  /\ log' = log \o staged /\ phase' = "publish"
  /\ UNCHANGED <<commitUnchanged, failed, storeVars, faults>>

CommitGroup ==
  /\ SegmentPrepared /\ Wrote /\ ~broken
  /\ db' = ov.rev /\ lsn' = ov.lsn
  /\ log' = log \o staged /\ phase' = "publish"
  /\ UNCHANGED <<commitUnchanged, failed, broken, faults>>

\* publish_prepared_group: the store is degraded, or the WAL append degrades it.
CommitFailsUnnoticed ==
  /\ SegmentPrepared /\ Wrote
  /\ \/ broken /\ UNCHANGED faults
     \/ ~broken /\ faults.io < MaxIoErr /\ faults' = [faults EXCEPT !.io = @ + 1]
  /\ broken' = TRUE /\ phase' = "publish"
  /\ UNCHANGED <<commitUnchanged, failed, db, lsn, log>>
CommitFails ==
  /\ SegmentPrepared /\ Wrote
  /\ \/ broken /\ UNCHANGED faults
     \/ ~broken /\ faults.io < MaxIoErr /\ faults' = [faults EXCEPT !.io = @ + 1]
  /\ broken' = TRUE /\ failed' = TRUE /\ phase' = "publish"
  /\ UNCHANGED <<commitUnchanged, db, lsn, log>>

\* mark_read_view_broken, then publish_read_updates, before any answer is sent.
PublishAtGroupEnd ==
  /\ phase = "publish"
  /\ viewBroken' = (viewBroken \/ broken)
  /\ view' = IF at > Len(group) THEN db ELSE view
  /\ phase' = "respond" /\ at' = start
  /\ UNCHANGED <<queue, pending, group, bytes, start, results, failed, ov, staged, stopAfter,
                 storeVars, closing, clientVars, log, outcome, faults>>
Publish ==
  /\ phase = "publish"
  /\ viewBroken' = (viewBroken \/ broken)
  /\ view' = db
  /\ phase' = "respond" /\ at' = start
  /\ UNCHANGED <<queue, pending, group, bytes, start, results, failed, ov, staged, stopAfter,
                 storeVars, closing, clientVars, log, outcome, faults>>

\* A failed segment takes the rest of its group with it.
LastAnswered == IF failed THEN Len(group) ELSE start + Len(results) - 1

\* A caller that gave up dropped its receiver: the answer goes nowhere.
Respond ==
  /\ phase = "respond" /\ at <= LastAnswered
  /\ LET r == group[at]
         a == IF failed THEN [ans |-> "error", keys |-> {}, rev |-> db]
              ELSE results[at - start + 1]
     IN /\ outcome' = [outcome EXCEPT ![r.id] = a.ans]
        /\ IF call[r.client] = r.id
           THEN /\ call' = [call EXCEPT ![r.client] = 0]
                /\ known' = [known EXCEPT ![r.client] = Overlaid(known[r.client], a.rev, a.keys)]
                /\ seen' = Raised(seen, a.rev, a.keys)
           ELSE UNCHANGED clientVars
  /\ at' = at + 1
  /\ UNCHANGED <<queue, phase, pending, group, bytes, start, results, failed, ov, staged,
                 stopAfter, storeVars, viewVars, closing, log, faults>>

NextSegment ==
  /\ phase = "respond" /\ at > LastAnswered /\ at <= Len(group)
  /\ StartSegment(at)
  /\ UNCHANGED <<queue, pending, group, bytes, stopAfter, storeVars, viewVars, closing,
                 clientVars, log, outcome, faults>>

EndGroupAtSegmentEnd ==
  /\ phase = "respond" /\ at > LastAnswered
  /\ IF stopAfter THEN Stop
     ELSE phase' = "recv" /\ UNCHANGED <<queue, pending, call, outcome>>
  /\ group' = <<>> /\ bytes' = 0 /\ results' = <<>> /\ staged' = <<>>
  /\ start' = 1 /\ at' = 1 /\ failed' = FALSE /\ ov' = [rev |-> db, lsn |-> lsn]
  /\ UNCHANGED <<stopAfter, storeVars, viewVars, closing, known, seen, log, faults>>
EndGroup ==
  /\ phase = "respond" /\ at > LastAnswered /\ at > Len(group)
  /\ IF stopAfter THEN Stop
     ELSE phase' = "recv" /\ UNCHANGED <<queue, pending, call, outcome>>
  /\ group' = <<>> /\ bytes' = 0 /\ results' = <<>> /\ staged' = <<>>
  /\ start' = 1 /\ at' = 1 /\ failed' = FALSE /\ ov' = [rev |-> db, lsn |-> lsn]
  /\ UNCHANGED <<stopAfter, storeVars, viewVars, closing, known, seen, log, faults>>
-----------------------------------------------------------------------------
Task ==
  \/ StopIdle \/ TakePending \/ Receive \/ Collect \/ EndCollect
  \/ PrepareAccept \/ PrepareConflict \/ PrepareFails \/ ReadInOrder \/ RunCheckpoint
  \/ \E P \in SUBSET Key : PrepareSplitFails(P)
  \/ CommitNothing \/ CommitGroup \/ CommitFails \/ Publish
  \/ Respond \/ NextSegment \/ EndGroup

Callers ==
  \/ \E c \in Client :
       \/ \E s \in Shapes : Submit(c, s)
       \/ \E S \in ReadSets : FastRead(c, S)
       \/ GiveUp(c)
  \/ Shutdown

Next == Task \/ Callers
Spec == Init /\ [][Next]_vars
\* The runtime polls a runnable task again and again; nothing is asked of callers.
FairSpec == Spec /\ WF_vars(Task)
-----------------------------------------------------------------------------
ChannelTypeOK ==
  /\ queue \in Seq(Request) /\ Len(queue) <= QueueCapacity
  /\ pending \in Seq(Request) /\ Len(pending) <= 1
  /\ group \in Seq(Request) /\ bytes \in Nat
TaskTypeOK ==
  /\ phase \in {"recv", "collect", "prepare", "publish", "respond", "stopped"}
  /\ start \in Nat \ {0} /\ at \in Nat \ {0}
  /\ results \in Seq(Result) /\ staged \in Seq(Transaction)
  /\ ov \in [rev : [Key -> Nat], lsn : Nat]
StoreTypeOK ==
  /\ db \in [Key -> Nat] /\ lsn \in Nat /\ view \in [Key -> Nat]
FlagTypeOK ==
  /\ failed \in BOOLEAN /\ stopAfter \in BOOLEAN /\ broken \in BOOLEAN
  /\ viewBroken \in BOOLEAN /\ closing \in BOOLEAN
ClientTypeOK ==
  /\ call \in [Client -> Nat] /\ known \in [Client -> [Key -> Nat]]
  /\ seen \in [Key -> Nat]
HistoryTypeOK ==
  /\ log \in Seq(Transaction) /\ faults \in [io : Nat, split : Nat]
  /\ outcome \in [Ids -> {"unused", "waiting", "refused", "dropped"}
                         \cup {"ok", "done", "conflict", "invalid", "error"}]
TypeOK ==
  /\ ChannelTypeOK /\ TaskTypeOK /\ StoreTypeOK /\ FlagTypeOK /\ ClientTypeOK
  /\ HistoryTypeOK

\* No answer - of a write, an in-order read, a conflict or a read from the view -
\* tells a revision that is not committed, and once told, every later read from
\* the view is at least as recent ("A read issued after a successful write
\* response uses the newly published view", 03-transactions.md): the view is
\* published between the WAL sync and the answers.
ReadsAreCurrent ==
  \A k \in Key : seen[k] <= db[k] /\ (~viewBroken => seen[k] <= view[k])

LastWriter(j, i, k) ==
  /\ j < i /\ k \in log[j].writes
  /\ \A m \in (j + 1)..(i - 1) : k \notin log[m].writes

\* Every transaction that was answered a success overwrote exactly the revisions
\* it expected, also when another transaction of the same group wrote them first:
\* no lost update, no write skew on a checked key (Overlay::prepare_transaction).
Serializable ==
  \A i \in DOMAIN log : \A k \in log[i].reads :
    \/ /\ log[i].expect[k] = 0
       /\ \A m \in 1..(i - 1) : k \notin log[m].writes
    \/ \E j \in 1..(i - 1) : LastWriter(j, i, k) /\ log[j].lsn = log[i].expect[k]

\* A success names a transaction that took effect and any other answer -
\* conflict, "batch was not published", a full or closed channel, a dropped
\* response - one that did not (batch_error, try_enqueue, send); and every committed
\* revision is of a transaction that took effect: what a refused one prepared is
\* never published ("A preparation failure publishes nothing", 03-wal-recovery.md).
AnswersAreTrue ==
  /\ \A i \in Ids :
       LET tookEffect == \E j \in DOMAIN log : log[j].id = i
       IN /\ outcome[i] = "ok" => tookEffect
          /\ outcome[i] \in {"conflict", "invalid", "error", "refused", "dropped"} => ~tookEffect
  /\ \A k \in Key : db[k] # 0 =>
       \E j \in DOMAIN log : log[j].lsn = db[k] /\ k \in log[j].writes

\* Every caller is released: with an answer, or because the channel was dropped,
\* whatever fails and whenever the shard is shut down (coordinator, send).
CallersReleased == \A c \in Client : \A i \in Ids : call[c] = i ~> call[c] # i
=============================================================================
