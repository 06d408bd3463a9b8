----------------------- MODULE DodbCoordinatorAnswers -----------------------
(***************************************************************************)
(* Theorems about the transactions of DodbCoordinator: their order, and    *)
(* the answers their callers get.                                          *)
(***************************************************************************)
EXTENDS DodbCoordinatorProofs

(* A leaf that names no prover goes to the SMT solver, which is called again *)
(* when its time ran out, and in the end to Zenon.                           *)
USE SMTT(120), Z3T(120), SMTT(90), Z3T(90), ZenonT(60)

-----------------------------------------------------------------------------
(* Serializable.  The overlay holds, for every key, the revision of the    *)
(* last transaction that wrote it, counting the staged ones; a transaction *)
(* is staged only when it expects just these.                              *)

\* R is what the transactions of H leave.
LatestIn(H, R) ==
  \A k \in Key :
    \/ R[k] = 0 /\ \A m \in DOMAIN H : k \notin H[m].writes
    \/ \E j \in DOMAIN H : /\ k \in H[j].writes /\ H[j].lsn = R[k]
                           /\ \A m \in DOMAIN H : m > j => k \notin H[m].writes

\* Every transaction of H expects what the ones before it leave.
SerialIn(H) ==
  \A i \in DOMAIN H : \A k \in H[i].reads :
    \/ H[i].expect[k] = 0 /\ \A m \in 1..(i - 1) : k \notin H[m].writes
    \/ \E j \in 1..(i - 1) : /\ k \in H[j].writes /\ H[j].lsn = H[i].expect[k]
                             /\ \A m \in (j + 1)..(i - 1) : k \notin H[m].writes

Serial ==
  /\ SerialIn(log) /\ LatestIn(log, db)
  /\ phase = "prepare" => SerialIn(log \o staged) /\ LatestIn(log \o staged, ov.rev)

LEMMA AppendSerial ==
  ASSUME NEW H \in Seq(Transaction), NEW t \in Transaction, NEW R \in [Key -> Nat],
         SerialIn(H), LatestIn(H, R), \A k \in t.reads : R[k] = t.expect[k]
  PROVE  SerialIn(Append(H, t))
  <1> DEFINE G == Append(H, t)
  <1>1. /\ Len(H) \in Nat /\ DOMAIN H = 1..Len(H) /\ DOMAIN G = 1..(Len(H) + 1)
        /\ G[Len(H) + 1] = t /\ \A m \in 1..Len(H) : G[m] = H[m]
    OBVIOUS
  <1>2. t.reads \subseteq Key
    BY DEF Transaction
  <1> HIDE DEF G
  <1> SUFFICES ASSUME NEW i \in DOMAIN G, NEW k \in G[i].reads
               PROVE  \/ G[i].expect[k] = 0 /\ \A m \in 1..(i - 1) : k \notin G[m].writes
                      \/ \E j \in 1..(i - 1) :
                           /\ k \in G[j].writes /\ G[j].lsn = G[i].expect[k]
                           /\ \A m \in (j + 1)..(i - 1) : k \notin G[m].writes
    BY DEF SerialIn, G
  <1>3. CASE i = Len(H) + 1
    <2>1. k \in Key /\ G[i] = t /\ R[k] = t.expect[k] /\ i - 1 = Len(H)
      BY <1>1, <1>2, <1>3
    <2>2. CASE R[k] = 0 /\ \A m \in DOMAIN H : k \notin H[m].writes
      BY <1>1, <2>1, <2>2
    <2>3. ASSUME NEW j \in DOMAIN H, k \in H[j].writes, H[j].lsn = R[k],
                 \A m \in DOMAIN H : m > j => k \notin H[m].writes
          PROVE  \E l \in 1..(i - 1) :
                   /\ k \in G[l].writes /\ G[l].lsn = G[i].expect[k]
                   /\ \A m \in (l + 1)..(i - 1) : k \notin G[m].writes
      <3>1. j \in 1..(i - 1) /\ G[j] = H[j]
        BY <1>1, <2>1
      <3>2. ASSUME NEW m \in (j + 1)..(i - 1) PROVE k \notin G[m].writes
        <4>1. m \in DOMAIN H /\ m > j /\ G[m] = H[m]
          BY <1>1, <2>1, <3>1
        <4> QED BY <2>3, <4>1
      <3> QED BY <2>1, <2>3, <3>1, <3>2
    <2> QED BY <2>1, <2>2, <2>3 DEF LatestIn
  <1>4. CASE i # Len(H) + 1
    <2>1. i \in DOMAIN H /\ G[i] = H[i] /\ \A m \in 1..(i - 1) : G[m] = H[m]
      BY <1>1, <1>4
    <2>2. \/ H[i].expect[k] = 0 /\ \A m \in 1..(i - 1) : k \notin H[m].writes
          \/ \E j \in 1..(i - 1) : /\ k \in H[j].writes /\ H[j].lsn = H[i].expect[k]
                                   /\ \A m \in (j + 1)..(i - 1) : k \notin H[m].writes
      BY <2>1 DEF SerialIn
    <2>3. \A j \in 1..(i - 1) : \A m \in (j + 1)..(i - 1) : m \in 1..(i - 1)
      BY <1>1, <2>1
    <2> QED BY <2>1, <2>2, <2>3
  <1> QED BY <1>3, <1>4

LEMMA AppendLatest ==
  ASSUME NEW H \in Seq(Transaction), NEW t \in Transaction, NEW R, NEW S, LatestIn(H, R),
         \A k \in Key : S[k] = IF k \in t.writes THEN t.lsn ELSE R[k]
  PROVE  LatestIn(Append(H, t), S)
  <1> DEFINE G == Append(H, t)
  <1>1. /\ Len(H) \in Nat /\ DOMAIN H = 1..Len(H) /\ DOMAIN G = 1..(Len(H) + 1)
        /\ G[Len(H) + 1] = t /\ \A m \in 1..Len(H) : G[m] = H[m]
    OBVIOUS
  <1> HIDE DEF G
  <1> SUFFICES ASSUME NEW k \in Key
               PROVE  \/ S[k] = 0 /\ \A m \in DOMAIN G : k \notin G[m].writes
                      \/ \E j \in DOMAIN G : /\ k \in G[j].writes /\ G[j].lsn = S[k]
                                             /\ \A m \in DOMAIN G : m > j => k \notin G[m].writes
    BY DEF LatestIn, G
  <1>2. CASE k \in t.writes
    BY <1>1, <1>2
  <1>3. CASE k \notin t.writes
    <2>1. \A m \in DOMAIN G :
            (m \in DOMAIN H /\ G[m] = H[m]) \/ (m \notin DOMAIN H /\ G[m] = t)
      BY <1>1
    <2>2. DOMAIN H \subseteq DOMAIN G
      BY <1>1
    <2>3. S[k] = R[k]
      BY <1>3
    <2> QED BY <1>3, <2>1, <2>2, <2>3 DEF LatestIn
  <1> QED BY <1>2, <1>3

LEMMA SerialInit == Init => Serial
  BY DEF Init, Zero, Serial, SerialIn, LatestIn

LEMMA PrepareAcceptSerial ==
  ASSUME Typed, Serial, PrepareAccept
  PROVE  Serial'
  <1> DEFINE r == group[at]
             n == IF r.writes = {} THEN ov.lsn ELSE ov.lsn + 1
             tx == [id |-> r.id, reads |-> r.reads, expect |-> r.expect,
                    writes |-> r.writes, lsn |-> n]
             H == log \o staged
  <1>1. /\ phase = "prepare" /\ at <= Len(group) /\ Holds(r)
        /\ ov' = [rev |-> Stamped(r.writes, n), lsn |-> n]
        /\ staged' = Append(staged, tx)
        /\ UNCHANGED <<db, log>>
    BY DEF PrepareAccept, InSegment, runUnchanged
  <1>2. r \in Request
    BY <1>1 DEF Typed, TypeOK, ChannelTypeOK, TaskTypeOK
  <1>3. /\ log \in Seq(Transaction) /\ staged \in Seq(Transaction) /\ ov.lsn \in Nat
        /\ ov.rev \in [Key -> Nat]
    BY DEF Typed, TypeOK, HistoryTypeOK, TaskTypeOK
  <1>4. tx \in Transaction
    BY <1>2, <1>3 DEF Request, Transaction
  <1>5. H \in Seq(Transaction) /\ log \o Append(staged, tx) = Append(H, tx)
    <2> HIDE DEF tx
    <2> QED BY <1>3, <1>4
  <1>6. SerialIn(H) /\ LatestIn(H, ov.rev)
    BY <1>1 DEF Serial
  <1>7. \A k \in tx.reads : ov.rev[k] = tx.expect[k]
    BY <1>1 DEF Holds
  <1>8. \A k \in Key : Stamped(r.writes, n)[k] = IF k \in tx.writes THEN tx.lsn ELSE ov.rev[k]
    BY DEF Stamped
  <1>9. ov'.rev = Stamped(r.writes, n) /\ staged' = Append(staged, tx)
    BY <1>1
  <1> HIDE DEF tx, H, n, r
  <1>10. SerialIn(Append(H, tx))
    BY <1>3, <1>4, <1>5, <1>6, <1>7, AppendSerial
  <1>11. LatestIn(Append(H, tx), Stamped(r.writes, n))
    BY <1>4, <1>5, <1>6, <1>8, AppendLatest
  <1>12. log' \o staged' = Append(H, tx)
    BY <1>1, <1>5, <1>9
  <1> QED BY <1>1, <1>9, <1>10, <1>11, <1>12 DEF Serial

LEMMA SerialStep ==
  ASSUME MaxSplitErr = 0, Typed, Current, Serial, [Next]_vars
  PROVE  Serial'
  <1>1. ASSUME UNCHANGED <<log, db>>, phase' # "prepare" PROVE Serial'
    BY <1>1 DEF Serial
  <1>2. ASSUME UNCHANGED <<log, db, staged, ov>>, phase' = "prepare" => phase = "prepare"
        PROVE  Serial'
    BY <1>2 DEF Serial
  <1>3. CASE Callers \/ UNCHANGED vars
    BY <1>3, <1>2 DEF Callers, Submit, FastRead, GiveUp, Shutdown, taskVars, storeVars, vars
  <1>4. CASE \/ StopIdle \/ TakePending \/ Receive \/ Collect \/ PrepareFails \/ CommitFails
             \/ Publish \/ Respond \/ EndGroup
    <2>1. UNCHANGED <<log, db>> /\ phase' # "prepare"
      BY <1>4, ZenonT(60) DEF StopIdle, TakePending, Receive, StartGroup, Collect, PrepareFails, CommitFails,
                  Publish, Respond, EndGroup, Stop, storeVars, commitUnchanged
    <2> QED BY <1>1, <2>1
  <1>5. CASE PrepareConflict \/ ReadInOrder \/ RunCheckpoint
    BY <1>5, <1>2 DEF PrepareConflict, ReadInOrder, RunCheckpoint, runUnchanged
  <1>6. CASE \E P \in SUBSET Key : PrepareSplitFails(P)
    BY <1>6 DEF PrepareSplitFails, Typed, TypeOK, HistoryTypeOK
  <1>7. CASE EndCollect \/ NextSegment
    <2>1. ov' = [rev |-> db, lsn |-> lsn] /\ staged' = <<>> /\ UNCHANGED <<log, db>>
      BY <1>7, ZenonT(60) DEF EndCollect, NextSegment, StartSegment, storeVars
    <2>2. log \o <<>> = log
      BY DEF Typed, TypeOK, HistoryTypeOK
    <2> QED BY <2>1, <2>2 DEF Serial
  <1>8. CASE CommitNothing \/ CommitGroup
    <2>1. phase = "prepare" /\ phase' = "publish" /\ log' = log \o staged /\ db' = ov.rev
      BY <1>8 DEF CommitNothing, SegmentPrepared, storeVars, Current, OverlayAhead, CommitGroup
    <2> QED BY <2>1 DEF Serial
  <1> QED BY <1>3, <1>4, <1>5, <1>6, <1>7, <1>8, PrepareAcceptSerial, ZenonT(60) DEF Next, Task

\* For every number of clients, keys, requests and groups: as long as no
\* transaction is refused in the middle of a page split, every transaction that
\* takes effect overwrites exactly the revisions it expects
\* (Overlay::prepare_transaction, apply_transaction_group).
THEOREM SerializableHolds ==
  ASSUME MaxSplitErr = 0
  PROVE  Spec => []Serializable
  <1>1. Typed /\ Serial => Serializable
    BY DEF Serial, SerialIn, Serializable, LastWriter, Typed, TypeOK, HistoryTypeOK
  <1>2. Typed /\ Current /\ Serial /\ [Next]_vars => Typed' /\ Current' /\ Serial'
    BY TypeStep, CurrentStep, SerialStep
  <1> QED BY TypeInit, CurrentInit, SerialInit, <1>1, <1>2, PTL DEF Spec
-----------------------------------------------------------------------------
(* AnswersAreTrue.  Requests that wait are told apart by their ids, and a  *)
(* transaction is in the log before it is answered only while its segment  *)
(* is published and answered.                                              *)

\* The first position of the group that has no answer yet.
From == IF phase = "collect" THEN 1 ELSE IF phase = "respond" THEN at ELSE start
Answering == phase \in {"publish", "respond"} /\ ~failed

IdsIn(H) == {H[j].id : j \in DOMAIN H}

\* Ids of one sequence differ, and two sequences share none.
Apart(s) == \A m, n \in DOMAIN s : s[m].id = s[n].id => m = n
Disjoint(s, t) == \A m \in DOMAIN s, n \in DOMAIN t : s[m].id # t[n].id

Told ==
  /\ Apart(queue) /\ Apart(group)
  /\ Disjoint(queue, group) /\ Disjoint(pending, group) /\ Disjoint(queue, pending)

\* Who has no answer waits for one.
Waiting ==
  /\ \A m \in DOMAIN queue : outcome[queue[m].id] = "waiting"
  /\ \A m \in DOMAIN pending : outcome[pending[m].id] = "waiting"
  /\ \A p \in DOMAIN group : /\ outcome[group[p].id] # "unused"
                             /\ p >= From => outcome[group[p].id] = "waiting"
  /\ phase \in {"recv", "stopped"} => group = <<>>

\* The request that answer q of the segment is for.
Asker(q) == group[start + q - 1].id

\* An accepted transaction is staged, then logged, then answered.
Effects ==
  /\ \A i \in Ids : outcome[i] = "ok" => i \in IdsIn(log)
  /\ \A i \in IdsIn(log) :
       \/ outcome[i] = "ok"
       \/ /\ Answering
          /\ \E q \in DOMAIN results :
               start + q - 1 >= From /\ Asker(q) = i /\ results[q].ans = "ok"
  /\ \A q \in DOMAIN results : results[q].ans = "ok" =>
       /\ phase = "prepare" => Asker(q) \in IdsIn(staged)
       /\ Answering => Asker(q) \in IdsIn(log)
  /\ phase = "prepare" => \A i \in IdsIn(staged) :
       \E q \in DOMAIN results : Asker(q) = i /\ results[q].ans = "ok"

Truthful == Told /\ Waiting /\ Effects

LEMMA TruthfulInit == Init => Truthful
  BY DEF Init, Told, Apart, Disjoint, Waiting, Effects, IdsIn, Answering, Truthful

\* Where the requests are, and whose ids they carry.
LEMMA Places ==
  ASSUME Typed
  PROVE  /\ queue \in Seq(Request) /\ pending \in Seq(Request) /\ group \in Seq(Request)
         /\ Len(pending) <= 1
         /\ \A m \in DOMAIN queue : queue[m].id \in Ids
         /\ \A m \in DOMAIN pending : pending[m].id \in Ids
         /\ \A m \in DOMAIN group : group[m].id \in Ids
  <1>1. /\ queue \in Seq(Request) /\ pending \in Seq(Request) /\ group \in Seq(Request)
        /\ Len(pending) <= 1
    BY DEF Typed, TypeOK, ChannelTypeOK
  <1>2. \A r \in Request : r.id \in Ids
    BY DEF Request
  <1> QED BY <1>1, <1>2

LEMMA LogIds ==
  ASSUME Typed
  PROVE  IdsIn(log) \subseteq Ids /\ IdsIn(staged) \subseteq Ids
  <1>1. log \in Seq(Transaction) /\ staged \in Seq(Transaction)
    BY DEF Typed, TypeOK, HistoryTypeOK, TaskTypeOK
  <1>2. \A t \in Transaction : t.id \in Ids
    BY DEF Transaction
  <1> QED BY <1>1, <1>2 DEF IdsIn

\* The answers of a segment are for requests of the group.
LEMMA AskerPlace ==
  ASSUME Typed, Running, NEW q \in DOMAIN results
  PROVE  start + q - 1 \in DOMAIN group /\ start + q - 1 >= start
  <1>1. /\ start \in Nat \ {0} /\ Len(group) \in Nat /\ Len(results) \in Nat
        /\ group \in Seq(Request) /\ results \in Seq(Result)
        /\ start + Len(results) <= Len(group) + 1
    BY DEF Typed, TypeOK, ChannelTypeOK, TaskTypeOK, Cursor
  <1> QED BY <1>1

LEMMA QuietTruthful ==
  ASSUME Truthful, UNCHANGED <<queue, pending, group, phase, start, at, results, failed, staged,
                               log, outcome>>
  PROVE  Truthful'
  BY DEF Truthful, Told, Waiting, From, Effects, Answering, Asker

LEMMA SubmitTruthful ==
  ASSUME Typed, Truthful, NEW c \in Client, NEW s \in Shapes, Submit(c, s)
  PROVE  Truthful'
  <1>1. PICK i \in Ids :
          /\ Fresh(i)
          /\ \/ outcome' = [outcome EXCEPT ![i] = "refused"] /\ queue' = queue
             \/ /\ outcome' = [outcome EXCEPT ![i] = "waiting"]
                /\ queue' = Append(queue,
                     [id |-> i, client |-> c, kind |-> s.kind, reads |-> s.reads,
                      expect |-> Overlaid(Zero, known[c], s.reads), writes |-> s.writes,
                      size |-> s.size])
    BY ZenonT(60) DEF Submit
  <1>2. UNCHANGED <<pending, group, phase, start, at, results, failed, staged, log>>
    BY DEF Submit, taskVars
  <1>3. outcome[i] = "unused"
    BY CoordinatorAssumption, <1>1 DEF Ids, Fresh, Submitted
  <1>4. /\ \A m \in DOMAIN queue : queue[m].id # i
        /\ \A m \in DOMAIN pending : pending[m].id # i
        /\ \A m \in DOMAIN group : group[m].id # i
    BY <1>3 DEF Truthful, Waiting
  <1>5. \A j \in Ids : j # i => outcome'[j] = outcome[j]
    BY <1>1 DEF Typed, TypeOK, HistoryTypeOK
  <1>6. i \notin IdsIn(log) /\ outcome'[i] # "ok"
    BY <1>4, AskerPlace, <1>1, <1>3 DEF Asker, Typed, TypeOK, HistoryTypeOK, Truthful, Effects,
       Answering, Running
  <1>7. \/ queue' = queue
        \/ /\ outcome'[i] = "waiting" /\ DOMAIN queue' = 1..(Len(queue) + 1)
           /\ queue'[Len(queue) + 1].id = i /\ \A m \in DOMAIN queue : queue'[m] = queue[m]
    <2> DEFINE r == [id |-> i, client |-> c, kind |-> s.kind, reads |-> s.reads,
                     expect |-> Overlaid(Zero, known[c], s.reads), writes |-> s.writes,
                     size |-> s.size]
    <2>1. r.id = i
      OBVIOUS
    <2>2. queue' = queue \/ (queue' = Append(queue, r) /\ outcome' = [outcome EXCEPT ![i] = "waiting"])
      BY <1>1
    <2> HIDE DEF r
    <2>3. queue' = queue \/ (queue' = Append(queue, r) /\ outcome'[i] = "waiting")
      BY <2>2 DEF Typed, TypeOK, HistoryTypeOK
    <2>4. queue \in Seq(Request)
      BY Places
    <2>5. ASSUME queue' = Append(queue, r)
          PROVE  /\ DOMAIN queue' = 1..(Len(queue) + 1)
                 /\ queue'[Len(queue) + 1] = r /\ \A m \in DOMAIN queue : queue'[m] = queue[m]
      BY <2>4, <2>5
    <2> QED BY <2>1, <2>3, <2>5
  <1>8. \A m \in DOMAIN queue' : (m \in DOMAIN queue /\ queue'[m] = queue[m])
                                   \/ (m = Len(queue) + 1 /\ queue'[m].id = i /\ outcome'[i] = "waiting")
    BY Places, <1>7
  <1>9. Told'
    BY <1>2, <1>4, <1>8 DEF Truthful, Told, Apart, Disjoint
  <1>10. Waiting'
    BY <1>2, <1>4, <1>5, <1>8, Places DEF Truthful, Waiting, From
  <1>11. Effects'
    BY <1>3, <1>5, <1>6, <1>2, LogIds DEF Truthful, Effects, Answering, From, Asker
  <1> QED BY <1>9, <1>10, <1>11 DEF Truthful

\* Whatever took effect is answered.
Settled == \A i \in IdsIn(log) : outcome[i] = "ok"

LEMMA StopTruthful ==
  ASSUME Typed, Truthful, Settled, Stop, group' = <<>>, log' = log
  PROVE  Truthful'
  BY LogIds DEF Stop, Truthful, Waiting, Told, Apart, Disjoint, Effects, Answering, Settled

LEMMA StopIdleTruthful ==
  ASSUME Typed, Truthful, StopIdle
  PROVE  Truthful'
  BY StopTruthful DEF StopIdle, Truthful, Waiting, Effects, Answering, Settled

LEMMA EndGroupTruthful ==
  ASSUME Typed, Truthful, EndGroup
  PROVE  Truthful'
  <1>1. /\ phase = "respond" /\ at > Len(group)
        /\ group' = <<>> /\ log' = log
        /\ Stop \/ (phase' = "recv" /\ UNCHANGED <<queue, pending, outcome>>)
    BY DEF EndGroup
  <1>2. Settled
    <2> SUFFICES ASSUME NEW q \in DOMAIN results, start + q - 1 >= at PROVE FALSE
      BY <1>1 DEF Truthful, Effects, Settled, From
    <2>1. start + q - 1 \in DOMAIN group /\ group \in Seq(Request)
      BY <1>1, AskerPlace, Places DEF Running
    <2>2. at \in Nat
      BY DEF Typed, TypeOK, TaskTypeOK
    <2> QED BY <1>1, <2>1, <2>2
  <1>3. CASE Stop
    BY <1>1, <1>2, <1>3, StopTruthful
  <1>4. CASE phase' = "recv" /\ UNCHANGED <<queue, pending, outcome>>
    BY <1>1, <1>4, <1>2 DEF Truthful, Told, Apart, Disjoint, Waiting, Effects, Answering,
       Settled
  <1> QED BY <1>1, <1>3, <1>4

\* Taking the head off the channel.
LEMMA TailPlaces ==
  ASSUME Typed, queue # <<>>
  PROVE  /\ 1 \in DOMAIN queue /\ Head(queue) = queue[1]
         /\ \A m \in DOMAIN Tail(queue) :
              m + 1 \in DOMAIN queue /\ m + 1 # 1 /\ Tail(queue)[m] = queue[m + 1]
         /\ \A m, n \in DOMAIN Tail(queue) : m + 1 = n + 1 => m = n
  BY Places

LEMMA StartGroupTruthful ==
  ASSUME Typed, Truthful, TakePending \/ Receive
  PROVE  Truthful'
  <1>1. PICK r : /\ phase = "recv" /\ phase' = "collect" /\ group' = <<r>>
                 /\ UNCHANGED <<log, outcome>>
                 /\ \/ pending # <<>> /\ r = pending[1] /\ pending' = <<>> /\ queue' = queue
                    \/ /\ pending = <<>> /\ queue # <<>> /\ r = Head(queue)
                       /\ queue' = Tail(queue) /\ pending' = pending
    BY DEF TakePending, Receive, StartGroup
  <1>2. DOMAIN group' = {1} /\ group'[1] = r
    BY <1>1
  <1>3. CASE pending # <<>> /\ r = pending[1] /\ pending' = <<>> /\ queue' = queue
    BY Places, <1>3, <1>1, <1>2 DEF Truthful, Told, Apart, Disjoint, Waiting, Effects, Answering
  <1>4. CASE /\ pending = <<>> /\ queue # <<>> /\ r = Head(queue)
             /\ queue' = Tail(queue) /\ pending' = pending
    BY <1>4, TailPlaces, <1>2, <1>1 DEF Truthful, Told, Apart, Disjoint, Waiting, Effects,
       Answering
  <1> QED BY <1>1, <1>3, <1>4

LEMMA CollectTruthful ==
  ASSUME Typed, Truthful, Collect
  PROVE  Truthful'
  <1>1. /\ phase = "collect" /\ phase' = phase /\ UNCHANGED <<log, outcome>>
        /\ pending = <<>> /\ queue # <<>> /\ queue' = Tail(queue)
        /\ \/ group' = Append(group, Head(queue)) /\ pending' = pending
           \/ pending' = <<Head(queue)>> /\ group' = group
    BY DEF Collect
  <1>2. /\ Apart(queue') /\ \A m \in DOMAIN queue' : queue'[m].id # queue[1].id
        /\ \A m \in DOMAIN queue' : outcome[queue'[m].id] = "waiting"
        /\ Disjoint(queue', group) /\ outcome[queue[1].id] = "waiting"
        /\ \A m \in DOMAIN group : queue[1].id # group[m].id
        /\ Head(queue) = queue[1]
    BY <1>1, TailPlaces DEF Truthful, Told, Apart, Disjoint, Waiting
  <1>3. CASE group' = Append(group, Head(queue)) /\ pending' = pending
    <2>1. \A m \in DOMAIN group' : \/ m \in DOMAIN group /\ group'[m] = group[m]
                                   \/ m = Len(group) + 1 /\ group'[m] = queue[1]
      BY Places, <1>2, <1>3
    <2>2. Told'
      BY <1>1, <1>2, <1>3, <2>1 DEF Truthful, Told, Apart, Disjoint
    <2>3. Waiting'
      BY <1>1, <1>2, <1>3, <2>1, Places DEF Truthful, Waiting, From
    <2> QED BY <1>1, <2>2, <2>3 DEF Truthful, Effects, Answering
  <1>4. CASE pending' = <<Head(queue)>> /\ group' = group
    <2>1. DOMAIN pending' = {1} /\ pending'[1] = queue[1]
      BY <1>2, <1>4
    <2>2. Told'
      BY <1>1, <1>2, <1>4, <2>1 DEF Truthful, Told, Disjoint
    <2>3. Waiting'
      BY <1>1, <1>2, <1>4, <2>1 DEF Truthful, Waiting, From
    <2> QED BY <1>1, <2>2, <2>3 DEF Truthful, Effects, Answering
  <1> QED BY <1>1, <1>3, <1>4

LEMMA StartSegmentTruthful ==
  ASSUME Typed, Truthful, EndCollect \/ NextSegment
  PROVE  Truthful'
  <1>1. /\ UNCHANGED <<queue, pending, group, log, outcome>>
        /\ phase' = "prepare" /\ results' = <<>> /\ staged' = <<>>
        /\ \/ phase = "collect" /\ start' = 1
           \/ phase = "respond" /\ start' = at /\ at > LastAnswered /\ at <= Len(group)
    BY ZenonT(60) DEF EndCollect, NextSegment, StartSegment
  <1>2. Settled
    BY Places, <1>1 DEF Truthful, Effects, Answering, Settled, Typed, TypeOK, TaskTypeOK,
       LastAnswered, From
  <1>3. Told'
    BY <1>1 DEF Truthful, Told
  <1>4. Waiting'
    BY <1>1 DEF Truthful, Waiting, From
  <1>5. Effects'
    BY <1>1, <1>2 DEF Truthful, Effects, Answering, Settled, IdsIn
  <1> QED BY <1>3, <1>4, <1>5 DEF Truthful

\* One more answer in a segment that is prepared.
LEMMA AnswerTruthful ==
  ASSUME Typed, Truthful, phase = "prepare", NEW a, NEW S, NEW f, Answer(a, S, f),
         UNCHANGED <<queue, pending, group, phase, start, failed, log, outcome>>,
         \/ a = "ok" /\ IdsIn(staged') = IdsIn(staged) \cup {group[at].id}
         \/ a # "ok" /\ staged' = staged
  PROVE  Truthful'
  <1> DEFINE new == [ans |-> a, keys |-> S, rev |-> f]
  <1>1. /\ results \in Seq(Result) /\ start \in Nat /\ at = start + Len(results)
    BY DEF Typed, TypeOK, TaskTypeOK, Cursor
  <1>2. new.ans = a /\ results' = Append(results, new)
    BY DEF Answer
  <1> HIDE DEF new
  <1>3. /\ DOMAIN results \subseteq DOMAIN results' /\ Len(results) + 1 \in DOMAIN results'
        /\ \A q \in DOMAIN results : results'[q] = results[q]
        /\ \A q \in DOMAIN results' : q \in DOMAIN results \/ q = Len(results) + 1
        /\ results'[Len(results) + 1].ans = a
    BY <1>1, <1>2
  <1>4. /\ \A q \in DOMAIN results' : Asker(q)' = Asker(q)
        /\ Asker(Len(results) + 1) = group[at].id
    BY <1>1 DEF Asker
  <1>5. Told' /\ Waiting'
    BY DEF Truthful, Told, Waiting, From
  <1>6. Effects'
    <2>1. \A i \in IdsIn(log) : outcome[i] = "ok"
      BY DEF Truthful, Effects, Answering
    <2>2. ASSUME NEW q \in DOMAIN results', results'[q].ans = "ok"
          PROVE  Asker(q) \in IdsIn(staged')
      <3>1. CASE q \in DOMAIN results
        BY <1>3, <2>2, <3>1 DEF Truthful, Effects
      <3>2. CASE q = Len(results) + 1
        BY <1>3, <1>4, <2>2, <3>2
      <3> QED BY <1>3, <3>1, <3>2
    <2>3. ASSUME NEW i \in IdsIn(staged')
          PROVE  \E q \in DOMAIN results' : Asker(q) = i /\ results'[q].ans = "ok"
      <3>1. CASE i \in IdsIn(staged)
        BY <1>3, <3>1 DEF Truthful, Effects
      <3>2. CASE i \notin IdsIn(staged)
        BY <1>3, <1>4, <3>2
      <3> QED BY <3>1, <3>2
    <2> QED BY <1>4, <2>1, <2>2, <2>3 DEF Truthful, Effects, Answering
  <1> QED BY <1>5, <1>6 DEF Truthful

LEMMA PrepareTruthful ==
  ASSUME Typed, Truthful,
         \/ PrepareAccept \/ PrepareConflict \/ ReadInOrder \/ RunCheckpoint
         \/ \E P \in SUBSET Key : PrepareSplitFails(P)
  PROVE  Truthful'
  <1>1. CASE PrepareAccept
    <2> DEFINE r == group[at]
               n == IF r.writes = {} THEN ov.lsn ELSE ov.lsn + 1
               tx == [id |-> r.id, reads |-> r.reads, expect |-> r.expect,
                      writes |-> r.writes, lsn |-> n]
    <2>1. /\ phase = "prepare" /\ staged' = Append(staged, tx)
          /\ Answer("ok", r.writes, Stamped(r.writes, n))
          /\ UNCHANGED <<queue, pending, group, phase, start, failed, log, outcome>>
      BY <1>1, ZenonT(60) DEF PrepareAccept, runUnchanged
    <2>2. IdsIn(staged') = IdsIn(staged) \cup {group[at].id}
      <3>1. tx.id = group[at].id /\ staged \in Seq(Transaction)
        BY DEF Typed, TypeOK, TaskTypeOK
      <3> HIDE DEF tx
      <3>2. /\ \A j \in DOMAIN staged : j \in DOMAIN staged' /\ staged'[j] = staged[j]
            /\ \A j \in DOMAIN staged' : j \in DOMAIN staged \/ j = Len(staged) + 1
            /\ Len(staged) + 1 \in DOMAIN staged' /\ staged'[Len(staged) + 1] = tx
        BY <2>1, <3>1
      <3> QED BY <3>1, <3>2 DEF IdsIn
    <2> QED BY <2>1, <2>2, AnswerTruthful
  <1>2. CASE PrepareConflict \/ ReadInOrder \/ RunCheckpoint
             \/ \E P \in SUBSET Key : PrepareSplitFails(P)
    <2>1. /\ phase = "prepare" /\ staged' = staged
          /\ UNCHANGED <<queue, pending, group, phase, start, failed, log, outcome>>
      BY <1>2 DEF PrepareConflict, ReadInOrder, RunCheckpoint, PrepareSplitFails, runUnchanged
    <2>2. \E a : a # "ok" /\ \E S, f : Answer(a, S, f)
      <3>1. CASE PrepareConflict
        BY <3>1 DEF PrepareConflict
      <3>2. CASE ReadInOrder
        BY <3>2 DEF ReadInOrder
      <3>3. CASE RunCheckpoint
        BY <3>3 DEF RunCheckpoint
      <3>4. CASE \E P \in SUBSET Key : PrepareSplitFails(P)
        BY <3>4 DEF PrepareSplitFails
      <3> QED BY <1>2, <3>1, <3>2, <3>3, <3>4
    <2> QED BY <2>1, <2>2, AnswerTruthful
  <1> QED BY <1>1, <1>2

LEMMA CommitTruthful ==
  ASSUME Typed, Truthful, PrepareFails \/ CommitNothing \/ CommitGroup \/ CommitFails
  PROVE  Truthful'
  <1>1. /\ phase = "prepare" /\ phase' = "publish" /\ ~failed
        /\ UNCHANGED <<queue, pending, group, start, results, outcome>>
        /\ \/ failed' = TRUE /\ log' = log
           \/ failed' = failed /\ log' = log \o staged
    BY DEF PrepareFails, CommitNothing, CommitGroup, CommitFails, SegmentPrepared,
           commitUnchanged, Typed, Cursor
  <1>2. Told' /\ Waiting'
    BY <1>1 DEF Truthful, Told, Waiting, From
  <1>3. \A i \in IdsIn(log) : outcome[i] = "ok"
    BY <1>1 DEF Truthful, Effects, Answering
  <1>4. CASE failed' = TRUE /\ log' = log
    BY <1>1, <1>2, <1>3, <1>4, ZenonT(60) DEF Truthful, Effects, Answering
  <1>5. CASE failed' = failed /\ log' = log \o staged
    <2>1. IdsIn(log') = IdsIn(log) \cup IdsIn(staged)
      <3>1. log \in Seq(Transaction) /\ staged \in Seq(Transaction)
        BY DEF Typed, TypeOK, HistoryTypeOK, TaskTypeOK
      <3>2. /\ \A j \in DOMAIN log : j \in DOMAIN log' /\ log'[j] = log[j]
            /\ \A j \in DOMAIN staged : Len(log) + j \in DOMAIN log' /\ log'[Len(log) + j] = staged[j]
            /\ \A j \in DOMAIN log' : j \in DOMAIN log \/ j - Len(log) \in DOMAIN staged
            /\ \A j \in DOMAIN log' : j - Len(log) \in DOMAIN staged => log'[j] = staged[j - Len(log)]
        BY <1>5, <3>1
      <3>3. IdsIn(log) \subseteq IdsIn(log') /\ IdsIn(staged) \subseteq IdsIn(log')
        BY <3>2 DEF IdsIn
      <3>4. IdsIn(log') \subseteq IdsIn(log) \cup IdsIn(staged)
        BY <3>2 DEF IdsIn
      <3> QED BY <3>3, <3>4
    <2>2. \A q \in DOMAIN results' : Asker(q)' = Asker(q)
      BY <1>1 DEF Asker
    <2>3. ASSUME NEW i \in IdsIn(staged)
          PROVE  \E q \in DOMAIN results : /\ start + q - 1 >= start /\ Asker(q) = i
                                           /\ results[q].ans = "ok"
      BY <1>1, AskerPlace DEF Truthful, Effects, Running
    <2>4. Effects'
      BY <1>1, <2>1, <1>3, <1>5, <2>2, <2>3 DEF Truthful, Effects, Answering, From
    <2> QED BY <1>2, <2>4 DEF Truthful
  <1> QED BY <1>1, <1>4, <1>5, ZenonT(60)

LEMMA PublishTruthful ==
  ASSUME Truthful, Publish
  PROVE  Truthful'
  BY DEF Publish, Truthful, Told, Waiting, From, Effects, Answering, Asker

LEMMA RespondTruthful ==
  ASSUME Typed, Truthful, Respond
  PROVE  Truthful'
  <1> DEFINE id == group[at].id
  <1>1. /\ phase = "respond" /\ at <= LastAnswered /\ at' = at + 1
        /\ outcome' = [outcome EXCEPT ![id] = Given.ans]
        /\ UNCHANGED <<queue, pending, group, phase, start, results, failed, staged, log>>
    BY ZenonT(60) DEF Respond, Given
  <1>2. /\ at \in DOMAIN group /\ at \in Nat /\ start \in Nat /\ at >= start
        /\ (~failed => at - start + 1 \in DOMAIN results)
    BY <1>1, GivenType, Places DEF Typed, TypeOK, TaskTypeOK, Cursor, Running
  <1>3. id \in Ids /\ outcome[id] = "waiting"
    BY <1>1, <1>2, Places DEF Truthful, Waiting, From
  <1>4. \A p \in DOMAIN group : p # at => group[p].id # id
    BY <1>2 DEF Truthful, Told, Apart
  <1>5. /\ \A m \in DOMAIN queue : queue[m].id # id
        /\ \A m \in DOMAIN pending : pending[m].id # id
    BY <1>2 DEF Truthful, Told, Disjoint
  <1>6. Given.ans \in {"ok", "done", "conflict", "invalid", "error"}
    BY <1>1, GivenType DEF Result
  <1>7. outcome'[id] = Given.ans /\ \A i \in Ids : i # id => outcome'[i] = outcome[i]
    BY <1>1, <1>3 DEF Typed, TypeOK, HistoryTypeOK
  <1>8. Given.ans = "ok" <=> id \in IdsIn(log)
    <2>1. CASE failed
      BY <1>3, <2>1 DEF Truthful, Effects, Answering, Given
    <2>2. CASE ~failed
      <3> DEFINE q == at - start + 1
      <3>1. q \in DOMAIN results /\ start + q - 1 = at /\ Given = results[q] /\ Asker(q) = id
        BY <1>2, <2>2 DEF Given, Asker
      <3> HIDE DEF q
      <3>2. Given.ans = "ok" => id \in IdsIn(log)
        BY <1>1, <2>2, <3>1 DEF Truthful, Effects, Answering
      <3>3. ASSUME id \in IdsIn(log) PROVE Given.ans = "ok"
        <4>1. PICK z \in DOMAIN results : Asker(z) = id /\ results[z].ans = "ok"
          BY <1>3, <3>3 DEF Truthful, Effects
        <4>2. start + z - 1 \in DOMAIN group
          BY <1>1, AskerPlace DEF Running
        <4>3. start + z - 1 = at
          BY <1>4, <4>1, <4>2 DEF Asker
        <4>4. z \in Int /\ q \in Int
          BY <3>1 DEF Typed, TypeOK, TaskTypeOK
        <4>5. z = q
          BY <1>2, <3>1, <4>3, <4>4
        <4> QED BY <3>1, <4>1, <4>5
      <3> QED BY <3>2, <3>3
    <2> QED BY <2>1, <2>2
  <1> HIDE DEF id
  <1>9. Told'
    BY <1>1 DEF Truthful, Told
  <1>10. Waiting'
    <2>1. ASSUME NEW p \in DOMAIN group
          PROVE  /\ outcome'[group[p].id] # "unused"
                 /\ p >= at + 1 => outcome'[group[p].id] = "waiting"
      <3>1. CASE p = at
        BY <1>2, <1>6, <1>7, <3>1 DEF id
      <3>2. CASE p # at
        <4>1. p \in Nat
          BY Places
        <4> QED BY <1>1, <1>2, <1>4, <1>7, <3>2, <4>1, Places DEF Truthful, Waiting, From
      <3> QED BY <3>1, <3>2
    <2>2. /\ \A m \in DOMAIN queue : outcome'[queue[m].id] = "waiting"
          /\ \A m \in DOMAIN pending : outcome'[pending[m].id] = "waiting"
      BY <1>5, <1>7, Places, ZenonT(60) DEF Truthful, Waiting
    <2> QED BY <1>1, <2>1, <2>2 DEF Waiting, From
  <1>11. Effects'
    <2>1. \A q \in DOMAIN results : Asker(q)' = Asker(q)
      BY <1>1 DEF Asker
    <2>2. \A i \in Ids : outcome'[i] = "ok" => i \in IdsIn(log)
      BY <1>7, <1>8 DEF Truthful, Effects
    <2>3. ASSUME NEW i \in IdsIn(log), outcome'[i] # "ok"
          PROVE  /\ Answering
                 /\ \E q \in DOMAIN results :
                      start + q - 1 >= at + 1 /\ Asker(q) = i /\ results[q].ans = "ok"
      <3>1. i # id /\ i \in Ids /\ outcome[i] # "ok"
        BY <1>7, <1>8, <2>3, LogIds
      <3>2. PICK q \in DOMAIN results :
              start + q - 1 >= at /\ Asker(q) = i /\ results[q].ans = "ok"
        BY <1>1, <3>1 DEF Truthful, Effects, From
      <3>3. start + q - 1 # at
        BY <3>1, <3>2 DEF Asker, id
      <3>4. start + q - 1 \in Nat
        BY <1>1, AskerPlace, Places DEF Running
      <3>5. start + q - 1 >= at + 1
        BY <1>2, <3>2, <3>3, <3>4
      <3> QED BY <3>1, <3>2, <3>5 DEF Truthful, Effects
    <2>4. From' = at + 1 /\ Answering' = Answering /\ DOMAIN results' = DOMAIN results
      BY <1>1 DEF From, Answering
    <2>5. \A q \in DOMAIN results : results[q].ans = "ok" => (Answering => Asker(q) \in IdsIn(log))
      BY DEF Truthful, Effects
    <2>6. /\ \A i \in Ids : outcome'[i] = "ok" => i \in IdsIn(log')
          /\ \A i \in IdsIn(log') :
               \/ outcome'[i] = "ok"
               \/ /\ Answering'
                  /\ \E q \in DOMAIN results' :
                       start' + q - 1 >= From' /\ Asker(q)' = i /\ results'[q].ans = "ok"
      BY <1>1, <2>1, <2>2, <2>3, <2>4
    <2>7. \A q \in DOMAIN results' :
            results'[q].ans = "ok" => (Answering' => Asker(q)' \in IdsIn(log'))
      BY <1>1, <2>1, <2>4, <2>5
    <2> QED BY <1>1, <2>6, <2>7 DEF Effects
  <1> QED BY <1>9, <1>10, <1>11 DEF Truthful

LEMMA TruthfulStep == Typed /\ Truthful /\ [Next]_vars => Truthful'
  <1> SUFFICES ASSUME Typed, Truthful, [Next]_vars PROVE Truthful'
    OBVIOUS
  <1>1. CASE \/ UNCHANGED vars
             \/ \E c \in Client : GiveUp(c) \/ \E S \in ReadSets : FastRead(c, S)
             \/ Shutdown
    BY <1>1, QuietTruthful DEF vars, taskVars, GiveUp, FastRead, Shutdown
  <1> QED BY <1>1, SubmitTruthful, StopIdleTruthful, EndGroupTruthful, StartGroupTruthful,
             CollectTruthful, StartSegmentTruthful, PrepareTruthful, CommitTruthful,
             PublishTruthful, RespondTruthful, ZenonT(60) DEF Next, Task, Callers

\* For every number of clients, keys, requests and groups: as long as no
\* transaction is refused in the middle of a page split, a success is answered
\* just to what took effect, and every committed revision is of a transaction
\* that took effect (respond, batch_error, try_enqueue).
THEOREM AnswersAreTrueHolds ==
  ASSUME MaxSplitErr = 0
  PROVE  Spec => []AnswersAreTrue
  <1>1. Typed /\ Serial /\ Truthful => AnswersAreTrue
    <2> SUFFICES ASSUME Typed, Serial, Truthful PROVE AnswersAreTrue
      OBVIOUS
    <2>1. ASSUME NEW i \in Ids
          PROVE  /\ outcome[i] = "ok" => i \in IdsIn(log)
                 /\ i \in IdsIn(log) => outcome[i] \in {"ok", "waiting"}
      BY AskerPlace DEF Truthful, Effects, Answering, Running, Waiting, Asker
    <2>2. \A i : (\E j \in DOMAIN log : log[j].id = i) <=> i \in IdsIn(log)
      BY DEF IdsIn
    <2>3. \A k \in Key : db[k] # 0 => \E j \in DOMAIN log : log[j].lsn = db[k] /\ k \in log[j].writes
      BY DEF Serial, LatestIn
    <2> QED BY <2>1, <2>2, <2>3 DEF AnswersAreTrue
  <1>2. Typed /\ Current /\ Serial /\ Truthful /\ [Next]_vars
          => Typed' /\ Current' /\ Serial' /\ Truthful'
    BY TypeStep, CurrentStep, SerialStep, TruthfulStep
  <1> QED BY TypeInit, CurrentInit, SerialInit, TruthfulInit, <1>1, <1>2, PTL DEF Spec
=============================================================================
