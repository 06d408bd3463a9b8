----------------------- MODULE DodbCoordinatorProofs -----------------------
(***************************************************************************)
(* Theorems about DodbCoordinator for every number of clients, keys and    *)
(* requests, every queue and group limit and every failure budget.         *)
(***************************************************************************)
EXTENDS DodbCoordinator, TLAPS

(* A leaf that names no prover goes to the SMT solver, which is called again *)
(* when its time ran out, and in the end to Zenon.                           *)
USE SMTT(120), Z3T(120), SMTT(90), Z3T(90), ZenonT(60)

Running == phase \in {"prepare", "publish", "respond"}

\* Where the task stands in its group: answers and operations line up.
Cursor ==
  /\ Running => /\ start <= at /\ at <= Len(group) + 1
                /\ start + Len(results) <= Len(group) + 1
  /\ phase = "prepare" => ~failed /\ at = start + Len(results)

Typed == TypeOK /\ Cursor

LEMMA ZeroType == Zero \in [Key -> Nat]
  BY DEF Zero

LEMMA OverlaidType ==
  ASSUME NEW f \in [Key -> Nat], NEW g \in [Key -> Nat], NEW S \in SUBSET Key
  PROVE  /\ Overlaid(f, g, S) \in [Key -> Nat]
         /\ Raised(f, g, S) \in [Key -> Nat]
  BY DEF Overlaid, Raised

LEMMA StampedType ==
  ASSUME TypeOK, NEW W \in SUBSET Key, NEW n \in Nat
  PROVE  Stamped(W, n) \in [Key -> Nat]
  BY DEF TypeOK, TaskTypeOK, Stamped

LEMMA TypeInit == Init => Typed
  <1> SUFFICES ASSUME Init PROVE Typed
    OBVIOUS
  <1> USE DEF Init
  <1>1. ChannelTypeOK
    BY CoordinatorAssumption DEF ChannelTypeOK
  <1>2. TaskTypeOK
    BY ZeroType DEF TaskTypeOK
  <1>3. StoreTypeOK
    BY ZeroType DEF StoreTypeOK
  <1>4. FlagTypeOK
    BY ZenonT(60) DEF FlagTypeOK
  <1>5. ClientTypeOK
    BY ZeroType DEF ClientTypeOK
  <1>6. HistoryTypeOK
    BY DEF HistoryTypeOK
  <1>7. Cursor
    BY DEF Cursor, Running
  <1> QED BY <1>1, <1>2, <1>3, <1>4, <1>5, <1>6, <1>7 DEF Typed, TypeOK
-----------------------------------------------------------------------------
(* Typed is inductive: one lemma per action. *)

LEMMA SubmitTyped ==
  ASSUME Typed, NEW c \in Client, NEW s \in Shapes, Submit(c, s)
  PROVE  Typed'
  <1> DEFINE r(i) == [id |-> i, client |-> c, kind |-> s.kind, reads |-> s.reads,
                      expect |-> Overlaid(Zero, known[c], s.reads), writes |-> s.writes,
                      size |-> s.size]
  <1>1. PICK i \in Ids :
          \/ /\ outcome' = [outcome EXCEPT ![i] = "refused"]
             /\ UNCHANGED <<queue, call>>
          \/ /\ outcome' = [outcome EXCEPT ![i] = "waiting"]
             /\ ~(Len(queue) >= QueueCapacity)
             /\ queue' = Append(queue, r(i))
             /\ call' = [call EXCEPT ![c] = i]
    BY ZenonT(60) DEF Submit
  <1>2. r(i) \in Request
    <2>1. Overlaid(Zero, known[c], s.reads) \in [Key -> Nat]
      BY ZeroType, OverlaidType, CoordinatorAssumption, ZenonT(60) DEF Typed, TypeOK, ClientTypeOK
    <2> QED BY <2>1, CoordinatorAssumption DEF Request
  <1> HIDE DEF r
  <1>3. ChannelTypeOK'
    <2>1. queue \in Seq(Request) /\ Len(queue) <= QueueCapacity /\ QueueCapacity \in Nat
      BY CoordinatorAssumption DEF Typed, TypeOK, ChannelTypeOK
    <2>2. queue' \in Seq(Request) /\ Len(queue') <= QueueCapacity
      BY <1>1, <1>2, <2>1
    <2> QED BY <2>2 DEF Typed, TypeOK, ChannelTypeOK, Submit, taskVars
  <1> USE DEF Submit, taskVars, storeVars, viewVars
  <1>4. TaskTypeOK' /\ StoreTypeOK' /\ FlagTypeOK'
    BY DEF Typed, TypeOK, TaskTypeOK, StoreTypeOK, FlagTypeOK
  <1>5. ClientTypeOK'
    <2>1. i \in Nat
      BY CoordinatorAssumption DEF Ids
    <2>2. call' \in [Client -> Nat]
      BY <1>1, <2>1 DEF Typed, TypeOK, ClientTypeOK
    <2> QED BY <2>2 DEF Typed, TypeOK, ClientTypeOK
  <1>6. HistoryTypeOK'
    BY <1>1 DEF Typed, TypeOK, HistoryTypeOK
  <1>7. Cursor'
    BY DEF Typed, Cursor, Running
  <1> QED BY <1>3, <1>4, <1>5, <1>6, <1>7 DEF Typed, TypeOK

LEMMA CallerTyped ==
  ASSUME Typed, Callers
  PROVE  Typed'
  <1>1. CASE \E c \in Client : \E s \in Shapes : Submit(c, s)
    BY <1>1, SubmitTyped
  <1>2. CASE \E c \in Client : \E S \in ReadSets : FastRead(c, S)
    <2> PICK c \in Client, S \in ReadSets : FastRead(c, S)
      BY <1>2
    <2> USE DEF FastRead, taskVars, storeVars, viewVars
    <2>1. ClientTypeOK'
      BY OverlaidType, CoordinatorAssumption, ZenonT(60) DEF Typed, TypeOK, ClientTypeOK,
         StoreTypeOK
    <2>2. ChannelTypeOK' /\ TaskTypeOK' /\ StoreTypeOK' /\ FlagTypeOK' /\ HistoryTypeOK'
      BY DEF Typed, TypeOK, ChannelTypeOK, TaskTypeOK, StoreTypeOK, FlagTypeOK, HistoryTypeOK
    <2>3. Cursor'
      BY DEF Typed, Cursor, Running
    <2> QED BY <2>1, <2>2, <2>3 DEF Typed, TypeOK
  <1>3. CASE (\E c \in Client : GiveUp(c)) \/ Shutdown
    <2> USE DEF GiveUp, Shutdown, taskVars, storeVars, viewVars, clientVars
    <2>1. ClientTypeOK'
      BY <1>3 DEF Typed, TypeOK, ClientTypeOK
    <2>2. ChannelTypeOK' /\ TaskTypeOK' /\ StoreTypeOK' /\ HistoryTypeOK'
      BY <1>3 DEF Typed, TypeOK, ChannelTypeOK, TaskTypeOK, StoreTypeOK, HistoryTypeOK
    <2>3. FlagTypeOK'
      BY <1>3, ZenonT(60) DEF Typed, TypeOK, FlagTypeOK
    <2>4. Cursor'
      BY <1>3 DEF Typed, Cursor, Running
    <2> QED BY <2>1, <2>2, <2>3, <2>4 DEF Typed, TypeOK
  <1> QED BY <1>1, <1>2, <1>3 DEF Callers

LEMMA StopType ==
  ASSUME Typed, Stop
  PROVE  /\ queue' = <<>> /\ pending' = <<>> /\ phase' = "stopped"
         /\ call' \in [Client -> Nat]
         /\ outcome' \in [Ids -> {"unused", "waiting", "refused", "dropped"}
                                 \cup {"ok", "done", "conflict", "invalid", "error"}]
  BY DEF Stop, Typed, TypeOK, ClientTypeOK, HistoryTypeOK

LEMMA StopIdleTyped ==
  ASSUME Typed, StopIdle
  PROVE  Typed'
  <1> USE DEF StopIdle, Stop, storeVars, viewVars
  <1>1. ChannelTypeOK'
    BY CoordinatorAssumption DEF Typed, TypeOK, ChannelTypeOK
  <1>2. TaskTypeOK' /\ StoreTypeOK' /\ FlagTypeOK'
    BY DEF Typed, TypeOK, TaskTypeOK, StoreTypeOK, FlagTypeOK
  <1>3. ClientTypeOK'
    BY DEF Typed, TypeOK, ClientTypeOK
  <1>4. HistoryTypeOK'
    BY DEF Typed, TypeOK, HistoryTypeOK
  <1>5. Cursor'
    BY DEF Cursor, Running
  <1> QED BY <1>1, <1>2, <1>3, <1>4, <1>5 DEF Typed, TypeOK

LEMMA StartGroupTyped ==
  ASSUME Typed, TakePending \/ Receive
  PROVE  Typed'
  <1> USE DEF TakePending, Receive, StartGroup, storeVars, viewVars, clientVars
  <1>1. ChannelTypeOK'
    <2>1. CASE TakePending
      <3>1. pending[1] \in Request
        BY <2>1 DEF Typed, TypeOK, ChannelTypeOK
      <3>2. pending[1].size \in Nat
        BY <3>1 DEF Request
      <3> QED BY <2>1, <3>1, <3>2 DEF Typed, TypeOK, ChannelTypeOK
    <2>2. CASE Receive
      <3>1. Head(queue) \in Request /\ Tail(queue) \in Seq(Request)
            /\ Len(Tail(queue)) <= Len(queue)
        BY <2>2 DEF Typed, TypeOK, ChannelTypeOK
      <3>2. Head(queue).size \in Nat
        BY <3>1 DEF Request
      <3> QED BY <2>2, <3>1, <3>2, CoordinatorAssumption DEF Typed, TypeOK, ChannelTypeOK
    <2> QED BY <2>1, <2>2
  <1>2. TaskTypeOK' /\ StoreTypeOK' /\ FlagTypeOK'
    BY DEF Typed, TypeOK, TaskTypeOK, StoreTypeOK, FlagTypeOK
  <1>3. ClientTypeOK' /\ HistoryTypeOK'
    BY DEF Typed, TypeOK, ClientTypeOK, HistoryTypeOK
  <1>4. Cursor'
    BY DEF Cursor, Running
  <1> QED BY <1>1, <1>2, <1>3, <1>4 DEF Typed, TypeOK

LEMMA CollectTyped ==
  ASSUME Typed, Collect
  PROVE  Typed'
  <1> USE DEF Collect, storeVars, viewVars, clientVars
  <1>1. ChannelTypeOK'
    <2>1. Head(queue) \in Request /\ Tail(queue) \in Seq(Request)
          /\ Len(Tail(queue)) <= Len(queue)
      BY DEF Typed, TypeOK, ChannelTypeOK
    <2>2. Head(queue).size \in Nat
      BY <2>1 DEF Request
    <2>3. queue' \in Seq(Request) /\ Len(queue') <= QueueCapacity
      BY <2>1, CoordinatorAssumption DEF Typed, TypeOK, ChannelTypeOK
    <2>4. \/ /\ group' = Append(group, Head(queue)) /\ bytes' = bytes + Head(queue).size
             /\ pending' = pending
          \/ group' = group /\ bytes' = bytes /\ pending' = <<Head(queue)>>
      BY ZenonT(60)
    <2>5. /\ pending' \in Seq(Request) /\ Len(pending') <= 1
          /\ group' \in Seq(Request) /\ bytes' \in Nat
      <3>1. /\ pending \in Seq(Request) /\ Len(pending) <= 1
            /\ group \in Seq(Request) /\ bytes \in Nat
        BY DEF Typed, TypeOK, ChannelTypeOK
      <3> HIDE DEF Collect
      <3> DEFINE h == Head(queue)
      <3>2. h \in Request /\ h.size \in Nat
        BY <2>1, <2>2
      <3>3. /\ Append(group, h) \in Seq(Request) /\ bytes + h.size \in Nat
            /\ <<h>> \in Seq(Request) /\ Len(<<h>>) <= 1
        BY <3>1, <3>2
      <3> QED BY <2>4, <3>1, <3>3, ZenonT(60)
    <2> QED BY <2>3, <2>4, <2>5 DEF ChannelTypeOK
  <1>2. TaskTypeOK' /\ StoreTypeOK' /\ FlagTypeOK'
    BY DEF Typed, TypeOK, TaskTypeOK, StoreTypeOK, FlagTypeOK
  <1>3. ClientTypeOK' /\ HistoryTypeOK'
    BY DEF Typed, TypeOK, ClientTypeOK, HistoryTypeOK
  <1>4. Cursor'
    BY DEF Cursor, Running
  <1> QED BY <1>1, <1>2, <1>3, <1>4 DEF Typed, TypeOK

LEMMA StartSegmentTyped ==
  ASSUME Typed, EndCollect \/ NextSegment
  PROVE  Typed'
  <1>0. \E i \in Nat \ {0} : i <= Len(group) + 1 /\ StartSegment(i)
    <2>1. Len(group) \in Nat /\ at \in Nat \ {0}
      BY DEF Typed, TypeOK, ChannelTypeOK, TaskTypeOK
    <2>2. CASE EndCollect
      BY <2>1, <2>2 DEF EndCollect
    <2>3. CASE NextSegment
      BY <2>1, <2>3 DEF NextSegment
    <2> QED BY <2>2, <2>3
  <1>1. UNCHANGED <<queue, pending, group, bytes, storeVars, viewVars, closing, clientVars,
                    log, outcome, faults>>
    BY ZenonT(60) DEF EndCollect, NextSegment
  <1> USE <1>1 DEF storeVars, viewVars, clientVars
  <1>2. ChannelTypeOK' /\ StoreTypeOK'
    BY DEF Typed, TypeOK, ChannelTypeOK, StoreTypeOK
  <1>3. TaskTypeOK'
    BY <1>0 DEF StartSegment, Typed, TypeOK, TaskTypeOK, StoreTypeOK
  <1>4. FlagTypeOK'
    BY <1>0, ZenonT(60) DEF EndCollect, NextSegment, Typed, TypeOK, FlagTypeOK, StartSegment
  <1>5. ClientTypeOK' /\ HistoryTypeOK'
    BY DEF Typed, TypeOK, ClientTypeOK, HistoryTypeOK
  <1>6. Cursor'
    BY <1>0 DEF StartSegment, Typed, TypeOK, ChannelTypeOK, Cursor, Running
  <1> QED BY <1>2, <1>3, <1>4, <1>5, <1>6 DEF Typed, TypeOK

LEMMA FaultsType ==
  ASSUME NEW f \in [io : Nat, split : Nat]
  PROVE  /\ [f EXCEPT !.io = @ + 1] \in [io : Nat, split : Nat]
         /\ [f EXCEPT !.split = @ + 1] \in [io : Nat, split : Nat]
  OBVIOUS

LEMMA CurrentRequest ==
  ASSUME Typed, at <= Len(group)
  PROVE  /\ group[at] \in Request
         /\ group[at].id \in Ids /\ group[at].client \in Client
         /\ group[at].reads \in SUBSET Key /\ group[at].writes \in SUBSET Key
         /\ group[at].expect \in [Key -> Nat]
  <1>1. group[at] \in Request
    BY DEF Typed, TypeOK, ChannelTypeOK, TaskTypeOK
  <1> QED BY <1>1 DEF Request

LEMMA AnswerTyped ==
  ASSUME Typed, NEW a \in {"ok", "done", "conflict", "invalid", "error"},
         NEW S \in SUBSET Key, NEW f \in [Key -> Nat], Answer(a, S, f)
  PROVE  /\ results' \in Seq(Result)
         /\ Len(results') = Len(results) + 1
  BY DEF Result, Answer, Typed, TypeOK, TaskTypeOK

\* What the steps that run one operation of a segment have in common.
LEMMA RunOneTyped ==
  ASSUME Typed, phase = "prepare", InSegment(at), at' = at + 1,
         UNCHANGED <<runUnchanged, phase>>,
         results' \in Seq(Result), Len(results') = Len(results) + 1,
         staged' \in Seq(Transaction), ov' \in [rev : [Key -> Nat], lsn : Nat],
         broken' \in BOOLEAN, faults' \in [io : Nat, split : Nat]
  PROVE  Typed'
  <1> USE DEF runUnchanged, viewVars, clientVars
  <1>1. ChannelTypeOK' /\ StoreTypeOK'
    BY DEF Typed, TypeOK, ChannelTypeOK, StoreTypeOK
  <1>2. TaskTypeOK'
    BY DEF Typed, TypeOK, TaskTypeOK
  <1>3. FlagTypeOK'
    BY DEF Typed, TypeOK, FlagTypeOK
  <1>4. ClientTypeOK' /\ HistoryTypeOK'
    BY DEF Typed, TypeOK, ClientTypeOK, HistoryTypeOK
  <1>5. Cursor'
    <2>1. ~failed /\ at = start + Len(results) /\ phase' = "prepare" /\ at <= Len(group)
      BY DEF Typed, Cursor, InSegment
    <2>2. ~failed' /\ start' = start /\ group' = group
      BY <2>1
    <2>3. start \in Nat /\ at \in Nat /\ Len(group) \in Nat /\ Len(results) \in Nat
      BY DEF Typed, TypeOK, ChannelTypeOK, TaskTypeOK
    <2>4. /\ at' = start' + Len(results') /\ start' <= at' /\ at' <= Len(group') + 1
          /\ start' + Len(results') <= Len(group') + 1
      BY <2>1, <2>2, <2>3
    <2> QED BY <2>1, <2>2, <2>4 DEF Cursor
  <1> QED BY <1>1, <1>2, <1>3, <1>4, <1>5 DEF Typed, TypeOK

LEMMA PrepareTyped ==
  ASSUME Typed,
         \/ PrepareAccept \/ PrepareConflict \/ ReadInOrder \/ RunCheckpoint
         \/ \E P \in SUBSET Key : PrepareSplitFails(P)
  PROVE  Typed'
  <1>0. phase = "prepare" /\ InSegment(at) /\ at <= Len(group)
    BY DEF PrepareAccept, PrepareConflict, ReadInOrder, RunCheckpoint, PrepareSplitFails,
           InSegment
  <1>r. /\ group[at].id \in Ids /\ group[at].reads \in SUBSET Key
        /\ group[at].writes \in SUBSET Key /\ group[at].expect \in [Key -> Nat]
    BY <1>0, CurrentRequest
  <1>t. /\ db \in [Key -> Nat] /\ ov.rev \in [Key -> Nat] /\ ov.lsn \in Nat
        /\ ov \in [rev : [Key -> Nat], lsn : Nat] /\ staged \in Seq(Transaction)
        /\ broken \in BOOLEAN /\ faults \in [io : Nat, split : Nat]
    BY DEF Typed, TypeOK, StoreTypeOK, TaskTypeOK, FlagTypeOK, HistoryTypeOK
  <1>1. CASE PrepareAccept
    <2> DEFINE r == group[at]
               n == IF r.writes = {} THEN ov.lsn ELSE ov.lsn + 1
               tx == [id |-> r.id, reads |-> r.reads, expect |-> r.expect,
                      writes |-> r.writes, lsn |-> n]
    <2>1. n \in Nat
      BY <1>t
    <2>2. Stamped(r.writes, n) \in [Key -> Nat]
      BY <1>r, <2>1, StampedType DEF Typed
    <2>3. tx \in Transaction
      BY <1>r, <2>1 DEF Transaction
    <2>4. /\ ov' = [rev |-> Stamped(r.writes, n), lsn |-> n]
          /\ staged' = Append(staged, tx)
          /\ Answer("ok", r.writes, Stamped(r.writes, n))
          /\ at' = at + 1
          /\ UNCHANGED <<runUnchanged, phase, broken, faults>>
      BY <1>1, ZenonT(60) DEF PrepareAccept
    <2> HIDE DEF r, n, tx
    <2>5. ov' \in [rev : [Key -> Nat], lsn : Nat] /\ staged' \in Seq(Transaction)
      BY <2>1, <2>2, <2>3, <2>4, <1>t
    <2>6. results' \in Seq(Result) /\ Len(results') = Len(results) + 1
      BY <2>2, <2>4, <1>r, AnswerTyped DEF r
    <2> QED BY <1>0, <1>t, <2>4, <2>5, <2>6, RunOneTyped
  <1>2. CASE PrepareConflict
    BY <1>2, <1>r, <1>t, AnswerTyped, <1>0, RunOneTyped, ZenonT(60) DEF PrepareConflict
  <1>3. CASE ReadInOrder
    BY <1>3, <1>r, <1>t, AnswerTyped, <1>0, RunOneTyped, ZenonT(60) DEF ReadInOrder
  <1>4. CASE RunCheckpoint
    <2>1. results' \in Seq(Result) /\ Len(results') = Len(results) + 1
      BY <1>4, <1>t, AnswerTyped, ZenonT(60) DEF RunCheckpoint
    <2>2. broken' \in BOOLEAN
      BY <1>4, <1>t, ZenonT(60) DEF RunCheckpoint
    <2>3. faults' \in [io : Nat, split : Nat]
      BY <1>4, <1>t DEF RunCheckpoint
    <2> QED BY <1>0, <1>4, <1>t, <2>1, <2>2, <2>3, RunOneTyped DEF RunCheckpoint
  <1>5. CASE \E P \in SUBSET Key : PrepareSplitFails(P)
    <2> PICK P \in SUBSET Key : PrepareSplitFails(P)
      BY <1>5
    <2>1. Stamped(P, ov.lsn + 1) \in [Key -> Nat]
      BY <1>t, StampedType DEF Typed
    <2>2. ov' \in [rev : [Key -> Nat], lsn : Nat]
      BY <1>t, <2>1, ZenonT(60) DEF PrepareSplitFails
    <2>3. results' \in Seq(Result) /\ Len(results') = Len(results) + 1
      BY <1>t, AnswerTyped DEF PrepareSplitFails
    <2>4. faults' \in [io : Nat, split : Nat]
      BY <1>t, FaultsType, ZenonT(60) DEF PrepareSplitFails
    <2> QED BY <1>0, <1>t, <2>2, <2>3, <2>4, RunOneTyped DEF PrepareSplitFails
  <1> QED BY <1>1, <1>2, <1>3, <1>4, <1>5

LEMMA CommitTyped ==
  ASSUME Typed, PrepareFails \/ CommitNothing \/ CommitGroup \/ CommitFails
  PROVE  Typed'
  <1>0. /\ UNCHANGED <<queue, pending, group, bytes, start, at, results, ov, staged, stopAfter,
                       viewVars, closing, clientVars, outcome>>
        /\ phase = "prepare" /\ phase' = "publish"
    BY DEF PrepareFails, CommitNothing, CommitGroup, CommitFails, commitUnchanged,
           SegmentPrepared
  <1> USE <1>0 DEF viewVars, clientVars
  <1>1. ChannelTypeOK'
    BY DEF Typed, TypeOK, ChannelTypeOK
  <1>2. TaskTypeOK'
    BY DEF Typed, TypeOK, TaskTypeOK
  <1>3. StoreTypeOK'
    BY DEF PrepareFails, CommitNothing, CommitGroup, CommitFails, storeVars, Typed, TypeOK,
       StoreTypeOK, TaskTypeOK
  <1>4. FlagTypeOK'
    BY ZenonT(60) DEF PrepareFails, CommitNothing, CommitGroup, CommitFails, storeVars, Typed,
       TypeOK, FlagTypeOK
  <1>5. ClientTypeOK'
    BY DEF Typed, TypeOK, ClientTypeOK
  <1>6. HistoryTypeOK'
    <2>1. log' = log \/ log' = log \o staged
      BY ZenonT(60) DEF PrepareFails, CommitNothing, CommitGroup, CommitFails
    <2>2. faults' = faults \/ faults' = [faults EXCEPT !.io = @ + 1]
      BY ZenonT(60) DEF PrepareFails, CommitNothing, CommitGroup, CommitFails
    <2>3. log' \in Seq(Transaction)
      <3>1. log \in Seq(Transaction) /\ staged \in Seq(Transaction)
        BY DEF Typed, TypeOK, HistoryTypeOK, TaskTypeOK
      <3>2. log \o staged \in Seq(Transaction)
        BY <3>1
      <3> QED BY <2>1, <3>1, <3>2, ZenonT(60)
    <2>4. faults' \in [io : Nat, split : Nat]
      BY <2>2, FaultsType, ZenonT(60) DEF Typed, TypeOK, HistoryTypeOK
    <2> QED BY <2>3, <2>4 DEF Typed, TypeOK, HistoryTypeOK
  <1>7. Cursor'
    BY DEF Typed, Cursor, Running
  <1> QED BY <1>1, <1>2, <1>3, <1>4, <1>5, <1>6, <1>7 DEF Typed, TypeOK

LEMMA PublishTyped ==
  ASSUME Typed, Publish
  PROVE  Typed'
  <1> USE DEF Publish, storeVars, clientVars
  <1>1. ChannelTypeOK' /\ TaskTypeOK' /\ StoreTypeOK'
    BY DEF Typed, TypeOK, ChannelTypeOK, TaskTypeOK, StoreTypeOK
  <1>2. FlagTypeOK'
    BY DEF Typed, TypeOK, FlagTypeOK
  <1>3. ClientTypeOK' /\ HistoryTypeOK'
    BY DEF Typed, TypeOK, ClientTypeOK, HistoryTypeOK
  <1>4. Cursor'
    BY DEF Typed, TypeOK, ChannelTypeOK, TaskTypeOK, Cursor, Running
  <1> QED BY <1>1, <1>2, <1>3, <1>4 DEF Typed, TypeOK

\* The answer Respond gives to the request at the cursor.
Given == IF failed THEN [ans |-> "error", keys |-> {}, rev |-> db]
         ELSE results[at - start + 1]

LEMMA GivenType ==
  ASSUME Typed, phase = "respond", at <= LastAnswered
  PROVE  /\ Given \in Result /\ at <= Len(group)
         /\ ~failed => at - start + 1 \in DOMAIN results
  <1>1. /\ start \in Nat /\ at \in Nat /\ Len(group) \in Nat /\ Len(results) \in Nat
        /\ start <= at /\ start + Len(results) <= Len(group) + 1
        /\ results \in Seq(Result)
    BY DEF Typed, TypeOK, ChannelTypeOK, TaskTypeOK, Cursor, Running
  <1>2. CASE failed
    BY <1>2 DEF Result, Typed, TypeOK, StoreTypeOK, Given, LastAnswered
  <1>3. CASE ~failed
    BY <1>3, <1>1 DEF LastAnswered, Given
  <1> QED BY <1>2, <1>3

LEMMA RespondTyped ==
  ASSUME Typed, Respond
  PROVE  Typed'
  <1> DEFINE r == group[at]
  <1>0. phase = "respond" /\ at <= LastAnswered
    BY DEF Respond
  <1>1. Given \in Result /\ at <= Len(group)
    BY <1>0, GivenType
  <1>2. r.id \in Ids /\ r.client \in Client
    BY <1>1, CurrentRequest
  <1>3. /\ outcome' = [outcome EXCEPT ![r.id] = Given.ans]
        /\ \/ /\ call' = [call EXCEPT ![r.client] = 0]
              /\ known' = [known EXCEPT ![r.client] = Overlaid(known[r.client], Given.rev, Given.keys)]
              /\ seen' = Raised(seen, Given.rev, Given.keys)
           \/ UNCHANGED clientVars
    BY ZenonT(60) DEF Respond, Given
  <1> HIDE DEF r
  <1>4. /\ Given.ans \in {"ok", "done", "conflict", "invalid", "error"}
        /\ Given.keys \in SUBSET Key /\ Given.rev \in [Key -> Nat]
    BY <1>1 DEF Result
  <1>5. HistoryTypeOK'
    BY <1>2, <1>3, <1>4, ZenonT(60) DEF Respond, Typed, TypeOK, HistoryTypeOK
  <1>6. ClientTypeOK'
    <2>1. /\ call \in [Client -> Nat] /\ known \in [Client -> [Key -> Nat]]
          /\ seen \in [Key -> Nat]
      BY DEF Typed, TypeOK, ClientTypeOK
    <2>2. /\ Overlaid(known[r.client], Given.rev, Given.keys) \in [Key -> Nat]
          /\ Raised(seen, Given.rev, Given.keys) \in [Key -> Nat]
      BY <1>2, <1>4, <2>1, OverlaidType
    <2>3. /\ [call EXCEPT ![r.client] = 0] \in [Client -> Nat]
          /\ [known EXCEPT ![r.client] = Overlaid(known[r.client], Given.rev, Given.keys)]
               \in [Client -> [Key -> Nat]]
      BY <1>2, <2>1, <2>2
    <2> QED BY <1>3, <2>1, <2>2, <2>3, ZenonT(60) DEF ClientTypeOK, clientVars
  <1>7. ChannelTypeOK' /\ TaskTypeOK' /\ StoreTypeOK' /\ FlagTypeOK'
    <2>1. /\ at' = at + 1
          /\ UNCHANGED <<queue, phase, pending, group, bytes, start, results, failed, ov,
                         staged, stopAfter, db, lsn, broken, view, viewBroken, closing>>
      BY ZenonT(60) DEF Respond, storeVars, viewVars
    <2>2. ChannelTypeOK'
      BY <2>1 DEF Typed, TypeOK, ChannelTypeOK
    <2>3. TaskTypeOK'
      BY <2>1 DEF Typed, TypeOK, TaskTypeOK
    <2>4. StoreTypeOK' /\ FlagTypeOK'
      BY <2>1 DEF Typed, TypeOK, StoreTypeOK, FlagTypeOK
    <2> QED BY <2>2, <2>3, <2>4
  <1>8. Cursor'
    <2>1. start \in Nat /\ at \in Nat /\ Len(group) \in Nat /\ Len(results) \in Nat
      BY DEF Typed, TypeOK, ChannelTypeOK, TaskTypeOK
    <2>2. at' = at + 1 /\ phase = "respond"
      BY ZenonT(60) DEF Respond
    <2>3. UNCHANGED <<phase, group, start, results, failed>>
      BY ZenonT(60) DEF Respond
    <2>4. Cursor
      BY DEF Typed
    <2> QED BY <1>0, <1>1, <2>1, <2>2, <2>3, <2>4 DEF Cursor, Running
  <1> QED BY <1>5, <1>6, <1>7, <1>8 DEF Typed, TypeOK

LEMMA EndGroupTyped ==
  ASSUME Typed, EndGroup
  PROVE  Typed'
  <1>1. /\ UNCHANGED <<stopAfter, storeVars, viewVars, closing, known, seen, log, faults>>
        /\ group' = <<>> /\ bytes' = 0 /\ results' = <<>> /\ staged' = <<>>
        /\ start' = 1 /\ at' = 1 /\ failed' = FALSE /\ ov' = [rev |-> db, lsn |-> lsn]
    BY DEF EndGroup
  <1>2. \/ /\ queue' = <<>> /\ pending' = <<>> /\ phase' = "stopped"
           /\ call' \in [Client -> Nat]
           /\ outcome' \in [Ids -> {"unused", "waiting", "refused", "dropped"}
                                   \cup {"ok", "done", "conflict", "invalid", "error"}]
        \/ phase' = "recv" /\ UNCHANGED <<queue, pending, call, outcome>>
    BY StopType, ZenonT(60) DEF EndGroup
  <1> USE <1>1, <1>2 DEF storeVars, viewVars
  <1>3. ChannelTypeOK'
    <2>1. /\ <<>> \in Seq(Request) /\ Len(<<>>) = 0
          /\ queue \in Seq(Request) /\ Len(queue) <= QueueCapacity
          /\ pending \in Seq(Request) /\ Len(pending) <= 1
      BY DEF Typed, TypeOK, ChannelTypeOK
    <2>2. CASE queue' = <<>> /\ pending' = <<>>
      BY <2>1, <2>2, CoordinatorAssumption DEF ChannelTypeOK
    <2>3. CASE queue' = queue /\ pending' = pending
      BY <2>1, <2>3 DEF ChannelTypeOK
    <2> QED BY <2>2, <2>3
  <1>4. TaskTypeOK'
    BY DEF Typed, TypeOK, TaskTypeOK, StoreTypeOK
  <1>5. StoreTypeOK' /\ FlagTypeOK'
    BY ZenonT(60) DEF Typed, TypeOK, StoreTypeOK, FlagTypeOK
  <1>6. ClientTypeOK'
    BY ZenonT(60) DEF Typed, TypeOK, ClientTypeOK
  <1>7. HistoryTypeOK'
    BY ZenonT(60) DEF Typed, TypeOK, HistoryTypeOK
  <1>8. Cursor'
    BY DEF Cursor, Running
  <1> QED BY <1>3, <1>4, <1>5, <1>6, <1>7, <1>8 DEF Typed, TypeOK

LEMMA StutterTyped ==
  ASSUME Typed, UNCHANGED vars
  PROVE  Typed'
  BY DEF vars, taskVars, storeVars, viewVars, clientVars, Typed, TypeOK, ChannelTypeOK,
         TaskTypeOK, StoreTypeOK, FlagTypeOK, ClientTypeOK, HistoryTypeOK, Cursor, Running

LEMMA TypeStep == Typed /\ [Next]_vars => Typed'
  <1> SUFFICES ASSUME Typed, [Next]_vars PROVE Typed'
    OBVIOUS
  <1>1. CASE Callers
    BY <1>1, CallerTyped
  <1>2. CASE Task
    BY <1>2, StopIdleTyped, StartGroupTyped, CollectTyped, StartSegmentTyped, PrepareTyped,
       CommitTyped, PublishTyped, RespondTyped, EndGroupTyped, ZenonT(60) DEF Task
  <1>3. CASE UNCHANGED vars
    BY <1>3, StutterTyped
  <1> QED BY <1>1, <1>2, <1>3 DEF Next

\* Every reachable state of the coordinator is well typed and its cursor stays
\* inside the group and the answers it indexes (queued_requests, results).
THEOREM TypeCorrect == Spec => []Typed
  BY TypeInit, TypeStep, PTL DEF Spec

\* TypeOK, the type invariant the runs check, for every value of the constants.
THEOREM TypeOKHolds == Spec => []TypeOK
  <1>1. Typed => TypeOK
    BY DEF Typed
  <1> QED BY <1>1, TypeCorrect, PTL
-----------------------------------------------------------------------------
(* ReadsAreCurrent.  The view trails the store only between a commit and   *)
(* its publication, and the answers of a segment tell nothing beyond the   *)
(* overlay while it is prepared, nothing beyond the store once it commits. *)

ViewFollows ==
  /\ \A k \in Key : seen[k] <= view[k] /\ view[k] <= db[k] /\ db[k] <= lsn
  /\ phase # "publish" => view = db

OverlayAhead ==
  phase = "prepare" =>
    /\ \A k \in Key : db[k] <= ov.rev[k] /\ ov.rev[k] <= ov.lsn
    /\ ~Wrote => ov.rev = db

AnswersBound ==
  \A i \in DOMAIN results : \A k \in results[i].keys :
    /\ phase = "prepare" => results[i].rev[k] <= ov.rev[k]
    /\ phase \in {"publish", "respond"} /\ ~failed => results[i].rev[k] <= db[k]

Current == ViewFollows /\ OverlayAhead /\ AnswersBound

LEMMA CurrentInit == Init => Current
  BY DEF Init, Current, ViewFollows, OverlayAhead, AnswersBound, Zero

\* Steps that touch neither the store, the view nor the segment.
LEMMA QuietCurrent ==
  ASSUME Typed, Current,
         UNCHANGED <<db, lsn, ov, staged, results, failed, view, seen>>,
         \/ phase' = phase
         \/ phase # "publish" /\ phase' \in {"recv", "collect", "stopped"}
  PROVE  Current'
  BY DEF Current, ViewFollows, OverlayAhead, Wrote, AnswersBound

LEMMA CallerCurrent ==
  ASSUME Typed, Current, Callers
  PROVE  Current'
  <1>1. CASE \E c \in Client : \E S \in ReadSets : FastRead(c, S)
    <2> PICK c \in Client, S \in ReadSets : FastRead(c, S)
      BY <1>1
    <2> USE DEF FastRead, taskVars, storeVars, viewVars
    <2>1. ViewFollows'
      BY DEF Typed, TypeOK, ClientTypeOK, StoreTypeOK, Raised, Current, ViewFollows
    <2>2. OverlayAhead' /\ AnswersBound'
      BY DEF Current, OverlayAhead, AnswersBound, Wrote
    <2> QED BY <2>1, <2>2 DEF Current
  <1>2. CASE \/ \E c \in Client : GiveUp(c) \/ \E s \in Shapes : Submit(c, s)
             \/ Shutdown
    BY <1>2, QuietCurrent DEF GiveUp, Submit, Shutdown, taskVars, storeVars, viewVars,
       clientVars
  <1> QED BY <1>1, <1>2 DEF Callers

LEMMA StartSegmentCurrent ==
  ASSUME Typed, Current, EndCollect \/ NextSegment
  PROVE  Current'
  <1>1. /\ phase # "publish" /\ phase' = "prepare" /\ results' = <<>>
        /\ ov' = [rev |-> db, lsn |-> lsn]
        /\ UNCHANGED <<db, lsn, view, seen>>
    BY ZenonT(60) DEF EndCollect, NextSegment, StartSegment, storeVars, viewVars, clientVars
  <1>2. ViewFollows'
    BY <1>1 DEF Current, ViewFollows
  <1>3. OverlayAhead'
    BY <1>1 DEF Typed, TypeOK, StoreTypeOK, Current, ViewFollows, OverlayAhead
  <1>4. AnswersBound'
    BY <1>1 DEF AnswersBound
  <1> QED BY <1>2, <1>3, <1>4 DEF Current

\* One more answer, bounded by the overlay the step leaves.
LEMMA AnswerBound ==
  ASSUME Typed, Current, phase = "prepare", phase' = "prepare",
         NEW a, NEW S \in SUBSET Key, NEW f \in [Key -> Nat], Answer(a, S, f),
         ov'.rev \in [Key -> Nat],
         \A k \in Key : ov.rev[k] <= ov'.rev[k],
         \A k \in S : f[k] <= ov'.rev[k]
  PROVE  AnswersBound'
  <1> SUFFICES ASSUME NEW i \in DOMAIN results', NEW k \in results'[i].keys
               PROVE  results'[i].rev[k] <= ov'.rev[k]
    BY DEF AnswersBound
  <1>1. results \in Seq(Result) /\ ov.rev \in [Key -> Nat]
    BY DEF Typed, TypeOK, TaskTypeOK
  <1> DEFINE new == [ans |-> a, keys |-> S, rev |-> f]
  <1>2. results' = Append(results, new)
    BY DEF Answer
  <1>3. CASE i = Len(results) + 1
    BY <1>1, <1>2, <1>3
  <1>4. CASE i # Len(results) + 1
    <2>1. i \in DOMAIN results /\ results'[i] = results[i]
      BY <1>1, <1>2, <1>4
    <2>2. results[i].keys \in SUBSET Key /\ results[i].rev \in [Key -> Nat]
      <3>1. results[i] \in Result
        BY <1>1, <2>1
      <3> QED BY <3>1 DEF Result
    <2>3. results[i].rev[k] <= ov.rev[k]
      BY <2>1 DEF Current, AnswersBound
    <2> QED BY <1>1, <2>1, <2>2, <2>3
  <1> QED BY <1>3, <1>4

LEMMA PrepareAcceptCurrent ==
  ASSUME Typed, Current, PrepareAccept
  PROVE  Current'
  <1> DEFINE r == group[at]
             n == IF r.writes = {} THEN ov.lsn ELSE ov.lsn + 1
             tx == [id |-> r.id, reads |-> r.reads, expect |-> r.expect,
                    writes |-> r.writes, lsn |-> n]
  <1>1. /\ phase = "prepare" /\ phase' = phase /\ at <= Len(group)
        /\ ov' = [rev |-> Stamped(r.writes, n), lsn |-> n]
        /\ staged' = Append(staged, tx)
        /\ Answer("ok", r.writes, Stamped(r.writes, n))
        /\ UNCHANGED <<db, lsn, view, seen>>
    BY ZenonT(60) DEF PrepareAccept, InSegment, runUnchanged, viewVars, clientVars
  <1>2. r.writes \in SUBSET Key
    BY <1>1, CurrentRequest, ZenonT(60)
  <1>3. /\ ov.lsn \in Nat /\ n \in Nat /\ ov.rev \in [Key -> Nat] /\ db \in [Key -> Nat]
        /\ staged \in Seq(Transaction)
    BY DEF Typed, TypeOK, TaskTypeOK, StoreTypeOK
  <1>4. Stamped(r.writes, n) \in [Key -> Nat]
    BY <1>2, <1>3, StampedType, ZenonT(60) DEF Typed
  <1>5. \A k \in Key : db[k] <= ov.rev[k] /\ ov.rev[k] <= ov.lsn
    BY <1>1, ZenonT(60) DEF Current, OverlayAhead
  <1>6. \A k \in Key : /\ ov.rev[k] <= Stamped(r.writes, n)[k]
                       /\ Stamped(r.writes, n)[k] <= n
    BY <1>3, <1>5 DEF Stamped
  <1>7. ViewFollows'
    BY <1>1, ZenonT(60) DEF Current, ViewFollows
  <1>8. OverlayAhead'
    <2>1. \A k \in Key : db'[k] <= ov'.rev[k] /\ ov'.rev[k] <= ov'.lsn
      <3>1. ov'.rev = Stamped(r.writes, n) /\ ov'.lsn = n /\ db' = db
        BY <1>1
      <3> DEFINE st == Stamped(r.writes, n)
      <3>2. /\ st \in [Key -> Nat]
            /\ \A k \in Key : ov.rev[k] <= st[k] /\ st[k] <= n
        BY <1>4, <1>6
      <3>3. \A k \in Key : db[k] <= st[k] /\ st[k] <= n
        <4> HIDE DEF st, n
        <4> QED BY <1>3, <1>5, <3>2
      <3> QED BY <3>1, <3>3
    <2>2. ASSUME ~Wrote' PROVE ov'.rev = db'
      <3> HIDE DEF tx
      <3>1. Len(staged) + 1 \in DOMAIN staged' /\ staged'[Len(staged) + 1] = tx
        BY <1>1, <1>3
      <3>2. r.writes = {}
        BY <2>2, <3>1 DEF Wrote, tx
      <3>3. ~Wrote
        <4> SUFFICES ASSUME NEW i \in DOMAIN staged PROVE staged[i].writes = {}
          BY DEF Wrote
        <4>1. i \in DOMAIN staged' /\ staged'[i] = staged[i]
          BY <1>1, <1>3
        <4> QED BY <2>2, <4>1 DEF Wrote
      <3>4. ov.rev = db
        BY <1>1, <3>3, ZenonT(60) DEF Current, OverlayAhead
      <3>5. Stamped(r.writes, n) = ov.rev
        BY <1>3, <3>2 DEF Stamped
      <3> QED BY <1>1, <3>4, <3>5
    <2> QED BY <2>1, <2>2 DEF OverlayAhead
  <1>9. AnswersBound'
    <2>1. ov'.rev = Stamped(r.writes, n)
      BY <1>1
    <2> HIDE DEF r, n
    <2>2. \A k \in r.writes : Stamped(r.writes, n)[k] <= ov'.rev[k]
      BY <1>2, <1>4, <2>1
    <2> QED BY <1>1, <1>2, <1>4, <1>6, <2>1, <2>2, AnswerBound, ZenonT(60)
  <1> QED BY <1>7, <1>8, <1>9 DEF Current

\* Conflicts, in-order reads and checkpoints leave the overlay alone and answer
\* from it or from the store.
LEMMA AnswerOnlyCurrent ==
  ASSUME Typed, Current, PrepareConflict \/ ReadInOrder \/ RunCheckpoint
  PROVE  Current'
  <1>1. /\ phase = "prepare" /\ phase' = "prepare" /\ at <= Len(group)
        /\ UNCHANGED <<db, lsn, view, seen, ov, staged>>
    BY DEF PrepareConflict, ReadInOrder, RunCheckpoint, InSegment, runUnchanged, viewVars,
           clientVars
  <1>2. /\ group[at].reads \in SUBSET Key /\ ov.rev \in [Key -> Nat] /\ db \in [Key -> Nat]
    BY <1>1, CurrentRequest DEF Typed, TypeOK, TaskTypeOK, StoreTypeOK
  <1>3. \E a : \E S \in SUBSET Key, f \in {ov.rev, db} : Answer(a, S, f)
    BY <1>2, ZenonT(60) DEF PrepareConflict, ReadInOrder, RunCheckpoint
  <1>p. PICK a : \E S \in SUBSET Key, f \in {ov.rev, db} : Answer(a, S, f)
    BY <1>3
  <1>4. PICK S \in SUBSET Key, f \in {ov.rev, db} : Answer(a, S, f)
    BY <1>p
  <1>5. \A k \in Key : f[k] <= ov'.rev[k] /\ ov.rev[k] <= ov'.rev[k]
    <2>1. \A k \in Key : db[k] <= ov.rev[k]
      BY <1>1 DEF Current, OverlayAhead
    <2> QED BY <1>1, <1>2, <2>1
  <1>6. AnswersBound'
    BY <1>1, <1>2, <1>4, <1>5, AnswerBound
  <1>7. ViewFollows' /\ OverlayAhead'
    BY <1>1 DEF Current, ViewFollows, OverlayAhead, Wrote
  <1> QED BY <1>6, <1>7 DEF Current

LEMMA CommitCurrent ==
  ASSUME Typed, Current, PrepareFails \/ CommitNothing \/ CommitGroup \/ CommitFails
  PROVE  Current'
  <1>0. /\ phase = "prepare" /\ phase' = "publish" /\ ~failed
        /\ UNCHANGED <<results, view, seen>>
    BY DEF PrepareFails, CommitNothing, CommitGroup, CommitFails, commitUnchanged,
           SegmentPrepared, viewVars, clientVars, Typed, Cursor
  <1>t. /\ db \in [Key -> Nat] /\ view \in [Key -> Nat] /\ ov.rev \in [Key -> Nat]
        /\ ov.lsn \in Nat /\ lsn \in Nat /\ seen \in [Key -> Nat]
    BY DEF Typed, TypeOK, StoreTypeOK, TaskTypeOK, ClientTypeOK
  <1>a. \A k \in Key : db[k] <= ov.rev[k] /\ ov.rev[k] <= ov.lsn
    BY <1>0 DEF Current, OverlayAhead
  <1>1. CASE PrepareFails \/ CommitFails
    BY <1>1, <1>0 DEF PrepareFails, CommitFails, storeVars, Current, ViewFollows, OverlayAhead,
       AnswersBound
  <1>2. CASE CommitNothing \/ CommitGroup
    <2>1. /\ db' = ov.rev
          /\ (lsn' = lsn /\ db' = db) \/ lsn' = ov.lsn
      BY <1>0, <1>2 DEF CommitNothing, storeVars, Current, OverlayAhead, CommitGroup
    <2>2. ViewFollows'
      BY <1>t, <1>a, <2>1, <1>0 DEF Current, ViewFollows
    <2>3. AnswersBound'
      BY <1>0, <2>1 DEF Current, AnswersBound
    <2>4. OverlayAhead'
      BY <1>0 DEF OverlayAhead
    <2> QED BY <2>2, <2>3, <2>4 DEF Current
  <1> QED BY <1>1, <1>2

LEMMA PublishCurrent ==
  ASSUME Typed, Current, Publish
  PROVE  Current'
  <1>1. /\ phase = "publish" /\ phase' = "respond" /\ view' = db
        /\ UNCHANGED <<db, lsn, seen, results, failed>>
    BY DEF Publish, storeVars, clientVars
  <1>2. ViewFollows'
    BY <1>1 DEF Typed, TypeOK, StoreTypeOK, ClientTypeOK, Current, ViewFollows
  <1>3. OverlayAhead' /\ AnswersBound'
    BY <1>1 DEF Current, OverlayAhead, AnswersBound
  <1> QED BY <1>2, <1>3 DEF Current

LEMMA RespondCurrent ==
  ASSUME Typed, Current, Respond
  PROVE  Current'
  <1>1. /\ phase = "respond" /\ at <= LastAnswered /\ phase' = phase
        /\ UNCHANGED <<db, lsn, view, results, failed>>
    BY ZenonT(60) DEF Respond, storeVars, viewVars
  <1>2. Given \in Result /\ (~failed => at - start + 1 \in DOMAIN results)
    BY <1>1, GivenType
  <1>3. \A k \in Given.keys : Given.rev[k] <= db[k]
    BY <1>1, <1>2 DEF Given, Current, AnswersBound
  <1>4. seen' = seen \/ seen' = Raised(seen, Given.rev, Given.keys)
    BY ZenonT(60) DEF Respond, Given, clientVars
  <1>5. \A k \in Key : seen'[k] <= db[k]
    BY <1>1, <1>3, <1>4 DEF Typed, TypeOK, StoreTypeOK, ClientTypeOK, Current, ViewFollows,
       Raised
  <1>6. ViewFollows'
    BY <1>1, <1>5 DEF Current, ViewFollows
  <1>7. OverlayAhead' /\ AnswersBound'
    BY <1>1 DEF Current, OverlayAhead, AnswersBound
  <1> QED BY <1>6, <1>7 DEF Current

LEMMA EndGroupCurrent ==
  ASSUME Typed, Current, EndGroup
  PROVE  Current'
  BY DEF EndGroup, Stop, storeVars, viewVars, Current, ViewFollows, OverlayAhead, AnswersBound

LEMMA CurrentStep ==
  ASSUME MaxSplitErr = 0, Typed, Current, [Next]_vars
  PROVE  Current'
  <1>1. CASE Callers
    BY <1>1, CallerCurrent
  <1>2. CASE StopIdle \/ TakePending \/ Receive \/ Collect
    BY <1>2, QuietCurrent DEF StopIdle, Stop, TakePending, Receive, StartGroup, Collect,
       storeVars, viewVars, clientVars
  <1>3. CASE \E P \in SUBSET Key : PrepareSplitFails(P)
    BY <1>3 DEF PrepareSplitFails, Typed, TypeOK, HistoryTypeOK
  <1>4. CASE UNCHANGED vars
    BY <1>4, QuietCurrent DEF vars, taskVars, storeVars, viewVars, clientVars
  <1> QED BY <1>1, <1>2, <1>3, <1>4, StartSegmentCurrent, PrepareAcceptCurrent,
             AnswerOnlyCurrent, CommitCurrent, PublishCurrent, RespondCurrent,
             EndGroupCurrent, ZenonT(60) DEF Next, Task

\* For every number of clients, keys and requests: as long as no transaction is
\* refused in the middle of a page split, no answer tells an uncommitted revision
\* and no later read is older than an answer (publish before respond).
THEOREM ReadsAreCurrentHolds ==
  ASSUME MaxSplitErr = 0
  PROVE  Spec => []ReadsAreCurrent
  <1>1. Typed /\ Current => ReadsAreCurrent
    BY DEF ReadsAreCurrent, Typed, TypeOK, StoreTypeOK, ClientTypeOK, Current, ViewFollows
  <1>2. Typed /\ Current /\ [Next]_vars => Typed' /\ Current'
    BY TypeStep, CurrentStep
  <1> QED BY TypeInit, CurrentInit, <1>1, <1>2, PTL DEF Spec
=============================================================================
