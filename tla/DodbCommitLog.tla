---------------------------- MODULE DodbCommitLog ----------------------------
(***************************************************************************)
(* What a dodb shard promises: a log of transactions whose contents are    *)
(* shown whole, that loses in a crash only transactions it never answered. *)
(***************************************************************************)
EXTENDS Integers, Sequences, FiniteSets, FiniteSetsExt

CONSTANT Page

VARIABLES
  log,      \* transactions in commit order, [tx, pages]
  settled,  \* how many of them are published
  acked,    \* transactions whose success was answered
  answer    \* what reads show: the last writer of each page, or Unavailable

vars == <<log, settled, acked, answer>>

Unavailable == [p \in Page |-> -1]

Contents(h) ==
  [p \in Page |-> LET S == {i \in 1..Len(h) : p \in h[i].pages}
                  IN  IF S = {} THEN 0 ELSE h[Max(S)].tx]

Init == log = <<>> /\ settled = 0 /\ acked = {} /\ answer = Unavailable

\* A transaction is prepared; while its group is pending nothing is answered.
Stage ==
  /\ Len(log') = Len(log) + 1 /\ SubSeq(log', 1, Len(log)) = log
  /\ answer' = Unavailable
  /\ UNCHANGED <<settled, acked>>

\* The pending group is durable: published and answered as a whole.
Commit ==
  /\ settled' = Len(log)
  /\ acked' = acked \cup {log[i].tx : i \in 1..Len(log)}
  /\ answer' = Contents(log)
  /\ UNCHANGED log

\* Maintenance, a failure or a crash: the contents cannot be read for a while.
Quiesce == answer' = Unavailable /\ UNCHANGED <<log, settled, acked>>

Resume ==
  /\ settled = Len(log)
  /\ answer' = Contents(log)
  /\ UNCHANGED <<log, settled, acked>>

\* After a crash: some of the unsettled transactions are there, the rest are not.
Recover ==
  /\ \E k \in settled..Len(log) :
       /\ log' = SubSeq(log, 1, k)
       /\ settled' = k
       /\ answer' = Contents(log')
  /\ UNCHANGED acked

Next == Stage \/ Commit \/ Quiesce \/ Resume \/ Recover

Spec == Init /\ [][Next]_vars
=============================================================================
