------------------------ MODULE TenantRegistryProofs ------------------------
(***************************************************************************)
(* Theorems about TenantRegistry for every number of overlapping tasks,    *)
(* delete requests, failures, migrations and operator's changes.           *)
(***************************************************************************)
EXTENDS TenantRegistry, TLAPS

(* A leaf that names no prover goes to the SMT solver, which is called again *)
(* when its time ran out, and in the end to Zenon.                           *)
USE SMTT(120), Z3T(120), SMTT(90), Z3T(90), ZenonT(60)

Records == [rev : Revisions, pol : Values, st : OutboxStates]
Tasks == [kind : Kinds \cup {"idle"},
          pc : {"idle", "begin", "call", "finish", "strip", "complete"},
          policy : Policies \cup {NoDoc}, answer : Answers \cup {"none"}, held : BOOLEAN]
Migrations == [pc : {"idle", "ask", "ensure", "claim", "write"}, policy : Policies \cup {NoDoc}]

\* The documents of both sides, and the policies that tasks carry around.
Documents ==
    /\ project \in Policies \cup {NoDoc}
    /\ outbox \in Records \cup {NoDoc}
    /\ tomb \in DeletionStates
    /\ mem \in Entries \cup {NoDoc} /\ disk \in Entries \cup {NoDoc}
    /\ task \in [Slots -> Tasks]
    /\ \A s \in Slots : task[s].kind = "sync" /\ task[s].pc = "call" => task[s].policy # NoDoc
    /\ migration \in Migrations
    /\ migration.pc # "idle" => migration.policy # NoDoc

Fenced(e) == e # NoDoc /\ e.fenced

\* A teardown task that has seen the tenant's access revoked.
PastRevoke(t) ==
    /\ t.kind = "teardown"
    /\ t.pc \in {"strip", "complete"} \/ (t.pc = "finish" /\ t.answer = "applied")

\* A fence in memory is in the store too, and a fenced entry is a managed one,
\* which an operator's route does not touch.
FencesHold ==
    /\ Fenced(mem) => mem.managed /\ Fenced(disk)
    /\ Fenced(disk) => disk.managed

\* What the deletion has come to know stays true.
RevocationsHold ==
    tomb \in {"AccessRevoked", "TeardownComplete"} \/ (\E s \in Slots : PastRevoke(task[s]))
      => Fenced(mem)

\* The inductive invariant.
Revoking == Documents /\ FencesHold /\ RevocationsHold

-----------------------------------------------------------------------------
(* Signy's side.                                                            *)

Stored == mem \in Entries \cup {NoDoc} /\ disk \in Entries \cup {NoDoc} /\ FencesHold

LEMMA StorePutHolds ==
  ASSUME NoDoc \notin Entries, Stored, ~Fenced(mem), NEW e \in Entries, e.fenced => e.managed,
         NEW answer, StorePut(e, answer)
  PROVE  Stored' /\ (answer = "applied" => mem' = e)
  BY DEF StorePut, Stored, FencesHold, Fenced

\* A fenced entry answers every push "gone".
LEMMA PushHolds ==
  ASSUME NoDoc \notin Entries, Stored, NEW p \in Policies, NEW managed \in BOOLEAN, NEW answer,
         Push(p, managed, answer)
  PROVE  Stored' /\ (Fenced(mem) => Fenced(mem'))
  <1> DEFINE e == [rev |-> p.rev, pol |-> p.pol, managed |-> managed, fenced |-> FALSE]
  <1>1. CASE UNCHANGED <<mem, disk>>
    BY <1>1 DEF Stored, FencesHold, Fenced
  <1>2. CASE PushVerdict(p, managed) = "write" /\ StorePut(e, answer)
    <2>1. e \in Entries /\ (e.fenced => e.managed)
      BY DEF Entries, Policies
    <2>2. ~Fenced(mem)
      BY <1>2 DEF PushVerdict, Fenced
    <2> HIDE DEF e
    <2> QED BY <1>2, <2>1, <2>2, StorePutHolds
  <1> QED BY <1>1, <1>2 DEF Push

LEMMA RevokeHolds ==
  ASSUME NoDoc \notin Entries, Stored, NEW answer, Revoke(answer)
  PROVE  Stored' /\ (Fenced(mem) => Fenced(mem')) /\ (answer = "applied" => Fenced(mem'))
  <1> DEFINE e == IF mem = NoDoc
                  THEN [rev |-> 0, pol |-> "unset", managed |-> TRUE, fenced |-> TRUE]
                  ELSE [mem EXCEPT !.managed = TRUE, !.fenced = TRUE]
  <1>1. CASE Fenced(mem)
    BY <1>1 DEF Revoke, Fenced, Stored, FencesHold
  <1>2. CASE ~Fenced(mem)
    <2>1. StorePut(e, answer)
      BY <1>2 DEF Revoke, Fenced
    <2>2. e \in Entries /\ e.fenced /\ e.managed
      <3>1. CASE mem = NoDoc
        BY <3>1 DEF Entries, Revisions, Values
      <3>2. CASE mem # NoDoc
        BY <3>2, ZenonT(60) DEF Stored, Entries
      <3> QED BY <3>1, <3>2
    <2> HIDE DEF e
    <2> QED BY <1>2, <2>1, <2>2, StorePutHolds DEF Fenced
  <1> QED BY <1>1, <1>2

\* An operator's route, and a restart.
LEMMA OperatorHolds ==
  ASSUME NoDoc \notin Entries, Stored, Operator \/ Restart
  PROVE  Stored' /\ (Fenced(mem) => Fenced(mem'))
  <1>1. ASSUME NEW p \in [rev : Revisions, pol : {"bounded", "nolimit"}], OperatorPush(p)
        PROVE  Stored' /\ (Fenced(mem) => Fenced(mem'))
    BY <1>1 DEF OperatorPush, Entries, Values, PushVerdict, Fenced, Stored, FencesHold
  <1>2. CASE OperatorRemove
    BY <1>2 DEF OperatorRemove, Stored, FencesHold, Fenced
  <1>3. CASE Restart
    BY <1>3 DEF Restart, Stored, FencesHold, Fenced
  <1> QED BY <1>1, <1>2, <1>3 DEF Operator

-----------------------------------------------------------------------------
(* The control plane's side.                                                *)

Carries(t) == t.kind = "sync" /\ t.pc = "call" => t.policy # NoDoc

\* What the control plane writes down, but for the tasks.
Papers ==
    /\ project \in Policies \cup {NoDoc} /\ outbox \in Records \cup {NoDoc}
    /\ tomb \in DeletionStates
    /\ migration \in Migrations /\ (migration.pc # "idle" => migration.policy # NoDoc)

Underway == task \in [Slots -> Tasks] /\ \A s \in Slots : Carries(task[s])

LEMMA RevokingParts == Revoking <=> Papers /\ Stored /\ RevocationsHold /\ Underway
  BY ZenonT(60) DEF Revoking, Documents, Papers, Stored, Underway, Carries

LEMMA TaskMoves ==
  ASSUME Revoking, NEW s \in Slots, NEW t \in Tasks, Carries(t), task' = [task EXCEPT ![s] = t],
         Papers', Stored', Fenced(mem) => Fenced(mem'), PastRevoke(t) => Fenced(mem'),
         tomb' = tomb \/ tomb' \notin {"AccessRevoked", "TeardownComplete"} \/ Fenced(mem')
  PROVE  Revoking'
  <1>1. task \in [Slots -> Tasks] /\ \A u \in Slots : Carries(task[u])
    BY RevokingParts DEF Underway
  <1>2. task' \in [Slots -> Tasks] /\ \A u \in Slots : task'[u] = IF u = s THEN t ELSE task[u]
    BY <1>1
  <1>3. Underway'
    BY <1>1, <1>2 DEF Underway, Carries
  <1>4. RevocationsHold'
    BY <1>2 DEF Revoking, RevocationsHold, PastRevoke, Fenced
  <1> QED BY <1>3, <1>4, RevokingParts, PTL

LEMMA TasksStay ==
  ASSUME Revoking, task' = task, Papers', Stored', Fenced(mem) => Fenced(mem'),
         tomb' = tomb \/ tomb' \notin {"AccessRevoked", "TeardownComplete"}
  PROVE  Revoking'
  <1>1. RevocationsHold'
    BY DEF Revoking, RevocationsHold, PastRevoke, Fenced
  <1>2. Underway'
    BY RevokingParts DEF Underway, Carries
  <1> QED BY <1>1, <1>2, RevokingParts, PTL

LEMMA SidesStay ==
  /\ /\ Papers /\ UNCHANGED <<project, outbox, migration>>
     /\ tomb' = tomb \/ tomb' \in {"RevokePending", "AccessRevoked", "TeardownComplete"}
     => Papers'
  /\ Stored /\ UNCHANGED <<mem, disk>> => Stored' /\ (Fenced(mem) => Fenced(mem'))
  BY DEF Papers, Stored, FencesHold, Fenced, DeletionStates

LEMMA TaskGoes ==
  ASSUME NEW t \in Tasks, NEW pc \in {"idle", "begin", "call", "finish", "strip", "complete"}
  PROVE  /\ [t EXCEPT !.pc = pc] \in Tasks
         /\ [t EXCEPT !.pc = pc].kind = t.kind /\ [t EXCEPT !.pc = pc].pc = pc
         /\ [t EXCEPT !.pc = pc].answer = t.answer
  BY DEF Tasks

LEMMA TaskHears ==
  ASSUME NEW t \in Tasks, NEW answer \in Answers
  PROVE  /\ [t EXCEPT !.answer = answer] \in Tasks
         /\ [t EXCEPT !.answer = answer].kind = t.kind /\ [t EXCEPT !.answer = answer].pc = t.pc
         /\ [t EXCEPT !.answer = answer].answer = answer
  BY DEF Tasks

LEMMA TaskTakes ==
  ASSUME NEW t \in Tasks, NEW policy \in Policies
  PROVE  /\ [t EXCEPT !.policy = policy] \in Tasks
         /\ [t EXCEPT !.policy = policy].kind = t.kind /\ [t EXCEPT !.policy = policy].pc = t.pc
         /\ [t EXCEPT !.policy = policy].policy = policy
  BY DEF Tasks

LEMMA TaskLetsGo ==
  ASSUME NEW t \in Tasks
  PROVE  /\ [t EXCEPT !.held = FALSE] \in Tasks
         /\ [t EXCEPT !.held = FALSE].kind = t.kind /\ [t EXCEPT !.held = FALSE].pc = t.pc
         /\ [t EXCEPT !.held = FALSE].policy = t.policy
         /\ [t EXCEPT !.held = FALSE].answer = t.answer
  BY ZenonT(60) DEF Tasks

LEMMA TaskStarts ==
  ASSUME NEW k \in Kinds
  PROVE  /\ [Idle EXCEPT !.kind = k, !.pc = "begin", !.held = TRUE] \in Tasks
         /\ [Idle EXCEPT !.kind = k, !.pc = "begin", !.held = TRUE].pc = "begin"
  BY ZenonT(60) DEF Idle, Tasks

LEMMA IdleCarriesNothing == Idle \in Tasks /\ Carries(Idle) /\ ~PastRevoke(Idle)
  BY DEF Carries, PastRevoke, Idle, Tasks

LEMMA QueueStepsHold ==
  ASSUME Revoking, NEW s \in Slots, Redeliver(s) \/ Die(s) \/ \E k \in Kinds : Start(s, k)
  PROVE  Revoking'
  <1>1. /\ UNCHANGED <<project, outbox, tomb, migration, mem, disk>>
    BY ZenonT(60) DEF Redeliver, Die, Start
  <1>2. Papers' /\ Stored' /\ (Fenced(mem) => Fenced(mem'))
    BY <1>1, SidesStay, RevokingParts
  <1>3. /\ task \in [Slots -> Tasks] /\ task[s] \in Tasks /\ Carries(task[s])
        /\ PastRevoke(task[s]) => Fenced(mem)
    BY RevokingParts DEF RevocationsHold, Underway
  <1>4. CASE Redeliver(s)
    <2> DEFINE t == [task[s] EXCEPT !.held = FALSE]
    <2>1. task' = [task EXCEPT ![s] = t]
      BY <1>4 DEF Redeliver
    <2>2. /\ t \in Tasks
          /\ t.kind = task[s].kind /\ t.pc = task[s].pc
          /\ t.policy = task[s].policy /\ t.answer = task[s].answer
      BY <1>3, TaskLetsGo
    <2>3. Carries(t) /\ (PastRevoke(t) => PastRevoke(task[s]))
      BY <1>3, <2>2 DEF Carries, PastRevoke
    <2> HIDE DEF t
    <2> QED BY <1>1, <1>2, <1>3, <2>1, <2>2, <2>3, TaskMoves, ZenonT(60)
  <1>5. CASE Die(s)
    BY <1>5, <1>1, <1>2, <1>3, IdleCarriesNothing, TaskMoves, ZenonT(60) DEF Die, Returned,
       Ended
  <1>6. ASSUME NEW k \in Kinds, Start(s, k) PROVE Revoking'
    BY <1>6, TaskStarts, <1>1, <1>2, TaskMoves, ZenonT(60) DEF Start, Carries, PastRevoke
  <1> QED BY <1>4, <1>5, <1>6

\* A policy that passes from one document to another.
LEMMA PolicyPasses ==
  ASSUME NEW p \in Policies, NEW st \in OutboxStates
  PROVE  [rev |-> p.rev, pol |-> p.pol, st |-> st] \in Records
  BY DEF Policies, Records

LEMMA RecordChanges ==
  ASSUME NEW r \in Records, NEW st \in OutboxStates
  PROVE  [r EXCEPT !.st = st] \in Records /\ [rev |-> r.rev, pol |-> r.pol] \in Policies
  BY DEF Records, Policies

LEMMA BeginAttemptHolds ==
  ASSUME NoDoc \notin Policies, Revoking, NEW s \in Slots, BeginAttempt(s)
  PROVE  Revoking'
  <1>1. UNCHANGED <<project, tomb, migration, mem, disk>>
    BY DEF BeginAttempt
  <1>2. /\ Papers /\ Stored' /\ (Fenced(mem) => Fenced(mem'))
        /\ task \in [Slots -> Tasks] /\ task[s] \in Tasks
    BY <1>1, SidesStay, RevokingParts DEF Underway
  <1>3. CASE UNCHANGED outbox /\ Acked(s)
    BY <1>1, <1>2, <1>3, SidesStay, IdleCarriesNothing, TaskMoves, ZenonT(60) DEF Acked, Ended
  <1>4. CASE /\ outbox # NoDoc /\ outbox' = [outbox EXCEPT !.st = "BlockedByDeletion"]
             /\ Acked(s)
    BY <1>2, <1>4, RecordChanges, <1>1, IdleCarriesNothing, TaskMoves, ZenonT(60) DEF Papers,
       OutboxStates, Acked, Ended
  <1>5. ASSUME NEW policy \in Policies,
               outbox' = [rev |-> policy.rev, pol |-> policy.pol, st |-> "Pending"],
               task' = [task EXCEPT ![s].pc = "call", ![s].policy = policy]
        PROVE  Revoking'
    <2> DEFINE u == [task[s] EXCEPT !.pc = "call"]
               t == [u EXCEPT !.policy = policy]
    <2>1. u \in Tasks /\ u.pc = "call"
      BY <1>2, TaskGoes, ZenonT(60)
    <2>2. task' = [task EXCEPT ![s] = t]
      BY <1>2, <1>5, ZenonT(60)
    <2> HIDE DEF u
    <2>4. t \in Tasks /\ t.pc = "call" /\ t.policy = policy
      BY <2>1, TaskTakes
    <2> HIDE DEF t
    <2>5. Carries(t) /\ ~PastRevoke(t)
      BY <2>4 DEF Carries, PastRevoke
    <2>6. Papers'
      BY <1>1, <1>2, <1>5, PolicyPasses, ZenonT(60) DEF Papers, OutboxStates
    <2> QED BY <1>1, <1>2, <2>2, <2>4, <2>5, <2>6, TaskMoves, ZenonT(60)
  <1>6. CASE /\ outbox # NoDoc /\ (outbox.pol = "unset" => project # NoDoc)
             /\ LET policy == IF outbox.pol = "unset" THEN project
                              ELSE [rev |-> outbox.rev, pol |-> outbox.pol]
                IN  /\ outbox' = [rev |-> policy.rev, pol |-> policy.pol, st |-> "Pending"]
                    /\ task' = [task EXCEPT ![s].pc = "call", ![s].policy = policy]
    BY <1>2, <1>6, RecordChanges, <1>5, ZenonT(60) DEF Papers, OutboxStates
  <1> QED BY <1>3, <1>4, <1>6, ZenonT(60) DEF BeginAttempt

LEMMA RegisterProjectHolds ==
  ASSUME NoDoc \notin Entries, Revoking, NEW s \in Slots, RegisterProject(s)
  PROVE  Revoking'
  <1>1. /\ task[s].kind = "sync" /\ task[s].pc = "call"
        /\ UNCHANGED <<project, outbox, tomb, migration>>
    BY DEF RegisterProject
  <1>2. PICK answer \in Answers :
          /\ Push(task[s].policy, TRUE, answer)
          /\ task' = [task EXCEPT ![s].pc = "finish", ![s].answer = answer]
    BY ZenonT(60) DEF RegisterProject
  <1>3. Papers /\ Stored /\ task \in [Slots -> Tasks] /\ task[s] \in Tasks /\ Carries(task[s])
    BY RevokingParts DEF Underway
  <1>4. task[s].policy \in Policies
    BY <1>1, <1>3 DEF Carries, Tasks
  <1>5. Stored' /\ (Fenced(mem) => Fenced(mem')) /\ Papers'
    BY <1>1, <1>2, <1>3, <1>4, PushHolds, SidesStay, ZenonT(60)
  <1> DEFINE u == [task[s] EXCEPT !.pc = "finish"]
             t == [u EXCEPT !.answer = answer]
  <1>6. task' = [task EXCEPT ![s] = t]
    BY <1>2, <1>3, ZenonT(60)
  <1>7. u \in Tasks /\ u.kind = "sync" /\ u.pc = "finish"
    BY <1>1, <1>3, TaskGoes, ZenonT(60)
  <1> HIDE DEF u
  <1>8. t \in Tasks /\ t.kind = "sync" /\ t.pc = "finish"
    BY <1>7, TaskHears
  <1> HIDE DEF t
  <1>9. Carries(t) /\ ~PastRevoke(t)
    BY <1>8 DEF Carries, PastRevoke
  <1> QED BY <1>1, <1>5, <1>6, <1>8, <1>9, TaskMoves, ZenonT(60)

LEMMA FinishAttemptHolds ==
  ASSUME Revoking, NEW s \in Slots, FinishAttempt(s)
  PROVE  Revoking'
  BY SidesStay, RevokingParts, RecordChanges, IdleCarriesNothing, TaskMoves, ZenonT(60)
     DEF FinishAttempt, Returned, Acked, Ended, Underway, AttemptState, OutboxStates, Papers

\* The teardown's own steps: what it writes into the tombstone it has seen done.
LEMMA TeardownHolds ==
  ASSUME NoDoc \notin Entries, Revoking, NEW s \in Slots, TeardownStep(s)
  PROVE  Revoking'
  <1>1. /\ Papers /\ Stored /\ task \in [Slots -> Tasks] /\ task[s] \in Tasks
        /\ (PastRevoke(task[s]) \/ tomb \in {"AccessRevoked", "TeardownComplete"}) => Fenced(mem)
        /\ tomb \in DeletionStates
    BY RevokingParts DEF RevocationsHold, Underway, Papers
  <1>2. CASE EnsureRevokePending(s)
    BY <1>1, <1>2, SidesStay, TaskMoves, ZenonT(60) DEF EnsureRevokePending, Goes, Tasks,
       Carries, PastRevoke, DeletionStates
  <1>3. CASE RevokeAccess(s)
    <2>1. /\ task[s].kind = "teardown" /\ UNCHANGED <<project, outbox, tomb, migration>>
      BY <1>3 DEF RevokeAccess
    <2>2. PICK answer \in {"applied", "unavailable"} :
            /\ Revoke(answer)
            /\ task' = [task EXCEPT ![s].pc = "finish", ![s].answer = answer]
      BY <1>3, ZenonT(60) DEF RevokeAccess
    <2>3. /\ Papers' /\ Stored' /\ (Fenced(mem) => Fenced(mem'))
          /\ answer = "applied" => Fenced(mem')
      BY <1>1, <2>1, <2>2, RevokeHolds, SidesStay
    <2> DEFINE u == [task[s] EXCEPT !.pc = "finish"]
               t == [u EXCEPT !.answer = answer]
    <2>4. task' = [task EXCEPT ![s] = t]
      BY <1>1, <2>2, ZenonT(60)
    <2>5. u \in Tasks /\ u.kind = "teardown" /\ u.pc = "finish" /\ answer \in Answers
      BY <1>1, <2>1, TaskGoes, ZenonT(60) DEF Answers
    <2> HIDE DEF u
    <2>6. t \in Tasks /\ t.kind = "teardown" /\ t.pc = "finish" /\ t.answer = answer
      BY <2>5, TaskHears
    <2> HIDE DEF t
    <2>7. Carries(t) /\ (PastRevoke(t) => answer = "applied")
      BY <2>6 DEF Carries, PastRevoke
    <2> QED BY <2>1, <2>3, <2>4, <2>6, <2>7, TaskMoves, ZenonT(60)
  <1>4. CASE RecordRevoke(s) /\ task[s].answer = "applied"
    <2> DEFINE t == [task[s] EXCEPT !.pc = "strip"]
    <2>1. /\ task[s].kind = "teardown" /\ task[s].pc = "finish"
          /\ task' = [task EXCEPT ![s] = t] /\ tomb' = "AccessRevoked"
          /\ UNCHANGED <<project, outbox, migration, mem, disk>>
      BY <1>1, <1>4 DEF RecordRevoke, Goes
    <2>2. Papers' /\ Stored' /\ Fenced(mem) /\ Fenced(mem')
      BY <1>1, <1>4, <2>1, SidesStay DEF PastRevoke
    <2>3. t \in Tasks /\ t.kind = "teardown"
      BY <1>1, <2>1, TaskGoes, ZenonT(60)
    <2> HIDE DEF t
    <2>4. Carries(t)
      BY <2>3 DEF Carries
    <2> QED BY <2>1, <2>2, <2>3, <2>4, TaskMoves, ZenonT(60)
  <1>5. CASE RecordRevoke(s) /\ task[s].answer # "applied"
    BY <1>5, <1>1, SidesStay, IdleCarriesNothing, TaskMoves DEF RecordRevoke, Returned, Ended
  <1>6. CASE DeleteIdentityDocs(s)
    BY <1>1, <1>6, SidesStay, TaskGoes, TaskMoves, ZenonT(60) DEF DeleteIdentityDocs, Goes,
       PastRevoke, Papers, Carries
  <1>7. CASE CompleteTeardown(s)
    BY <1>7, <1>1, SidesStay, IdleCarriesNothing, TaskMoves, ZenonT(60) DEF CompleteTeardown,
       Acked, Ended, PastRevoke
  <1> QED BY <1>2, <1>3, <1>4, <1>5, <1>6, <1>7 DEF TeardownStep

\* The requests of the owner and the cron pass move no entry and no fact.
LEMMA RequestsHold ==
  ASSUME Revoking,
         \/ NewProject \/ ReconcileOutbox \/ ReconcileTombstone
         \/ \E q \in Requests : DeleteRead(q) \/ DeleteWrite(q)
  PROVE  Revoking'
  <1>1. /\ UNCHANGED <<migration, mem, disk, task>>
        /\ tomb' = tomb \/ tomb' = "RevokePending"
    BY DEF NewProject, ReconcileOutbox, ReconcileTombstone, DeleteRead, DeleteWrite
  <1>2. /\ Papers /\ Stored' /\ (Fenced(mem) => Fenced(mem'))
    BY <1>1, SidesStay, RevokingParts
  <1>3. CASE NewProject
    <2>1. SelectedTelemetryPolicy \in Policies
      BY DEF SelectedTelemetryPolicy, Policies, Revisions, Values
    <2>2. project' = SelectedTelemetryPolicy /\ outbox' \in Records
      BY <1>3, <2>1, PolicyPasses, ZenonT(60) DEF NewProject, OutboxStates
    <2>3. Papers'
      BY <1>1, <1>2, <2>1, <2>2 DEF Papers, DeletionStates
    <2> QED BY <1>1, <1>2, <2>3, TasksStay
  <1>4. CASE UNCHANGED <<project, outbox>>
    BY <1>1, <1>2, <1>4, SidesStay, TasksStay
  <1> QED BY <1>3, <1>4 DEF ReconcileOutbox, ReconcileTombstone, DeleteRead, DeleteWrite

LEMMA MigrationGoesOn ==
  ASSUME NoDoc \notin Policies, NEW pc \in {"ask", "ensure", "claim", "write"},
         NEW policy \in Policies \cup {NoDoc},
         \/ MigrationGoes("idle", NoDoc)
         \/ policy # NoDoc /\ MigrationGoes(pc, policy)
  PROVE  migration' \in Migrations /\ (migration'.pc # "idle" => migration'.policy # NoDoc)
  BY DEF MigrationGoes, Migrations

LEMMA CaughtTyped ==
  ASSUME Papers, NEW policy \in Policies
  PROVE  Caught(policy) \in Records \cup {NoDoc}
  BY PolicyPasses, ZenonT(60) DEF Caught, Pending, Papers, OutboxStates

LEMMA MigrationHolds ==
  ASSUME NoDoc \notin Policies, NoDoc \notin Entries, Revoking, Migration
  PROVE  Revoking'
  <1>1. UNCHANGED <<tomb, task>>
    BY ZenonT(60) DEF Migration, MigrationScan, MigrationAsk, MigrationClaim, EnsureOutbox,
           WriteMigratedProjectDoc, MigrationDies
  <1>2. Papers /\ Stored
    BY RevokingParts
  <1>3. migration \in Migrations /\ (migration.pc # "idle" => migration.policy \in Policies)
    BY <1>2 DEF Papers, Migrations
  <1>4. ASSUME UNCHANGED <<mem, disk>>, project' \in Policies \cup {NoDoc},
               outbox' \in Records \cup {NoDoc}, migration' \in Migrations,
               migration'.pc # "idle" => migration'.policy # NoDoc
        PROVE  Revoking'
    BY <1>1, <1>2, <1>4, SidesStay, TasksStay DEF Papers
  <1>5. project \in Policies \cup {NoDoc} /\ outbox \in Records \cup {NoDoc}
    BY <1>2 DEF Papers
  <1>6. CASE MigrationScan
    BY <1>6, <1>4, <1>5, MigrationGoesOn DEF MigrationScan
  <1>7. CASE MigrationAsk
    BY <1>7, <1>2, <1>3, <1>4, <1>5, MigrationGoesOn DEF MigrationAsk, Stored, Entries,
       Policies, Revisions, Values, ReadBack
  <1>8. CASE MigrationClaim
    BY <1>8, <1>2, <1>3, PushHolds, MigrationGoesOn, <1>1, TasksStay, ZenonT(60)
       DEF MigrationClaim, Papers
  <1>9. CASE EnsureOutbox
    BY <1>9, <1>2, <1>3, CaughtTyped, <1>4, <1>5, MigrationGoesOn DEF EnsureOutbox
  <1>10. CASE WriteMigratedProjectDoc
    BY <1>10, <1>3, PolicyPasses, <1>2, <1>5, CaughtTyped, <1>4, MigrationGoesOn, ZenonT(60)
       DEF WriteMigratedProjectDoc, Pending, OutboxStates
  <1>11. CASE MigrationDies
    BY <1>11, <1>4, <1>5, MigrationGoesOn DEF MigrationDies
  <1> QED BY <1>6, <1>7, <1>8, <1>9, <1>10, <1>11 DEF Migration

-----------------------------------------------------------------------------
LEMMA InitRevoking ==
  ASSUME NoDoc \notin Policies
  PROVE  Init => Revoking
  <1> SUFFICES ASSUME Init PROVE Revoking
    OBVIOUS
  <1>1. Papers
    <2>1. /\ SelectedTelemetryPolicy \in Policies /\ [rev |-> 0, pol |-> "unset"] \in Policies
          /\ [rev |-> 0, pol |-> "unset", st |-> "Pending"] \in Records
          /\ [pc |-> "idle", policy |-> NoDoc] \in Migrations
      BY DEF SelectedTelemetryPolicy, Policies, Records, Revisions, Values, OutboxStates, Migrations
    <2> QED BY <2>1, ZenonT(60) DEF Init, Papers, DeletionStates
  <1>2. Stored
    <2>1. mem = NoDoc \/ (mem \in Entries /\ ~mem.fenced)
      <3> SUFFICES ASSUME NEW e \in [rev : {0, 1}, pol : {"bounded", "nolimit"},
                                      managed : {FALSE}, fenced : {FALSE}]
                   PROVE  e \in Entries /\ ~e.fenced
        BY ZenonT(60) DEF Init
      <3>1. e = [rev |-> e.rev, pol |-> e.pol, managed |-> e.managed, fenced |-> e.fenced]
        OBVIOUS
      <3>2. e.managed = FALSE /\ e.fenced = FALSE
        BY ZenonT(60)
      <3>3. e.rev \in Revisions /\ e.pol \in Values
        BY DEF Revisions, Values
      <3> QED BY <3>1, <3>2, <3>3, ZenonT(60) DEF Entries
    <2> QED BY <2>1 DEF Init, Stored, FencesHold, Fenced
  <1>3. RevocationsHold /\ Underway
    BY IdleCarriesNothing DEF Init, RevocationsHold, Underway
  <1> QED BY <1>1, <1>2, <1>3, RevokingParts

LEMMA NextRevoking ==
  ASSUME NoDoc \notin Policies, NoDoc \notin Entries
  PROVE  Revoking /\ [Next]_vars => Revoking'
  <1> SUFFICES ASSUME Revoking, [Next]_vars PROVE Revoking'
    OBVIOUS
  <1>1. CASE UNCHANGED vars
    BY <1>1, SidesStay, RevokingParts, TasksStay DEF vars
  <1>2. CASE Operator \/ Restart
    BY <1>2, OperatorHolds, SidesStay, RevokingParts, TasksStay, ZenonT(60) DEF Operator,
       OperatorPush, OperatorRemove, Restart
  <1>3. ASSUME NEW s \in Slots, SyncStep(s) PROVE Revoking'
    BY <1>3, BeginAttemptHolds, RegisterProjectHolds, FinishAttemptHolds DEF SyncStep
  <1>4. CASE Next
    BY <1>2, <1>3, <1>4, RequestsHold, QueueStepsHold, TeardownHolds, MigrationHolds, ZenonT(60) DEF Next
  <1> QED BY <1>1, <1>4

\* Once project_teardown has written AccessRevoked, no interleaving of
\* redelivered and overlapping syncs and teardowns, of the migration's claim, of
\* an operator's pushes and removals, of puts that fail or land unreported, and of
\* Signy's restarts makes the tenant's entry usable again, in memory or in the
\* store, however many of each there are.
THEOREM RevokedStaysOutHolds ==
  ASSUME NoDoc \notin Policies, NoDoc \notin Entries
  PROVE  Spec => []RevokedStaysOut
  <1>1. Init => Revoking
    BY InitRevoking
  <1>2. Revoking /\ [Next]_vars => Revoking'
    BY NextRevoking
  <1>3. Revoking => RevokedStaysOut
    BY DEF Revoking, RevocationsHold, FencesHold, Fenced, RevokedStaysOut
  <1> QED BY <1>1, <1>2, <1>3, PTL DEF Spec
=============================================================================
