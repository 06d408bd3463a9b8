--------------------------- MODULE TenantRegistry ---------------------------
(***************************************************************************)
(* The life of one project's telemetry tenant.  The control plane creates  *)
(* the project with a policy and an outbox record, queue tasks carry the   *)
(* policy to Signy (telemetry_policy_sync.rs) or take the project down     *)
(* (project_teardown.rs), a cron pass enqueues again what is unfinished,   *)
(* and an administrator's task claims the tenants of older projects        *)
(* (migrate_telemetry_policies.rs).  Signy keeps the tenant's entry in     *)
(* memory and in a document of its object store (tenant_policy.rs).        *)
(*                                                                         *)
(* The queue delivers at least once: a task that fails, dies or runs past  *)
(* its visibility timeout has its message delivered again, so two tasks of *)
(* a kind may overlap.  A policy is its revision and its values; the other *)
(* resources that a teardown removes are one step here.                    *)
(***************************************************************************)
EXTENDS Naturals, FiniteSets

CONSTANTS
    NoDoc,          \* an absent document
    Slots,          \* queue tasks that may run at once
    Requests,       \* delete requests of the owner
    MaxQueued,      \* bound: copies of one message waiting at once
    MaxFaults,      \* bound: failures of every kind in a behaviour
    MaxOperator,    \* bound: generic pushes and removals by an operator
    MaxMigrations,  \* bound: runs of the migration
    LandedPuts      \* whether a put that reports an error may have landed

VARIABLES
    project,    \* ProjectDoc: NoDoc or its telemetry policy
    outbox,     \* TelemetryPolicyOutboxDoc: NoDoc or [rev, pol, st]
    tomb,       \* ProjectDeletionDoc's state
    request,    \* what each delete request is about to do
    queue,      \* how many messages of each kind wait
    task,       \* what each slot runs
    migration,  \* the administrator's migration task
    mem,        \* Signy's entry of the tenant in memory
    disk,       \* Signy's stored policy document
    used        \* how much of each bound is used up

vars == <<project, outbox, tomb, request, queue, task, migration, mem, disk, used>>

Kinds == {"sync", "teardown"}

\* "unset" is the policy of a document older than the field and "bounded" the
\* policy that control selects; the other two differ only in how the absence
\* of a storage limit is written down.
Values == {"unset", "bounded", "nolimit", "unlimited"}
Revisions == 0..2
Policies == [rev : Revisions, pol : Values]

SelectedTelemetryPolicy == [rev |-> 1, pol |-> "bounded"]

OutboxStates == {"Pending", "Applied", "Failed", "DeadLetter", "BlockedByDeletion"}
DeletionStates == {"none", "RevokePending", "AccessRevoked", "TeardownComplete"}

Entries == [rev : Revisions, pol : Values, managed : BOOLEAN, fenced : BOOLEAN]

Answers == {"applied", "stale", "gone", "conflict", "unavailable"}

Idle == [kind |-> "idle", pc |-> "idle", policy |-> NoDoc, answer |-> "none", held |-> FALSE]

\* The type of every variable.
TypeOK ==
    /\ project \in Policies \cup {NoDoc}
    /\ outbox \in [rev : Revisions, pol : Values, st : OutboxStates] \cup {NoDoc}
    /\ tomb \in DeletionStates
    /\ request \in [Requests -> {"new", "write", "done"}]
    /\ queue \in [Kinds -> 0..MaxQueued]
    /\ task \in [Slots -> [kind : Kinds \cup {"idle"},
                           pc : {"idle", "begin", "call", "finish", "strip", "complete"},
                           policy : Policies \cup {NoDoc},
                           answer : Answers \cup {"none"},
                           held : BOOLEAN]]
    /\ migration \in [pc : {"idle", "ask", "ensure", "claim", "write"},
                      policy : Policies \cup {NoDoc}]
    /\ mem \in Entries \cup {NoDoc}
    /\ disk \in Entries \cup {NoDoc}
    /\ used \in [faults : 0..MaxFaults, operator : 0..MaxOperator,
                 migrations : 0..MaxMigrations]

Use(bound, limit) == used[bound] < limit /\ used' = [used EXCEPT ![bound] = @ + 1]
Fault == Use("faults", MaxFaults)

\* A project that is yet to be created; one whose outbox record is older than
\* its policy snapshot; one that is older than the policy field, whose tenant
\* an operator may have registered.
Init ==
    /\ \/ project = NoDoc /\ outbox = NoDoc /\ mem = NoDoc
       \/ /\ project = SelectedTelemetryPolicy
          /\ outbox = [rev |-> 0, pol |-> "unset", st |-> "Pending"]
          /\ mem = NoDoc
       \/ /\ project = [rev |-> 0, pol |-> "unset"]
          /\ outbox = NoDoc
          /\ mem \in {NoDoc} \cup [rev : {0, 1}, pol : {"bounded", "nolimit"},
                                   managed : {FALSE}, fenced : {FALSE}]
    /\ tomb = "none"
    /\ request = [q \in Requests |-> "new"]
    /\ queue = [k \in Kinds |-> 0]
    /\ task = [s \in Slots |-> Idle]
    /\ migration = [pc |-> "idle", policy |-> NoDoc]
    /\ disk = mem
    /\ used = [faults |-> 0, operator |-> 0, migrations |-> 0]

-----------------------------------------------------------------------------
(* The queue.  A message whose task is cut short, or runs past the          *)
(* visibility timeout, is delivered again; one that a task ends well is     *)
(* deleted.                                                                 *)

Enqueued(q, k) == [q EXCEPT ![k] = IF @ < MaxQueued THEN @ + 1 ELSE @]

Enqueue(k) ==
    \/ queue' = Enqueued(queue, k) /\ UNCHANGED used
    \/ Fault /\ UNCHANGED queue

Start(s, k) ==
    /\ task[s] = Idle
    /\ queue[k] > 0
    /\ queue' = [queue EXCEPT ![k] = @ - 1]
    /\ task' = [task EXCEPT ![s] = [Idle EXCEPT !.kind = k, !.pc = "begin", !.held = TRUE]]
    /\ UNCHANGED <<project, outbox, tomb, request, migration, mem, disk, used>>

Ended(s) == task' = [task EXCEPT ![s] = Idle]

Acked(s) == Ended(s) /\ UNCHANGED queue

Returned(s) ==
    /\ Ended(s)
    /\ queue' = IF task[s].held THEN Enqueued(queue, task[s].kind) ELSE queue

Redeliver(s) ==
    /\ task[s].held
    /\ Fault
    /\ queue' = Enqueued(queue, task[s].kind)
    /\ task' = [task EXCEPT ![s].held = FALSE]
    /\ UNCHANGED <<project, outbox, tomb, request, migration, mem, disk>>

Die(s) ==
    /\ task[s] # Idle
    /\ Fault
    /\ Returned(s)
    /\ UNCHANGED <<project, outbox, tomb, request, migration, mem, disk>>

Goes(s, pc) == task' = [task EXCEPT ![s].pc = pc] /\ UNCHANGED queue

-----------------------------------------------------------------------------
(* Signy.  Every change holds write_lock from the check of the entry in     *)
(* memory to its replacement, so a change is one step; readers see memory.  *)

\* Mutant of PushVerdict: a fenced entry is replaced like any other one.
PushVerdictUnfenced(p, managed) ==
    CASE mem = NoDoc -> "write"
      [] mem # NoDoc /\ ~managed /\ mem.managed -> "conflict"
      [] OTHER -> IF p.rev < mem.rev THEN "stale" ELSE "write"

\* What a push answers without writing, or "write".
PushVerdict(p, managed) ==
    CASE mem = NoDoc -> "write"
      [] mem # NoDoc /\ mem.fenced -> "gone"
      [] mem # NoDoc /\ ~mem.fenced /\ ~managed /\ mem.managed -> "conflict"
      [] OTHER ->
           CASE p.rev < mem.rev -> "stale"
             [] p.rev > mem.rev -> "write"
             [] p = [rev |-> mem.rev, pol |-> mem.pol] /\ (managed => mem.managed) -> "applied"
             [] p.pol # mem.pol \/ ~managed -> "conflict"
             [] OTHER -> "write"

\* The store refuses a revision below the stored one.  A put that fails may
\* have landed all the same, and an answer may be lost after the change.
StorePut(e, answer) ==
    \/ /\ disk # NoDoc /\ e.rev < disk.rev
       /\ answer = "unavailable"
       /\ UNCHANGED <<mem, disk, used>>
    \/ /\ disk # NoDoc => e.rev >= disk.rev
       /\ \/ /\ answer = "applied"
             /\ mem' = e /\ disk' = e
             /\ UNCHANGED used
          \/ /\ answer = "unavailable"
             /\ Fault
             /\ \/ UNCHANGED <<mem, disk>>
                \/ LandedPuts /\ disk' = e /\ UNCHANGED mem
                \/ mem' = e /\ disk' = e

Push(p, managed, answer) ==
    LET verdict == PushVerdict(p, managed)
    IN  \/ /\ verdict = "write"
           /\ StorePut([rev |-> p.rev, pol |-> p.pol, managed |-> managed,
                        fenced |-> FALSE], answer)
        \/ /\ verdict # "write"
           /\ \/ answer = verdict /\ UNCHANGED used
              \/ answer = "unavailable" /\ Fault
           /\ UNCHANGED <<mem, disk>>

\* The fence is 1 in every tombstone, so an entry is fenced or it is not.
Revoke(answer) ==
    \/ /\ mem # NoDoc /\ mem.fenced
       /\ \/ answer = "applied" /\ UNCHANGED used
          \/ answer = "unavailable" /\ Fault
       /\ UNCHANGED <<mem, disk>>
    \/ /\ mem # NoDoc => ~mem.fenced
       /\ StorePut(IF mem = NoDoc
                   THEN [rev |-> 0, pol |-> "unset", managed |-> TRUE, fenced |-> TRUE]
                   ELSE [mem EXCEPT !.managed = TRUE, !.fenced = TRUE], answer)

OperatorPush(p) ==
    /\ Use("operator", MaxOperator)
    /\ PushVerdict(p, FALSE) = "write"
    /\ disk # NoDoc => p.rev >= disk.rev
    /\ mem' = [rev |-> p.rev, pol |-> p.pol, managed |-> FALSE, fenced |-> FALSE]
    /\ disk' = mem'
    /\ UNCHANGED <<project, outbox, tomb, request, queue, task, migration>>

OperatorRemove ==
    /\ Use("operator", MaxOperator)
    /\ mem # NoDoc => ~mem.managed
    /\ mem' = NoDoc
    /\ disk' = NoDoc
    /\ UNCHANGED <<project, outbox, tomb, request, queue, task, migration>>

Restart ==
    /\ mem' = disk
    /\ UNCHANGED <<project, outbox, tomb, request, queue, task, migration, disk, used>>

-----------------------------------------------------------------------------
(* The policy's way to Signy.                                               *)

NewProject ==
    /\ project = NoDoc /\ outbox = NoDoc /\ tomb = "none"
    /\ project' = SelectedTelemetryPolicy
    /\ outbox' = [rev |-> SelectedTelemetryPolicy.rev, pol |-> SelectedTelemetryPolicy.pol,
                  st |-> "Pending"]
    /\ Enqueue("sync")
    /\ UNCHANGED <<tomb, request, task, migration, mem, disk>>

Settled == {"Applied", "DeadLetter", "BlockedByDeletion"}

BeginAttempt(s) ==
    /\ task[s].kind = "sync" /\ task[s].pc = "begin"
    /\ \/ /\ outbox # NoDoc => outbox.st \in Settled
          /\ Acked(s)
          /\ UNCHANGED outbox
       \/ /\ outbox # NoDoc /\ outbox.st \notin Settled
          /\ tomb # "none" \/ (outbox.pol = "unset" /\ project = NoDoc)
          /\ outbox' = [outbox EXCEPT !.st = "BlockedByDeletion"]
          /\ Acked(s)
       \/ /\ outbox # NoDoc /\ outbox.st \notin Settled
          /\ tomb = "none" /\ (outbox.pol = "unset" => project # NoDoc)
          /\ LET policy == IF outbox.pol = "unset" THEN project
                           ELSE [rev |-> outbox.rev, pol |-> outbox.pol]
             IN  /\ outbox' = [rev |-> policy.rev, pol |-> policy.pol, st |-> "Pending"]
                 /\ task' = [task EXCEPT ![s].pc = "call", ![s].policy = policy]
          /\ UNCHANGED queue
    /\ UNCHANGED <<project, tomb, request, migration, mem, disk, used>>

RegisterProject(s) ==
    /\ task[s].kind = "sync" /\ task[s].pc = "call"
    /\ \E answer \in Answers :
         /\ Push(task[s].policy, TRUE, answer)
         /\ task' = [task EXCEPT ![s].pc = "finish", ![s].answer = answer]
    /\ UNCHANGED <<project, outbox, tomb, request, queue, migration>>

Permanent == {"gone", "conflict"}

\* The state that an attempt leaves the record in.
AttemptState(answer) ==
    CASE answer \in {"applied", "stale"} -> "Applied"
      [] answer \in Permanent -> "DeadLetter"
      [] OTHER -> "Failed"

FinishAttempt(s) ==
    /\ task[s].kind = "sync" /\ task[s].pc = "finish"
    /\ LET answer == task[s].answer
           retried == outbox # NoDoc /\ answer = "unavailable"
                      /\ (tomb # "none" \/ outbox.rev = task[s].policy.rev)
       IN  /\ outbox' = CASE outbox = NoDoc -> outbox
                          [] outbox # NoDoc /\ tomb # "none" ->
                               [outbox EXCEPT !.st = "BlockedByDeletion"]
                          [] outbox # NoDoc /\ tomb = "none"
                               /\ outbox.rev = task[s].policy.rev ->
                               [outbox EXCEPT !.st = AttemptState(answer)]
                          [] OTHER -> outbox
           /\ IF retried THEN Returned(s) ELSE Acked(s)
    /\ UNCHANGED <<project, tomb, request, migration, mem, disk, used>>

\* Mutant of ReconcileOutbox: only a failed attempt is taken up again.
ReconcileOutboxFailed ==
    /\ outbox # NoDoc /\ outbox.st = "Failed"
    /\ queue["sync"] < MaxQueued
    /\ queue' = Enqueued(queue, "sync")
    /\ UNCHANGED <<project, outbox, tomb, request, task, migration, mem, disk, used>>

ReconcileOutbox ==
    /\ outbox # NoDoc /\ outbox.st \notin Settled
    /\ queue["sync"] < MaxQueued
    /\ queue' = Enqueued(queue, "sync")
    /\ UNCHANGED <<project, outbox, tomb, request, task, migration, mem, disk, used>>

-----------------------------------------------------------------------------
(* The project's deletion.                                                  *)

DeleteRead(q) ==
    /\ request[q] = "new"
    /\ project # NoDoc
    /\ request' = [request EXCEPT ![q] = IF tomb = "none" THEN "write" ELSE "done"]
    /\ IF tomb = "none" THEN UNCHANGED <<queue, used>> ELSE Enqueue("teardown")
    /\ UNCHANGED <<project, outbox, tomb, task, migration, mem, disk>>

DeleteWrite(q) ==
    /\ request[q] = "write"
    /\ tomb' = "RevokePending"
    /\ request' = [request EXCEPT ![q] = "done"]
    /\ Enqueue("teardown")
    /\ UNCHANGED <<project, outbox, task, migration, mem, disk>>

EnsureRevokePending(s) ==
    /\ task[s].kind = "teardown" /\ task[s].pc = "begin"
    /\ tomb' = IF tomb = "none" THEN "RevokePending" ELSE tomb
    /\ Goes(s, IF tomb' = "RevokePending" THEN "call" ELSE "strip")
    /\ UNCHANGED <<project, outbox, request, migration, mem, disk, used>>

RevokeAccess(s) ==
    /\ task[s].kind = "teardown" /\ task[s].pc = "call"
    /\ \E answer \in {"applied", "unavailable"} :
         /\ Revoke(answer)
         /\ task' = [task EXCEPT ![s].pc = "finish", ![s].answer = answer]
    /\ UNCHANGED <<project, outbox, tomb, request, queue, migration>>

RecordRevoke(s) ==
    /\ task[s].kind = "teardown" /\ task[s].pc = "finish"
    /\ \/ /\ task[s].answer = "applied"
          /\ tomb' = "AccessRevoked"
          /\ Goes(s, "strip")
       \/ /\ task[s].answer = "unavailable"
          /\ tomb' = "RevokePending"
          /\ Returned(s)
    /\ UNCHANGED <<project, outbox, request, migration, mem, disk, used>>

DeleteIdentityDocs(s) ==
    /\ task[s].kind = "teardown" /\ task[s].pc = "strip"
    /\ project' = NoDoc
    /\ Goes(s, "complete")
    /\ UNCHANGED <<outbox, tomb, request, migration, mem, disk, used>>

CompleteTeardown(s) ==
    /\ task[s].kind = "teardown" /\ task[s].pc = "complete"
    /\ tomb' = "TeardownComplete"
    /\ Acked(s)
    /\ UNCHANGED <<project, outbox, request, migration, mem, disk, used>>

ReconcileTombstone ==
    /\ tomb \in {"RevokePending", "AccessRevoked"}
    /\ queue["teardown"] < MaxQueued
    /\ queue' = Enqueued(queue, "teardown")
    /\ UNCHANGED <<project, outbox, tomb, request, task, migration, mem, disk, used>>

-----------------------------------------------------------------------------
(* The migration of a project that is older than the policy field.          *)

MigrationGoes(pc, policy) == migration' = [pc |-> pc, policy |-> policy]

MigrationScan ==
    /\ migration.pc = "idle"
    /\ project # NoDoc
    /\ Use("migrations", MaxMigrations)
    /\ MigrationGoes("ask", project)
    /\ UNCHANGED <<project, outbox, tomb, request, queue, task, mem, disk>>

\* read_policy writes out the limit of a tenant that has none.
ReadBack(pol) == IF pol = "nolimit" THEN "unlimited" ELSE pol

\* Signy's answer decides how the migration goes on; a project whose values
\* differ from it, or that it does not know, is left as an exception.
MigrationAsk ==
    /\ migration.pc = "ask"
    /\ \/ /\ mem = NoDoc
          /\ MigrationGoes("idle", NoDoc)
       \/ /\ mem # NoDoc /\ migration.policy.pol # "unset"
          /\ IF migration.policy.pol = ReadBack(mem.pol)
             THEN MigrationGoes("ensure", migration.policy)
             ELSE MigrationGoes("idle", NoDoc)
       \/ /\ mem # NoDoc /\ migration.policy.pol = "unset"
          /\ MigrationGoes("claim", [rev |-> IF mem.rev = 0 THEN 1 ELSE mem.rev,
                                     pol |-> ReadBack(mem.pol)])
    /\ UNCHANGED <<project, outbox, tomb, request, queue, task, mem, disk, used>>

MigrationClaim ==
    /\ migration.pc = "claim"
    /\ \E answer \in Answers :
         /\ Push(migration.policy, TRUE, answer)
         /\ IF answer = "applied" THEN MigrationGoes("write", migration.policy)
                                  ELSE MigrationGoes("idle", NoDoc)
    /\ UNCHANGED <<project, outbox, tomb, request, queue, task>>

Pending(policy) == [rev |-> policy.rev, pol |-> policy.pol, st |-> "Pending"]

\* The outbox record is brought up to a project's policy, never back.
Caught(policy) ==
    IF outbox = NoDoc \/ (outbox # NoDoc /\ outbox.rev < policy.rev)
         \/ (outbox # NoDoc /\ outbox.rev = policy.rev /\ outbox.pol = "unset")
    THEN Pending(policy) ELSE outbox

EnsureOutbox ==
    /\ migration.pc = "ensure"
    /\ outbox' = Caught(migration.policy)
    /\ MigrationGoes("idle", NoDoc)
    /\ UNCHANGED <<project, tomb, request, queue, task, mem, disk, used>>

WriteMigratedProjectDoc ==
    /\ migration.pc = "write"
    /\ \/ project = NoDoc /\ UNCHANGED <<project, outbox>>
       \/ /\ project # NoDoc /\ project.pol # "unset"
          /\ outbox' = Caught(project)
          /\ UNCHANGED project
       \/ /\ project # NoDoc /\ project.pol = "unset"
          /\ IF outbox # NoDoc /\ outbox.rev > migration.policy.rev
             THEN UNCHANGED <<project, outbox>>
             ELSE project' = migration.policy /\ outbox' = Pending(migration.policy)
    /\ MigrationGoes("idle", NoDoc)
    /\ UNCHANGED <<tomb, request, queue, task, mem, disk, used>>

MigrationDies ==
    /\ migration.pc # "idle"
    /\ Fault
    /\ MigrationGoes("idle", NoDoc)
    /\ UNCHANGED <<project, outbox, tomb, request, queue, task, mem, disk>>

-----------------------------------------------------------------------------
SyncStep(s) == BeginAttempt(s) \/ RegisterProject(s) \/ FinishAttempt(s)

TeardownStep(s) ==
    \/ EnsureRevokePending(s) \/ RevokeAccess(s) \/ RecordRevoke(s)
    \/ DeleteIdentityDocs(s) \/ CompleteTeardown(s)

Migration ==
    \/ MigrationScan \/ MigrationAsk \/ MigrationClaim
    \/ EnsureOutbox \/ WriteMigratedProjectDoc \/ MigrationDies

Operator ==
    \/ \E p \in [rev : Revisions, pol : {"bounded", "nolimit"}] : OperatorPush(p)
    \/ OperatorRemove

Next ==
    \/ NewProject \/ ReconcileOutbox \/ ReconcileTombstone
    \/ \E q \in Requests : DeleteRead(q) \/ DeleteWrite(q)
    \/ \E s \in Slots :
         \/ \E k \in Kinds : Start(s, k)
         \/ SyncStep(s) \/ TeardownStep(s) \/ Redeliver(s) \/ Die(s)
    \/ Migration \/ Operator \/ Restart

Spec == Init /\ [][Next]_vars

Taken == \E s \in Slots, k \in Kinds : Start(s, k)
TaskStep(s) == SyncStep(s) \/ TeardownStep(s)

\* Messages are taken, a task that runs goes on, and the cron pass comes around.
FairSpec ==
    /\ Spec
    /\ WF_vars(ReconcileOutbox) /\ WF_vars(ReconcileTombstone)
    /\ WF_vars(Taken) /\ \A s \in Slots : WF_vars(TaskStep(s))

-----------------------------------------------------------------------------
(* Properties.                                                              *)

\* Once a project's deletion has revoked its tenant's access (project_teardown),
\* neither a late registration, nor the migration, nor an operator, nor a restart
\* of Signy brings it back: the entry is fenced in memory and in the store.
RevokedStaysOut ==
    tomb \in {"AccessRevoked", "TeardownComplete"} =>
      \A e \in {mem, disk} : e # NoDoc /\ e.fenced

\* A record that says its policy is applied (finish_attempt) is true: Signy has
\* stored those values at that revision, or a later revision, and serves by it.
AppliedIsHeld ==
    outbox # NoDoc /\ outbox.st = "Applied" =>
      \A e \in {mem, disk} :
        /\ e # NoDoc
        /\ e.rev > outbox.rev \/ [rev |-> e.rev, pol |-> e.pol] = [rev |-> outbox.rev, pol |-> outbox.pol]

\* A policy that is on its way arrives, is given up for good, or gives way to the
\* project's deletion (telemetry_policy_sync, reconcile_signy_tenants).
PolicySettles == (outbox # NoDoc /\ outbox.st \notin Settled)
                   ~> (outbox # NoDoc /\ outbox.st \in Settled)

\* A deletion that was accepted is carried out (delete_project, project_teardown:
\* "a redelivered message re-runs the whole sequence and converges").
TeardownConverges == tomb # "none" ~> tomb = "TeardownComplete" /\ project = NoDoc
=============================================================================
