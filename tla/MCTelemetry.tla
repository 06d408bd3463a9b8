---------------------------- MODULE MCTelemetry -----------------------------
(* Telemetry side by side: a project's tenant in signy, with failures          *)
(* (TenantRegistry, extended) and with overlapping tasks (O), signy's collect   *)
(* route (G), and a collecty's queue, with two signals (Q) and with failing I/O *)
(* (E).  A behaviour runs one of these instances, and the other components stay *)
(* in their initial states.                                                     *)
EXTENDS TenantRegistry

VARIABLES
  part,
  snd, unsent, hd, jq, batch, marks, mfile, wmark, stored, gused,
  files, phase, slot, nexts, q, job, qsnd, wire, mark, got, fate, qused

O == INSTANCE TenantRegistry WITH Slots <- {1, 2}, MaxFaults <- 0
G == INSTANCE SignyCollect WITH
  Signal <- {"logs", "traces"}, MaxSeg <- 2, NRec <- 2, BadLast <- {"traces"},
  Handler <- {"h"}, MaxInflight <- 2, Overlap <- FALSE, MaxWriteErr <- 0, MaxRefuse <- 1,
  MaxTimeout <- 1, MaxRestart <- 1, MaxCrash <- 1, MaxTorn <- 0, MaxStoreErr <- 0,
  used <- gused
Q == INSTANCE CollectyQueue WITH
  NSignals <- 2, MaxBytes <- 2, MaxSegmentBytes <- 1, MaxRecords <- 3, MaxCrash <- 1,
  MaxOpenCrash <- 1, CrashUnnumbered <- FALSE, MaxErr <- 0, snd <- qsnd, used <- qused
E == INSTANCE CollectyQueue WITH
  NSignals <- 1, MaxBytes <- 2, MaxSegmentBytes <- 1, MaxRecords <- 3, MaxCrash <- 1,
  MaxOpenCrash <- 1, CrashUnnumbered <- FALSE, MaxErr <- 1, snd <- qsnd, used <- qused

gvars == <<snd, unsent, hd, jq, batch, marks, mfile, wmark, stored, gused>>
qvars == <<files, phase, slot, nexts, q, job, qsnd, wire, mark, got, fate, qused>>

MCInit ==
  /\ part \in {"tenant", "overlap", "collect", "signals", "errors"} /\ G!Init
  /\ IF part = "overlap" THEN O!Init ELSE Init
  /\ part \notin {"tenant", "overlap"} => project = NoDoc
  /\ IF part = "errors" THEN E!Init ELSE Q!Init

InTenant ==
  /\ \/ part = "tenant" /\ Next
     \/ part = "overlap" /\ O!Next
  /\ UNCHANGED <<gvars, qvars>>
InCollect == part = "collect" /\ G!Next /\ UNCHANGED <<vars, qvars>>
InQueue ==
  /\ \/ part = "signals" /\ Q!Next
     \/ part = "errors" /\ E!Next
  /\ UNCHANGED <<vars, gvars>>

MCNext == UNCHANGED part /\ (InTenant \/ InCollect \/ InQueue)

MCSpec == MCInit /\ [][MCNext]_<<part, vars, gvars, qvars>>

-----------------------------------------------------------------------------
\* A segment being written has a number that signy's position does not cover, a
\* record leaves the collecty's disk by an answer only once signy has it, and no
\* resend is stored twice; while no I/O fails, the byte count that the drop loop
\* goes by is exact (Queue::open, roll, commit, write_record).
QueueDelivers ==
  /\ part = "errors" => E!NumbersNotReused /\ E!HeldUntilStored /\ E!DeliveredOnce
  /\ part = "signals" =>
       Q!NumbersNotReused /\ Q!HeldUntilStored /\ Q!DeliveredOnce /\ Q!QueuedIsHeld

\* Position ("everything strictly before this point is durable"): every record
\* before a stream's position that signy accepts is in the WAL; and a restart
\* now would come back with exactly these positions, because the marks file is
\* written before the WAL that held them is retired.
MarksAreTrue == part = "collect" => G!MarksAreTrue

\* What the collecty unlinked after an accepted answer (deliver's commit) is
\* durable in signy.
UnlinkedIsStored == part = "collect" => G!UnlinkedIsStored

\* A resend is counted off, not stored twice (CollectMarks).
StoredOnce == part = "collect" => G!StoredOnce
=============================================================================
