----------------------------- MODULE MCLiveness -----------------------------
(* Five components side by side, for their liveness: a project's telemetry     *)
(* tenant (TenantRegistry, extended), its deployments (P), one WebSocket         *)
(* connection (C), the connection directory with its scan (D), and a collecty's  *)
(* queue (Q).  A behaviour runs one of them, the others stay in their initial    *)
(* states.                                                                       *)
EXTENDS TenantRegistry

CONSTANTS s1, d1

VARIABLES
  part,
  entry, runtime, client, cron, configs, assets, originals, compiled, docs, notices, jobs, age,
  aged, pqueue, ptask, gc, seen, reg, lru, fetch, edge, pused,
  closing, guard, forced, cqueue, parked, control, writer, some, parting, frames, ans, bye,
  reader, pending, calls, run,
  conn, put, dir, missed, scan, deaths,
  files, phase, slot, nexts, q, job, snd, wire, mark, got, fate, qused

P == INSTANCE Deployment WITH
  MaxVersion <- 2, Runtimes <- {"a"}, FirstRuntime <- "a", Workers <- {"w"}, Slots <- {1},
  RETAINED_VERSIONS_BELOW_ACTIVE <- 0, MaxFaults <- 1, MaxLost <- 0, MaxGc <- 0,
  MaxDomains <- 1, MaxFetch <- 0, MaxRuntime <- 0, queue <- pqueue, task <- ptask,
  used <- pused
C == INSTANCE WebSocketConnection WITH
  Sends <- {s1}, Disconnects <- {d1}, QueueCap <- 1, InLimit <- 0, MaxCalls <- 0,
  MaxFrames <- 0, queue <- cqueue, wire <- frames
D == INSTANCE WebSocketDirectory WITH
  Inbound <- {1}, Outbound <- {2}, PageLimit <- 1, MaxDeaths <- 1, gc <- scan
Q == INSTANCE CollectyQueue WITH
  NSignals <- 2, MaxBytes <- 1, MaxSegmentBytes <- 1, MaxRecords <- 2, MaxCrash <- 1,
  MaxOpenCrash <- 1, CrashUnnumbered <- FALSE, MaxErr <- 0, used <- qused

pvars == <<entry, runtime, client, cron, configs, assets, originals, compiled, docs, notices,
           jobs, age, aged, pqueue, ptask, gc, seen, reg, lru, fetch, edge, pused>>
cvars == <<closing, guard, forced, cqueue, parked, control, writer, some, parting, frames, ans,
           bye, reader, pending, calls, run>>
dvars == <<conn, put, dir, missed, scan, deaths>>
qvars == <<files, phase, slot, nexts, q, job, snd, wire, mark, got, fate, qused>>

MCInit ==
  /\ part \in {"tenant", "deploy", "connection", "directory", "queue"}
  /\ Init /\ (part # "tenant" => project = NoDoc) /\ P!Init /\ C!Init /\ D!Init /\ Q!Init

InTenant     == part = "tenant" /\ Next /\ UNCHANGED <<pvars, cvars, dvars, qvars>>
InDeploy     == part = "deploy" /\ P!Next /\ UNCHANGED <<vars, cvars, dvars, qvars>>
InConnection == part = "connection" /\ C!Next /\ UNCHANGED <<vars, pvars, dvars, qvars>>
InDirectory  == part = "directory" /\ D!Next /\ UNCHANGED <<vars, pvars, cvars, qvars>>
InQueue      == part = "queue" /\ Q!Next /\ UNCHANGED <<vars, pvars, cvars, dvars>>

MCNext == UNCHANGED part /\ (InTenant \/ InDeploy \/ InConnection \/ InDirectory \/ InQueue)

\* The fairness of each component, asked of the one that runs.
MCFairSpec ==
  /\ MCInit /\ [][MCNext]_<<part, vars, pvars, cvars, dvars, qvars>>
  /\ WF_vars(part = "tenant" /\ ReconcileOutbox)
  /\ WF_vars(part = "tenant" /\ ReconcileTombstone)
  /\ WF_vars(part = "tenant" /\ Taken) /\ WF_vars(part = "tenant" /\ TaskStep(1))
  /\ WF_pvars(part = "deploy" /\ P!Notified) /\ WF_pvars(part = "deploy" /\ P!Taken)
  /\ WF_pvars(part = "deploy" /\ P!TaskStep(1)) /\ WF_pvars(part = "deploy" /\ P!Poll("w"))
  /\ WF_cvars(part = "connection" /\ C!WriterBusy) /\ WF_cvars(part = "connection" /\ C!Park)
  /\ WF_cvars(part = "connection" /\ C!SocketEnds) /\ WF_cvars(part = "connection" /\ C!RunEnds)
  /\ WF_dvars(part = "directory" /\ D!GcStep)
  /\ \A c \in D!Conns :
       /\ SF_dvars(part = "directory" /\ c \in scan.page /\ D!GcProbe(TRUE))
       /\ SF_dvars(part = "directory" /\ c \in scan.page /\ D!GcDeleteAll)
  /\ WF_qvars(part = "queue" /\ Q!Opening) /\ WF_qvars(part = "queue" /\ Q!SpoolThread)
  /\ WF_qvars(part = "queue" /\ Q!Sending) /\ WF_qvars(part = "queue" /\ Q!Deliver)
  /\ WF_qvars(part = "queue" /\ Q!SealIfDue({1, 2}))

-----------------------------------------------------------------------------
\* A version that is pending comes to be active, or a later one does
\* (bundle_compiled, deployment_activation), and every worker follows.
DeployLands == P!DeployLands

\* A connection that begins to close comes to its end (close_connection,
\* writer_loop, run_connection).
ClosingEnds == C!ClosingEnds

\* An entry whose connection is gone does not stay: what the owner failed to
\* unpublish, or published too late, the scan finds (unpublish_connection, run_gc).
LeftoversGo == D!LeftoversGo

\* Every record that a collecty accepted reaches signy unless a crash, a full
\* queue or a refusal takes it (Queue, run_sender).
RecordsArrive == Q!RecordsArrive
=============================================================================
