--------------------------- MODULE SingletonLease ---------------------------
(***************************************************************************)
(* Who owns a project's WebSocket singleton.  The control plane keeps one  *)
(* runtime document per singleton, claimed for a reconcile attempt,        *)
(* finalized with the connection it opened and renewed by heartbeats       *)
(* (fn0/control/rs/src: queue_task/websocket_singleton_reconcile.rs,       *)
(* actions/websocket_singleton_status.rs, _resolve.rs, cron_on_tick.rs).   *)
(* The worker holding the connection never asks before it sends: it reads  *)
(* its own clock against a local deadline (SingletonLeaseGuard in          *)
(* fn0/worker/src/websocket.rs).                                           *)
(*                                                                         *)
(* One singleton.  The k-th reconcile attempt mints claim token k and the  *)
(* worker's connect slot gives a token one connection, so k also names it. *)
(* Every handler reads the clock before its transaction, which commits     *)
(* later.  All clocks agree.                                               *)
(***************************************************************************)
EXTENDS Integers

CONSTANTS
  Lease,      \* LEASE_SECONDS
  Safety,     \* SINGLETON_SAFETY_DEADLINE
  Interval,   \* SINGLETON_HEARTBEAT_INTERVAL
  TaskLimit,  \* how long a queue task may run: PROJECT_EXECUTION_DEADLINE
  MaxNow,     \* bound on time
  MaxClaim,   \* bound on reconcile attempts
  MaxEvent    \* bound on deployments, lookups and faults together

Claim == 1..MaxClaim

ASSUME LeaseAssumption ==
  /\ {Lease, Safety, Interval, TaskLimit, MaxNow, MaxClaim, MaxEvent} \subseteq Nat
  /\ 2 * Safety <= Lease

VARIABLES
  now,      \* the clock
  man,      \* the project's manifest entry: code version, is it ACTIVE
  runtime,  \* WebSocketSingletonRuntimeDoc; token 0 when there is none
  queued,   \* code versions a reconcile message was queued for
  att,      \* reconcile attempts
  minted,   \* how many started
  conn,     \* the connection opened under each claim
  stat,     \* the status report of each connection that control is handling
  retire,   \* a retire_runtime_if_unchanged between its read and its transaction
  cache,    \* a worker's SingletonResolveEntry for the singleton
  events    \* how many deployments, lookups and faults there were

vars == <<now, man, runtime, queued, att, minted, conn, stat, retire, cache, events>>

NoRuntime == [token |-> 0, ver |-> 0, conn |-> 0, lease |-> 0, state |-> "absent"]
NoConn    == [st |-> "none", valid |-> 0, loop |-> "none", next |-> 0, asked |-> 0]
NoAttempt == [ph |-> "idle", ver |-> 0, ct |-> 0, fin |-> 0]
NoStat    == [st |-> "none", ver |-> 0, ct |-> 0]
NoRead    == [on |-> FALSE, doc |-> NoRuntime, ct |-> 0]
NoCache   == [st |-> "none", token |-> 0, asked |-> 0, ct |-> 0, valid |-> 0]

Init ==
  /\ now = 0 /\ man = [ver |-> 1, active |-> TRUE]
  /\ runtime = NoRuntime /\ queued = {}
  /\ att = [k \in Claim |-> NoAttempt] /\ minted = 0
  /\ conn = [k \in Claim |-> NoConn]
  /\ stat = [k \in Claim |-> NoStat]
  /\ retire = NoRead /\ cache = NoCache /\ events = 0

Later(x, y) == IF x >= y THEN x ELSE y
Sooner(x, y) == IF x <= y THEN x ELSE y

Event == events < MaxEvent /\ events' = events + 1

\* A step that may go wrong: it went well, or it is one more fault.
Well(ok) == IF ok THEN UNCHANGED events ELSE Event

\* Control's handlers run in guests that are stopped at their deadline.
InTime ==
  /\ \A k \in Claim : /\ att[k].ph \in {"idle", "done"} \/ now < att[k].ct + TaskLimit
                      /\ stat[k].st \in {"beat", "left"} => now < stat[k].ct + TaskLimit
  /\ retire.on => now < retire.ct + TaskLimit
  /\ cache.st = "stamped" => now < cache.ct + TaskLimit

Tick ==
  /\ now < MaxNow /\ InTime /\ now' = now + 1
  /\ UNCHANGED <<man, runtime, queued, att, minted, conn, stat, retire, cache, events>>

-----------------------------------------------------------------------------
(* reconcile_with and connect_claimed, a step per await.                    *)

To(k, ph) ==
  att' = [att EXCEPT ![k] = IF ph = "done" THEN [NoAttempt EXCEPT !.ph = ph] ELSE [@ EXCEPT !.ph = ph]]

\* A message is delivered, maybe not for the last time; for another version
\* than the active one the attempt ends here.
StartReconcile(v) ==
  /\ v \in queued /\ minted < MaxClaim
  /\ man.ver = v /\ man.active
  /\ minted' = minted + 1
  /\ att' = [att EXCEPT ![minted + 1] = [ph |-> "acquire", ver |-> v, ct |-> now, fin |-> 0]]
  /\ UNCHANGED <<now, man, runtime, queued, conn, stat, retire, cache, events>>

\* acquire_claim: the reservation of another claim blocks until it expires.
AcquireClaim(k) ==
  /\ att[k].ph = "acquire"
  /\ IF runtime.lease > att[k].ct
     THEN To(k, "done") /\ UNCHANGED runtime
     ELSE /\ To(k, "initialize")
          /\ runtime' = [token |-> k, ver |-> att[k].ver, conn |-> 0,
                         lease |-> Later(runtime.lease, att[k].ct + Lease), state |-> "preparing"]
  /\ UNCHANGED <<now, man, queued, minted, conn, stat, retire, cache, events>>

\* The project's initializer names the URL, or fails.
Initialize(k, ok) ==
  /\ att[k].ph = "initialize"
  /\ To(k, IF ok THEN "connect" ELSE "release")
  /\ Well(ok)
  /\ UNCHANGED <<now, man, runtime, queued, minted, conn, stat, retire, cache>>

\* initial_lease_valid_until: the safety deadline, or what is left of the claim.
InitialValid(ct) == Sooner(now + Safety, Later(now, ct + Lease))

\* connect_singleton_outbound: the socket is open and its lease loop waits.
Connect(k, answered) ==
  /\ att[k].ph = "connect"
  /\ conn' = [conn EXCEPT ![k] = [NoConn EXCEPT !.st = "open", !.loop = "waiting",
                                                !.valid = InitialValid(att[k].ct)]]
  /\ To(k, IF answered THEN "connected" ELSE "done")
  /\ Well(answered)
  /\ UNCHANGED <<now, man, runtime, queued, minted, stat, retire, cache>>

\* The clock is read for finalize_claim once connect has answered.
StampFinalize(k) ==
  /\ att[k].ph = "connected"
  /\ att' = [att EXCEPT ![k] = [@ EXCEPT !.ph = "finalize", !.fin = now]]
  /\ UNCHANGED <<now, man, runtime, queued, minted, conn, stat, retire, cache, events>>

Finalizable(k) ==
  /\ man.active /\ man.ver = att[k].ver
  /\ runtime.token = k /\ runtime.ver = att[k].ver /\ runtime.conn = 0

Finalized(k) == [runtime EXCEPT !.conn = k, !.state = "preparing",
                                !.lease = Later(@, att[k].fin + Lease)]

\* A commit whose answer is lost is an error to the caller; so is a conflict.
FinalizeClaim(k, answered) ==
  /\ att[k].ph = "finalize"
  /\ runtime' = IF Finalizable(k) THEN Finalized(k) ELSE runtime
  /\ To(k, IF ~answered THEN "abort_error"
           ELSE IF Finalizable(k) THEN "activate" ELSE "abort_replaced")
  /\ Well(answered)
  /\ UNCHANGED <<now, man, queued, minted, conn, stat, retire, cache>>

FinalizeConflict(k) ==
  /\ att[k].ph = "finalize" /\ To(k, "abort_error")
  /\ Well(FALSE)
  /\ UNCHANGED <<now, man, runtime, queued, minted, conn, stat, retire, cache>>

\* activate_singleton_outbound wakes the lease loop.  Its answer is success, or
\* a failure that closed the connection, or a deadline.
Activate(k, ok) ==
  /\ att[k].ph = "activate"
  /\ conn' = IF conn[k].st = "open" /\ conn[k].loop = "waiting"
             THEN [conn EXCEPT ![k] = [@ EXCEPT !.loop = "woken"]] ELSE conn
  /\ ok => conn[k].st = "open"
  /\ To(k, IF ok THEN "mark" ELSE "abort_activation")
  /\ Well(ok)
  /\ UNCHANGED <<now, man, runtime, queued, minted, stat, retire, cache>>

\* A connection that carries nothing more: closed, or its guard revoked by
\* fence_singleton, which closes it too.  run_connection is still to
\* report it if a callback had started.
Gone(c) == [NoConn EXCEPT !.st = "gone",
                          !.loop = IF c.loop \in {"none", "waiting"} THEN "none" ELSE "done"]

\* abort_singleton_outbound: done once the connection is closed, or too late.
Abort(k, ok) ==
  /\ \E ph \in {"abort_error", "abort_replaced", "abort_activation"} :
       /\ att[k].ph = ph
       /\ To(k, IF ph = "abort_activation"
                THEN IF ok THEN "release_finalized" ELSE "retain_finalized"
                ELSE IF ok THEN "release" ELSE "done")
  /\ conn' = [conn EXCEPT ![k] = IF ok THEN Gone(@)
                                 ELSE IF @.st = "open" THEN [@ EXCEPT !.st = "closing"] ELSE @]
  /\ UNCHANGED <<now, man, runtime, queued, minted, stat, retire, cache, events>>

\* release_claim leaves the reservation in place: only its state changes.
ReleaseClaim(k) ==
  /\ att[k].ph = "release" /\ To(k, "done")
  /\ runtime' = IF runtime.token = k /\ runtime.conn = 0
                THEN [runtime EXCEPT !.state = "terminating"] ELSE runtime
  /\ UNCHANGED <<now, man, queued, minted, conn, stat, retire, cache, events>>

ReleaseFinalized(k, ok) ==
  /\ \E ph \in {"release_finalized", "retain_finalized"} :
       att[k].ph = ph /\ To(k, IF ok /\ ph = "release_finalized" THEN "release" ELSE "done")
  /\ runtime' = IF ok /\ runtime.token = k /\ runtime.conn = k
                THEN [runtime EXCEPT !.conn = 0, !.state = "terminating"] ELSE runtime
  /\ Well(ok)
  /\ UNCHANGED <<now, man, queued, minted, conn, stat, retire, cache>>

MarkActive(k) ==
  /\ att[k].ph = "mark" /\ To(k, "done")
  /\ runtime' = IF runtime.token = k /\ runtime.conn = k
                THEN [runtime EXCEPT !.state = "active"] ELSE runtime
  /\ UNCHANGED <<now, man, queued, minted, conn, stat, retire, cache, events>>

\* A transaction fails, the guest is stopped, or its worker dies.
TaskDies(k) ==
  /\ att[k].ph \notin {"idle", "done"} /\ To(k, "done")
  /\ Well(now >= att[k].ct + TaskLimit)
  /\ UNCHANGED <<now, man, runtime, queued, minted, conn, stat, retire, cache>>

-----------------------------------------------------------------------------
(* The worker: SingletonLeaseGuard, singleton_lease_loop and                *)
(* maintain_singleton_lease.                                                *)

\* SingletonLeaseGuard::permits_traffic, read by every send, frame and callback start.
Permits(k) ==
  conn[k].st \in {"open", "closing"} /\ now < conn[k].valid

\* Activation reached the lease loop: the deadline moves on from this moment.
LeaseWoken(k) ==
  /\ conn[k].st # "gone" /\ conn[k].loop = "woken"
  /\ conn' = [conn EXCEPT ![k] =
       IF Permits(k)
       THEN [@ EXCEPT !.valid = Later(conn[k].valid, now + Safety), !.loop = "running",
                      !.next = now + Interval]
       ELSE Gone(@)]
  /\ UNCHANGED <<now, man, runtime, queued, att, minted, stat, retire, cache, events>>

\* The safety deadline passed, with or without a renewal outstanding.
DeadlinePasses(k) ==
  /\ conn[k].st # "gone" /\ conn[k].loop \in {"waiting", "running", "asking"}
  /\ now >= conn[k].valid
  /\ conn' = [conn EXCEPT ![k] = Gone(@)]
  /\ UNCHANGED <<now, man, runtime, queued, att, minted, stat, retire, cache, events>>

SendHeartbeat(k) ==
  /\ conn[k].st # "gone" /\ conn[k].loop = "running" /\ stat[k].st = "none"
  /\ conn[k].next <= now /\ now < conn[k].valid
  /\ conn' = [conn EXCEPT ![k] = [@ EXCEPT !.loop = "asking", !.asked = now, !.next = 0]]
  /\ stat' = [stat EXCEPT ![k] = [NoStat EXCEPT !.st = "sent"]]
  /\ UNCHANGED <<now, man, runtime, queued, att, minted, retire, cache, events>>

\* Mutant: the deadline counts from the answer's arrival.
RenewedLate(c) == [c EXCEPT !.valid = Later(@, now + Safety), !.loop = "running",
                            !.asked = 0, !.next = now + Interval]

\* record_renewal on Accepted: the deadline counts from the request's start.
Renewed(c) == [c EXCEPT !.valid = Later(@, c.asked + Safety), !.loop = "running",
                        !.asked = 0, !.next = now + Interval]

\* A retryable answer is tried again within the time unit of the model.
HeartbeatAnswered(k) ==
  /\ conn[k].st # "gone" /\ conn[k].loop = "asking" /\ stat[k].st \in {"ok", "no", "err"}
  /\ conn' = [conn EXCEPT ![k] =
       CASE stat[k].st = "ok"  -> Renewed(@)
         [] stat[k].st = "no"  -> Gone(@)
         [] stat[k].st = "err" -> [@ EXCEPT !.loop = "running", !.asked = 0, !.next = now]]
  /\ stat' = [stat EXCEPT ![k] = NoStat]
  /\ UNCHANGED <<now, man, runtime, queued, att, minted, retire, cache, events>>

\* The socket closes: the peer, a deployment, an error, the force close, a crash.
SocketCloses(k) ==
  /\ conn[k].st \in {"open", "closing"}
  /\ conn' = [conn EXCEPT ![k] = Gone(@)]
  /\ UNCHANGED <<now, man, runtime, queued, att, minted, stat, retire, cache, events>>

\* run_connection tells control, if it lives to do so and a callback had started.
ReportDisconnected(k) ==
  /\ conn[k].st = "gone" /\ conn[k].loop # "none" /\ stat[k].st \notin {"sent", "beat"}
  /\ conn' = [conn EXCEPT ![k] = [@ EXCEPT !.loop = "none"]]
  /\ stat' = [stat EXCEPT ![k] = [NoStat EXCEPT !.st = "gone"]]
  /\ UNCHANGED <<now, man, runtime, queued, att, minted, retire, cache, events>>

-----------------------------------------------------------------------------
(* websocket_singleton_status: the manifest and the clock, then the update. *)

StatusReads(k) ==
  /\ stat[k].st \in {"sent", "gone"}
  /\ stat' = [stat EXCEPT ![k] =
                [st |-> IF @.st = "sent" THEN "beat" ELSE "left", ver |-> man.ver, ct |-> now]]
  /\ UNCHANGED <<now, man, runtime, queued, att, minted, conn, retire, cache, events>>

Renewable(k) ==
  /\ runtime.token = k /\ runtime.conn = k
  /\ runtime.ver = stat[k].ver /\ runtime.lease > stat[k].ct

\* answered: FALSE when the worker is not told what was committed.
UpdateOnHeartbeat(k, answered) ==
  /\ stat[k].st = "beat"
  /\ runtime' = IF Renewable(k)
                THEN [runtime EXCEPT !.lease = Later(@, stat[k].ct + Lease)] ELSE runtime
  /\ stat' = [stat EXCEPT ![k] =
                [NoStat EXCEPT !.st = IF conn[k].st = "gone" THEN "none"
                                      ELSE IF ~answered THEN "err"
                                      ELSE IF Renewable(k) THEN "ok" ELSE "no"]]
  /\ Well(answered)
  /\ UNCHANGED <<now, man, queued, att, minted, conn, retire, cache>>

UpdateOnDisconnect(k) ==
  /\ stat[k].st = "left"
  /\ IF runtime.token = k /\ runtime.conn \in {0, k}
     THEN /\ runtime' = [runtime EXCEPT !.conn = 0, !.state = "terminating"]
          /\ queued' = queued \cup {stat[k].ver}
     ELSE UNCHANGED <<runtime, queued>>
  /\ stat' = [stat EXCEPT ![k] = NoStat]
  /\ UNCHANGED <<now, man, att, minted, conn, retire, cache, events>>

StatusFails(k) ==
  /\ stat[k].st \in {"sent", "beat", "gone", "left"}
  /\ stat' = [stat EXCEPT ![k] =
                [NoStat EXCEPT !.st = IF conn[k].st = "gone" THEN "none" ELSE "err"]]
  /\ Well(FALSE)
  /\ UNCHANGED <<now, man, runtime, queued, att, minted, conn, retire, cache>>

-----------------------------------------------------------------------------
(* Deployments and the cron tick.                                           *)

SetActivating ==
  /\ man.active /\ Event
  /\ man' = [ver |-> man.ver + 1, active |-> FALSE]
  /\ UNCHANGED <<now, runtime, queued, att, minted, conn, stat, retire, cache>>

\* set_active, then enqueue_singletons.
SetActive ==
  /\ ~man.active
  /\ man' = [man EXCEPT !.active = TRUE]
  /\ queued' = queued \cup {man.ver}
  /\ UNCHANGED <<now, runtime, att, minted, conn, stat, retire, cache, events>>

\* The tick asks for a reconcile when runtime_needs_reconnect.
TickReconcile ==
  /\ man.active /\ runtime.lease <= now /\ man.ver \notin queued
  /\ queued' = queued \cup {man.ver}
  /\ UNCHANGED <<now, man, runtime, att, minted, conn, stat, retire, cache, events>>

\* A runtime of another version is read ...
RetireReads ==
  /\ ~retire.on /\ man.active /\ runtime.token # 0 /\ runtime.ver # man.ver
  /\ retire' = [on |-> TRUE, doc |-> runtime, ct |-> now]
  /\ UNCHANGED <<now, man, runtime, queued, att, minted, conn, stat, cache, events>>

Retired == IF runtime.lease <= retire.ct THEN NoRuntime
           ELSE [runtime EXCEPT !.conn = 0, !.state = "terminating"]

\* ... and retired if nothing but its state changed since.
RetireRuntime ==
  /\ retire.on /\ retire' = NoRead
  /\ runtime' = IF [runtime EXCEPT !.state = retire.doc.state] = retire.doc THEN Retired ELSE runtime
  /\ UNCHANGED <<now, man, queued, att, minted, conn, stat, cache, events>>

-----------------------------------------------------------------------------
(* resolve_singleton_cached on a sending worker and resolve_singleton.      *)

ResolveAsks ==
  /\ cache.st = "none" /\ Event
  /\ cache' = [cache EXCEPT !.st = "asked", !.asked = now]
  /\ UNCHANGED <<now, man, runtime, queued, att, minted, conn, stat, retire>>

ResolveStamps ==
  /\ cache.st = "asked"
  /\ cache' = [cache EXCEPT !.st = "stamped", !.ct = now]
  /\ UNCHANGED <<now, man, runtime, queued, att, minted, conn, stat, retire, events>>

\* Mutant: the entry lives as long as the reservation was good for, from the answer on.
CacheUntilLate == now + Later(0, runtime.lease - cache.ct)

\* singleton_cache_valid_until
CacheUntil == cache.asked + Later(0, runtime.lease - cache.ct - Safety)

ResolveAnswers ==
  /\ cache.st = "stamped"
  /\ cache' = IF /\ man.active /\ runtime.ver = man.ver
                 /\ runtime.conn # 0 /\ runtime.state = "active" /\ runtime.lease > cache.ct
              THEN [NoCache EXCEPT !.st = "connected", !.token = runtime.token, !.valid = CacheUntil]
              ELSE NoCache
  /\ UNCHANGED <<now, man, runtime, queued, att, minted, conn, stat, retire, events>>

\* The entry is dropped when it has expired or its connection is not found.
CacheDrops ==
  /\ cache.st = "connected"
  /\ now >= cache.valid \/ conn[cache.token].st # "open"
  /\ cache' = NoCache
  /\ UNCHANGED <<now, man, runtime, queued, att, minted, conn, stat, retire, events>>

-----------------------------------------------------------------------------
ReconcileStep(k) ==
  \/ AcquireClaim(k)
  \/ \E b \in BOOLEAN : Initialize(k, b) \/ Connect(k, b)
  \/ StampFinalize(k)
  \/ \E b \in BOOLEAN : FinalizeClaim(k, b) \/ Activate(k, b) \/ Abort(k, b)
  \/ FinalizeConflict(k) \/ ReleaseClaim(k) \/ MarkActive(k)
  \/ \E b \in BOOLEAN : ReleaseFinalized(k, b)
  \/ TaskDies(k)

WorkerStep(k) ==
  \/ LeaseWoken(k) \/ DeadlinePasses(k) \/ SendHeartbeat(k) \/ HeartbeatAnswered(k)
  \/ SocketCloses(k) \/ ReportDisconnected(k)

StatusStep(k) ==
  \/ StatusReads(k) \/ UpdateOnDisconnect(k) \/ StatusFails(k)
  \/ \E b \in BOOLEAN : UpdateOnHeartbeat(k, b)

ControlStep == SetActivating \/ SetActive \/ TickReconcile \/ RetireReads \/ RetireRuntime

ResolveStep == ResolveAsks \/ ResolveStamps \/ ResolveAnswers \/ CacheDrops

Next ==
  \/ Tick \/ ControlStep \/ ResolveStep
  \/ \E v \in queued : StartReconcile(v)
  \/ \E k \in Claim : ReconcileStep(k) \/ WorkerStep(k) \/ StatusStep(k)

Spec == Init /\ [][Next]_vars

-----------------------------------------------------------------------------
\* At most one connection of a singleton may carry traffic, on whichever worker,
\* and it is the one of the claim control has on record, within that
\* reservation: SingletonLeaseGuard against acquire_claim,
\* update_runtime_status and retire_runtime_if_unchanged.
ExclusiveTraffic ==
  \A k \in Claim : Permits(k) => runtime.token = k /\ conn[k].valid <= runtime.lease

\* A sender's cached resolution is used only while the claim it names still
\* holds the reservation, with the safety deadline to spare
\* (singleton_cache_valid_until against every way a claim is replaced).
CachedIsOwner ==
  cache.st = "connected" /\ now < cache.valid =>
    runtime.token = cache.token /\ cache.valid + Safety <= runtime.lease
=============================================================================
