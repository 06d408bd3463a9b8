------------------------ MODULE SingletonActivation -------------------------
(***************************************************************************)
(* A singleton's prepared connection on the worker that opened it          *)
(* (fn0/worker/src/websocket.rs): its activation, a spawned task that       *)
(* outlives the call that asked for it, its abort, and run_connection's     *)
(* teardown, which waits for the activation to be over before the           *)
(* project's on_disconnect runs.  The three meet in                         *)
(* SingletonActivationLifecycle: a state behind a lock, and a tokio watch   *)
(* channel whose send stores nothing while nobody is subscribed.            *)
(***************************************************************************)

VARIABLES
  life,     \* SingletonActivationLifecycle::state
  started,  \* activation_started
  cb,       \* callback_started
  term,     \* the value in the terminal channel
  subs,     \* who holds a receiver of it
  entry,    \* the connection in WebSocketService::connections
  guard,    \* SingletonLeaseGuard permits traffic
  lease,    \* singleton_lease_loop
  run,      \* where run_connection is
  closed,   \* closed_sender has sent
  act,      \* where activate_prepared_singleton is
  res,      \* its result
  ctl,      \* the activation call of the control plane
  abort,    \* abort_singleton_outbound
  dir,      \* listed in the connection directory
  slot,     \* in singleton_connections
  ready,    \* message_ready: inbound messages flow
  disc      \* on_disconnect was invoked and the disconnect reported

lifecycle == <<life, started, cb, term, subs>>
socket    == <<entry, guard, lease, run, closed>>
tasks     == <<act, res, ctl, abort>>
outside   == <<dir, slot, ready, disc>>
vars      == <<lifecycle, socket, tasks, outside>>

\* connect_singleton_outbound has prepared the connection.
Init ==
  /\ life = "Prepared" /\ started = FALSE /\ cb = FALSE /\ term = FALSE /\ subs = {}
  /\ entry = "open" /\ guard = TRUE /\ lease = "waiting" /\ run = "socket" /\ closed = FALSE
  /\ act = "idle" /\ res = "none" /\ ctl = "none" /\ abort = "idle"
  /\ dir = FALSE /\ slot = TRUE /\ ready = FALSE /\ disc = FALSE

-----------------------------------------------------------------------------
(* SingletonActivationLifecycle                                             *)

\* watch::Sender::send(true): lost when no receiver exists.
SignalTerminal == term' = (term \/ subs # {})

Requested(l) == CASE l = "Prepared" -> "Aborted"
                  [] l \in {"Activating", "CallbackRunning", "Active"} -> "AbortRequested"
                  [] OTHER -> l

\* request_abort
RequestAbort ==
  /\ life' = Requested(life)
  /\ IF life' \in {"Aborted", "Failed"} THEN SignalTerminal ELSE UNCHANGED term

\* finish
Finish(ok) ==
  /\ life' = CASE life \in {"AbortRequested", "Aborted"} -> "Aborted"
               [] life = "Active" /\ ok -> "Active"
               [] OTHER -> "Failed"
  /\ SignalTerminal

\* close_connection: the first to set closing asks the writer to close.
CloseConnection == entry' = IF entry = "open" THEN "closing" ELSE entry

-----------------------------------------------------------------------------
(* activate_singleton_outbound and the task it spawns once.                 *)

AskActivate ==
  /\ ctl = "none" /\ abort = "idle" /\ slot
  /\ ctl' = "waiting" /\ act' = "check"
  /\ UNCHANGED <<lifecycle, socket, res, abort, outside>>

\* The call's answer, or its deadline; the task goes on.
ActivateAnswered ==
  /\ ctl = "waiting" /\ act = "done"
  /\ ctl' = IF res = "ok" /\ life = "Active" THEN "ok" ELSE "err"
  /\ UNCHANGED <<lifecycle, socket, act, res, abort, outside>>

ActivateLate ==
  /\ ctl = "waiting" /\ ctl' = "late"
  /\ UNCHANGED <<lifecycle, socket, act, res, abort, outside>>

CheckEntry ==
  /\ act = "check"
  /\ IF entry = "open" THEN act' = "begin" /\ UNCHANGED res ELSE act' = "done" /\ res' = "err"
  /\ UNCHANGED <<lifecycle, socket, ctl, abort, outside>>

Begin ==
  /\ act = "begin"
  /\ IF life = "Prepared"
     THEN life' = "Activating" /\ started' = TRUE /\ act' = "wake" /\ UNCHANGED res
     ELSE act' = "done" /\ res' = "err" /\ UNCHANGED <<life, started>>
  /\ UNCHANGED <<cb, term, subs, socket, ctl, abort, outside>>

\* The step fails: the connection is closed and the task finishes with an error.
Fails == act' = "finish" /\ res' = "err" /\ CloseConnection

\* lease_activation_sender.send
WakeLease ==
  /\ act = "wake"
  /\ IF lease = "waiting"
     THEN act' = "callback" /\ lease' = "running" /\ UNCHANGED <<res, entry>>
     ELSE Fails /\ UNCHANGED lease
  /\ UNCHANGED <<lifecycle, guard, run, closed, ctl, abort, outside>>

BeginCallback ==
  /\ act = "callback"
  /\ IF life = "Activating"
     THEN life' = "CallbackRunning" /\ cb' = TRUE /\ act' = "permit" /\ UNCHANGED <<res, entry>>
     ELSE Fails /\ UNCHANGED <<life, cb>>
  /\ UNCHANGED <<started, term, subs, guard, lease, run, closed, ctl, abort, outside>>

\* permits_traffic, then again at the callback's start gate.
StartCallback ==
  /\ act = "permit"
  /\ IF guard THEN act' = "running" /\ UNCHANGED <<res, entry>> ELSE Fails
  /\ UNCHANGED <<lifecycle, guard, lease, run, closed, ctl, abort, outside>>

\* The project's on_connect ends.
CallbackEnds(ok) ==
  /\ act = "running"
  /\ IF ok THEN act' = "recheck" /\ UNCHANGED <<res, entry>> ELSE Fails
  /\ UNCHANGED <<lifecycle, guard, lease, run, closed, ctl, abort, outside>>

RecheckEntry ==
  /\ act = "recheck"
  /\ IF entry = "open" THEN act' = "publish" /\ UNCHANGED res ELSE act' = "finish" /\ res' = "err"
  /\ UNCHANGED <<lifecycle, socket, ctl, abort, outside>>

\* publish_connection, which may fail with or without having stored the entry.
Publish(ok) ==
  /\ act = "publish"
  /\ IF ok THEN act' = "commit" /\ dir' = TRUE /\ UNCHANGED <<res, entry>>
           ELSE Fails /\ dir' \in {dir, TRUE}
  /\ UNCHANGED <<lifecycle, guard, lease, run, closed, ctl, abort, slot, ready, disc>>

CommitActive ==
  /\ act = "commit"
  /\ IF life = "CallbackRunning"
     THEN life' = "Active" /\ act' = "ready"
     ELSE act' = "retract" /\ UNCHANGED life
  /\ UNCHANGED <<started, cb, term, subs, socket, res, ctl, abort, outside>>

\* unpublish_connection; an error is logged.
Retract ==
  /\ act = "retract" /\ Fails
  /\ dir' \in {dir, FALSE}
  /\ UNCHANGED <<lifecycle, guard, lease, run, closed, ctl, abort, slot, ready, disc>>

\* message_ready_sender.send reaches the reader while run_connection keeps it.
MessagesReady ==
  /\ act = "ready"
  /\ IF run = "socket" THEN act' = "finish" /\ res' = "ok" /\ ready' = TRUE /\ UNCHANGED entry
                       ELSE Fails /\ UNCHANGED ready
  /\ UNCHANGED <<lifecycle, guard, lease, run, closed, ctl, abort, dir, slot, disc>>

FinishActivation ==
  /\ act = "finish" /\ Finish(res = "ok")
  /\ act' = "done" /\ res' = IF res = "ok" /\ life' = "Active" THEN "ok" ELSE "err"
  /\ UNCHANGED <<started, cb, subs, socket, ctl, abort, outside>>

-----------------------------------------------------------------------------
(* abort_singleton_outbound, which control calls when the claim was lost or *)
(* the activation failed or was too late for it.                            *)

AbortFinds ==
  /\ abort = "idle" /\ ctl \in {"none", "err", "late"}
  /\ IF slot THEN abort' = "request" /\ subs' = subs \cup {"abort"}
             ELSE abort' = "ok" /\ UNCHANGED subs
  /\ UNCHANGED <<life, started, cb, term, socket, act, res, ctl, outside>>

AbortRequests ==
  /\ abort = "request" /\ RequestAbort /\ abort' = "close"
  /\ UNCHANGED <<started, cb, subs, socket, act, res, ctl, outside>>

AbortCloses ==
  /\ abort = "close" /\ CloseConnection
  /\ abort' = IF entry = "removed" THEN "wait_terminal" ELSE "wait_both"
  /\ UNCHANGED <<lifecycle, guard, lease, run, closed, act, res, ctl, outside>>

\* try_join!(close_wait, activation_wait)
Aborted == \/ abort = "wait_both" /\ closed /\ term
           \/ abort = "wait_terminal" /\ term

AbortAnswered ==
  /\ Aborted
  /\ abort' = "ok" /\ subs' = subs \ {"abort"}
  /\ UNCHANGED <<life, started, cb, term, socket, act, res, ctl, outside>>

AbortLate ==
  /\ abort \in {"wait_both", "wait_terminal"}
  /\ abort' = "late" /\ subs' = subs \ {"abort"}
  /\ UNCHANGED <<life, started, cb, term, socket, act, res, ctl, outside>>

-----------------------------------------------------------------------------
(* The lease, the socket and run_connection after its select.               *)

LeaseExpires ==
  /\ guard /\ guard' = FALSE
  /\ UNCHANGED <<lifecycle, entry, lease, run, closed, tasks, outside>>

\* fence_singleton
LeaseFences ==
  /\ ~guard /\ lease \in {"waiting", "running"}
  /\ lease' = "ended" /\ CloseConnection
  /\ UNCHANGED <<lifecycle, guard, run, closed, tasks, outside>>

\* close_project, for a deployment
ProjectCloses ==
  /\ entry = "open" /\ CloseConnection
  /\ UNCHANGED <<lifecycle, guard, lease, run, closed, tasks, outside>>

\* The writer ends, for the peer, an error or a close that was asked for, or is
\* forced to; the reader and the lease loop are stopped.
SocketEnds ==
  /\ run = "socket" /\ run' = "remove" /\ lease' = "ended"
  /\ UNCHANGED <<lifecycle, entry, guard, closed, tasks, outside>>

RemoveEntry ==
  /\ run = "remove" /\ run' = "unpublish" /\ entry' = "removed"
  /\ UNCHANGED <<lifecycle, guard, lease, closed, tasks, outside>>

Unpublish ==
  /\ run = "unpublish" /\ run' = "close" /\ dir' \in {dir, FALSE}
  /\ UNCHANGED <<lifecycle, entry, guard, lease, closed, tasks, slot, ready, disc>>

SendClosed ==
  /\ run = "close" /\ run' = "abort" /\ closed' = TRUE
  /\ UNCHANGED <<lifecycle, entry, guard, lease, tasks, outside>>

\* Mutant: the teardown does not wait for a running activation.
RunAbortsOnly ==
  /\ run = "abort" /\ RequestAbort
  /\ run' = "last"
  /\ UNCHANGED <<started, cb, subs, entry, guard, lease, closed, tasks, outside>>

RunAborts ==
  /\ run = "abort" /\ RequestAbort
  /\ run' = IF started THEN "subscribe" ELSE "last"
  /\ UNCHANGED <<started, cb, subs, entry, guard, lease, closed, tasks, outside>>

RunSubscribes ==
  /\ run = "subscribe" /\ run' = "wait" /\ subs' = subs \cup {"run"}
  /\ UNCHANGED <<life, started, cb, term, entry, guard, lease, closed, tasks, outside>>

\* wait_for_activation_terminal_unbounded
RunReleased ==
  /\ run = "wait" /\ term /\ run' = "last" /\ subs' = subs \ {"run"}
  /\ UNCHANGED <<life, started, cb, term, entry, guard, lease, closed, tasks, outside>>

\* The slot goes; invoke_disconnect and "disconnected" if a callback had started.
RunEnds ==
  /\ run = "last" /\ run' = "done"
  /\ slot' = FALSE /\ disc' = cb
  /\ UNCHANGED <<lifecycle, entry, guard, lease, closed, tasks, dir, ready>>

-----------------------------------------------------------------------------
ActivationStep ==
  \/ CheckEntry \/ Begin \/ WakeLease \/ BeginCallback \/ StartCallback
  \/ \E ok \in BOOLEAN : CallbackEnds(ok) \/ Publish(ok)
  \/ RecheckEntry \/ CommitActive \/ Retract \/ MessagesReady \/ FinishActivation

AbortStep == AbortFinds \/ AbortRequests \/ AbortCloses \/ AbortAnswered \/ AbortLate

Teardown ==
  \/ RemoveEntry \/ Unpublish \/ SendClosed \/ RunAborts \/ RunSubscribes
  \/ RunReleased \/ RunEnds

Next ==
  \/ AskActivate \/ ActivateAnswered \/ ActivateLate \/ ActivationStep \/ AbortStep
  \/ LeaseExpires \/ LeaseFences \/ ProjectCloses \/ SocketEnds \/ Teardown

\* Tasks are scheduled, callbacks and directory calls have deadlines, and a
\* connection that is closing is closed by force.
Fairness ==
  /\ WF_vars(ActivationStep) /\ WF_vars(Teardown)
  /\ WF_vars(entry = "closing" /\ SocketEnds)

Spec == Init /\ [][Next]_vars
FairSpec == Spec /\ Fairness

-----------------------------------------------------------------------------
\* The callbacks keep their order.  An abort answered Ok is final: the
\* connection is gone, no on_connect of it is running and none can start
\* (connect_claimed gives the claim up on this answer, so a callback that still
\* ran would run without an owner).  And on_disconnect is invoked only for a
\* connection whose on_connect was started, once that callback and everything
\* activation does after it are over (run_connection's wait).
CallbacksOrdered ==
  /\ abort = "ok" =>
       /\ entry = "removed"
       /\ life \in {"AbortRequested", "Aborted", "Failed"}
       /\ act \in {"idle", "check", "begin", "done"}
  /\ disc => cb /\ act = "done"

\* run_connection ends once the socket has: the slot is free, on_disconnect has
\* been invoked and control told.
TornDown == closed ~> run = "done"
=============================================================================
