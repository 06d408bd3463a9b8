---------------------------- MODULE MCWebSocket -----------------------------
(* The parts of the WebSocket service side by side: who may own a singleton    *)
(* (SingletonLease, extended), a prepared singleton connection (A), one        *)
(* connection's queues and tasks (C), and the worker's registry (S).  A        *)
(* behaviour runs one of them, the others stay in their initial states.        *)
EXTENDS SingletonLease

CONSTANTS s1, s2, d1

VARIABLES
  part,
  life, started, cb, term, subs, entry, aguard, lease, arun, closed, act, res, ctl, abort,
  dir, slot, ready, disc,
  closing, guard, forced, queue, parked, control, writer, some, parting, wire, ans, bye,
  reader, pending, calls, run,
  draining, wcount, pcount, gen, sconn, closer

A == INSTANCE SingletonActivation WITH guard <- aguard, run <- arun
C == INSTANCE WebSocketConnection WITH
  Sends <- {s1, s2}, Disconnects <- {d1}, QueueCap <- 1, InLimit <- 1, MaxCalls <- 1,
  MaxFrames <- 1
S == INSTANCE WebSocketService WITH
  Inbound <- {1, 3}, Outbound <- {2}, Project <- <<"a", "a", "a">>, WorkerLimit <- 2,
  ProjectLimit <- 1, MaxGen <- 1, conn <- sconn

avars == <<life, started, cb, term, subs, entry, aguard, lease, arun, closed, act, res, ctl,
           abort, dir, slot, ready, disc>>
cvars == <<closing, guard, forced, queue, parked, control, writer, some, parting, wire, ans,
           bye, reader, pending, calls, run>>
svars == <<draining, wcount, pcount, gen, sconn, closer>>

MCInit ==
  /\ part \in {"lease", "activation", "connection", "service"}
  /\ Init /\ A!Init /\ C!Init /\ S!Init

InLease      == part = "lease" /\ Next /\ UNCHANGED <<avars, cvars, svars>>
InActivation == part = "activation" /\ A!Next /\ UNCHANGED <<vars, cvars, svars>>
InConnection == part = "connection" /\ C!Next /\ UNCHANGED <<vars, avars, svars>>
InService    == part = "service" /\ S!Next /\ UNCHANGED <<vars, avars, cvars>>

MCNext == UNCHANGED part /\ (InLease \/ InActivation \/ InConnection \/ InService)
MCSpec == MCInit /\ [][MCNext]_<<part, vars, avars, cvars, svars>>

-----------------------------------------------------------------------------
\* An abort answered Ok is final: no on_connect of the connection runs or can
\* start (abort_singleton_outbound); and on_disconnect is invoked only after an
\* on_connect that was started, and all of the activation, are over
\* (run_connection).
CallbacksOrdered == A!CallbacksOrdered

\* A sender is told "not sent" or "ok", and a disconnect "ok", only when it is
\* so; and messages do not mix on the socket and nothing follows a close
\* (writer_loop, send_message, await_send_response, disconnect_entry,
\* send_failure_close, close_sent).
SentIsHonest == C!AnswersAreHonest /\ C!WireWellFormed

\* Capacity is neither lost nor given twice, and once a close_project or a
\* close_all is through, no connection from before it is left open
\* (reserve_capacity, CapacityGuard, register_connection).
RegistryIsExact == S!CapacityExact /\ S!NoneLeftOpen
=============================================================================
